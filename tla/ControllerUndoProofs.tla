----------------------- MODULE ControllerUndoProofs -----------------------
(***************************************************************************)
(* Proofs about ControllerUndo for any texts, selections, byte arrays and  *)
(* bounds.                                                                 *)
(*                                                                         *)
(* The commands are functions from an editor to an editor.  Each of them   *)
(* has a lemma that says what it returns: what it makes of the selection,  *)
(* which bytes it replaces, what it does to the coalescer and which        *)
(* operations it registers.  The inductive invariant Inv says more of the  *)
(* selection than that it can be used: at most one of its ranges is empty, *)
(* and none of several during a string of typing, since a caret beside a   *)
(* range would be what a second digit takes for its place.  In overwrite   *)
(* mode a string of typing is never empty.                                 *)
(*                                                                         *)
(* The history has an invariant of its own, Chained: from the text, each   *)
(* stack leads through a sequence of texts, where every operation lies     *)
(* inside the text it is performed on and makes the next one.  Such a      *)
(* sequence is a witness, so no text has to be computed from the stacks.   *)
(* While an event runs, During says that what it has registered leads back *)
(* from the text the command has made to the text before it, or that the   *)
(* coalescer, which it has changed, still leads to the text before the     *)
(* string of typing.                                                       *)
(***************************************************************************)
EXTENDS ControllerUndo, SequenceLemmas, FiniteSetTheorems

-----------------------------------------------------------------------------
(* Ranges *)

Text == Seq(Bytes)
HFRange == [location : Nat, length : Nat]

\* No range begins before the end of an earlier one.
Ordered(rs) == \A i, j \in DOMAIN rs : i < j => MaxRange(rs[i]) <= rs[j].location

\* At most one range is empty.
OneEmpty(rs) ==
    \A i, j \in DOMAIN rs : rs[i].length = 0 /\ rs[j].length = 0 => i = j

\* None of several ranges is empty.
Strict(rs) == Len(rs) > 1 => \A i \in DOMAIN rs : rs[i].length > 0

\* All ranges end at n or before.
EndBy(rs, n) == \A i \in DOMAIN rs : MaxRange(rs[i]) <= n

\* A selection in a text of length n.
Usable(rs, n) ==
    rs \in Seq(HFRange) /\ rs # <<>> /\ Ordered(rs) /\ OneEmpty(rs) /\ EndBy(rs, n)

\* The numbers of a range.
LEMMA RangeFacts ==
  ASSUME NEW r \in HFRange
  PROVE  /\ r.location \in Nat /\ r.length \in Nat /\ MaxRange(r) \in Nat
         /\ MaxRange(r) = r.location + r.length
         /\ r.location <= MaxRange(r)
         /\ r.length = 0 <=> MaxRange(r) = r.location
         /\ r = RangeMake(r.location, r.length)
  BY DEF HFRange, MaxRange, RangeMake

\* A range between two positions.
LEMMA BetweenIs ==
  ASSUME NEW from \in Nat, NEW to \in Nat, from <= to
  PROVE  /\ Between(from, to) \in HFRange /\ Between(from, to).location = from
         /\ MaxRange(Between(from, to)) = to /\ Between(from, to).length = to - from
  BY DEF Between, RangeMake, HFRange, MaxRange

\* A range that is made.
LEMMA RangeMakeIs ==
  ASSUME NEW location \in Nat, NEW length \in Nat
  PROVE  /\ RangeMake(location, length) \in HFRange
         /\ RangeMake(location, length).location = location
         /\ RangeMake(location, length).length = length
         /\ MaxRange(RangeMake(location, length)) = location + length
  BY DEF RangeMake, HFRange, MaxRange

\* A range within a text.
LEMMA WithinIs ==
  ASSUME NEW r \in HFRange, NEW t
  PROVE  Within(r, t) <=> MaxRange(r) <= Len(t)
  BY RangeFacts DEF Within

\* Kept keeps the elements at these positions, in their order.
LEMMA KeptIs ==
  ASSUME NEW S, NEW s \in Seq(S), NEW P
  PROVE  /\ Kept(s, P) \in Seq(S)
         /\ \E at : KeptAt(Kept(s, P), s, P, at)
  <1> DEFINE kept[i \in 0 .. Len(s)] ==
                IF i = 0 THEN <<>>
                ELSE IF i \in P THEN Append(kept[i - 1], s[i])
                ELSE kept[i - 1]
  <1>1. Kept(s, P) = kept[Len(s)]
    BY DEF Kept
  <1>2. kept = CHOOSE f : KeptSoFar(f, s, P, Len(s))
    BY DEF KeptSoFar
  <1> HIDE DEF kept
  <1> QED BY <1>1, <1>2, KeepingIs

\* In ascending order, ranges are those of InOrder already.
LEMMA InOrderIs ==
  ASSUME NEW rs \in Seq(HFRange), Ordered(rs)
  PROVE  InOrder(rs) = rs
  <1> DEFINE n == Len(rs)
             Before(i, j) ==
                \/ rs[i].location < rs[j].location
                \/ rs[i].location = rs[j].location /\ rs[i].length < rs[j].length
                \/ rs[i] = rs[j] /\ i < j
             Behind(i) == {j \in DOMAIN rs : Before(j, i)}
  <1>1. n \in Nat /\ DOMAIN rs = 1 .. n /\ \A i \in 1 .. n : rs[i] \in HFRange
    BY SeqFacts
  <1>2. \A i, j \in 1 .. n : i < j => Before(i, j) /\ ~ Before(j, i)
    <2> TAKE i, j \in 1 .. n
    <2> HAVE i < j
    <2>1. MaxRange(rs[i]) <= rs[j].location
      BY <1>1 DEF Ordered
    <2>2. rs[i] \in HFRange /\ rs[j] \in HFRange
      BY <1>1
    <2>3. /\ rs[i].location \in Nat /\ rs[i].length \in Nat
          /\ rs[j].location \in Nat /\ rs[j].length \in Nat
          /\ MaxRange(rs[i]) = rs[i].location + rs[i].length
          /\ rs[i] = RangeMake(rs[i].location, rs[i].length)
          /\ rs[j] = RangeMake(rs[j].location, rs[j].length)
      BY <2>2, RangeFacts
    <2> DEFINE a == rs[i].location
               b == rs[i].length
               c == rs[j].location
               d == rs[j].length
    <2>4. a \in Nat /\ b \in Nat /\ c \in Nat /\ d \in Nat /\ a + b <= c
      BY <2>1, <2>3
    <2>5. rs[i] = rs[j] <=> a = c /\ b = d
      <3>1. rs[i] = RangeMake(a, b) /\ rs[j] = RangeMake(c, d)
        BY <2>3
      <3> HIDE DEF a, b, c, d
      <3>2. a = c /\ b = d => rs[i] = rs[j]
        BY <3>1
      <3> QED BY <3>2 DEF a, b, c, d
    <2>6. Before(i, j) <=> a < c \/ (a = c /\ b < d) \/ (rs[i] = rs[j] /\ i < j)
      OBVIOUS
    <2>7. Before(j, i) <=> c < a \/ (c = a /\ d < b) \/ (rs[i] = rs[j] /\ j < i)
      OBVIOUS
    <2> HIDE DEF a, b, c, d, Before
    <2> QED BY <2>4, <2>5, <2>6, <2>7
  <1>3. \A i \in 1 .. n : ~ Before(i, i)
    <2> TAKE i \in 1 .. n
    <2>1. rs[i].location \in Nat /\ rs[i].length \in Nat
      BY <1>1, RangeFacts
    <2> QED BY <2>1
  <1> HIDE DEF Before
  <1>4. \A i \in 1 .. n : Behind(i) = 1 .. i - 1
    <2> TAKE i \in 1 .. n
    <2>1. \A j \in 1 .. n : Before(j, i) <=> j < i
      <3> TAKE j \in 1 .. n
      <3>1. j < i \/ j = i \/ i < j
        BY <1>1
      <3> QED BY <1>2, <1>3, <3>1
    <2> QED BY <1>1, <2>1
  <1>5. \A i \in 1 .. n : Cardinality(Behind(i)) = i - 1
    <2> TAKE i \in 1 .. n
    <2>1. Cardinality(1 .. i - 1) = IF 1 > i - 1 THEN 0 ELSE i - 1 - 1 + 1
      BY <1>1, FS_Interval
    <2> HIDE DEF Behind
    <2> QED BY <1>1, <1>4, <2>1
  <1>6. \A i \in 1 .. n : (CHOOSE k \in DOMAIN rs : Cardinality(Behind(k)) = i - 1) = i
    <2> TAKE i \in 1 .. n
    <2> HIDE DEF Behind
    <2>1. \A k \in DOMAIN rs : Cardinality(Behind(k)) = i - 1 <=> k = i
      BY <1>1, <1>5
    <2> QED BY <1>1, <2>1
  <1>7. InOrder(rs) = [i \in DOMAIN rs |-> rs[CHOOSE k \in DOMAIN rs : Cardinality(Behind(k)) = i - 1]]
    BY DEF InOrder, Behind, Before
  <1> HIDE DEF Behind
  <1>8. InOrder(rs) = [i \in DOMAIN rs |-> rs[i]]
    BY <1>1, <1>6, <1>7
  <1>9. rs = [i \in DOMAIN rs |-> rs[i]]
    <2>1. rs \in [1 .. n -> HFRange]
      BY SeqDef
    <2> QED BY <1>1, <2>1
  <1> QED BY <1>8, <1>9

\* How a range is merged into those before it.
Merged(p, q, r) ==
    LET m == Len(q)
        l == q[m]
    IN  /\ p \in Seq(HFRange)
        /\ \/ /\ m = 0 \/ MaxRange(l) < r.location
              /\ p = Append(q, r)
           \/ /\ m > 0 /\ MaxRange(l) = r.location
              /\ Len(p) = m /\ \A k \in 1 .. m - 1 : p[k] = q[k]
              /\ p[m] = Between(l.location, MaxRange(r))

\* If it is not before the end of the last of them.
LEMMA MergeRangeIs ==
  ASSUME NEW q \in Seq(HFRange), NEW r \in HFRange,
         Len(q) > 0 => MaxRange(q[Len(q)]) <= r.location
  PROVE  Merged(MergeRange(q, r), q, r)
  <1> DEFINE m == Len(q)
             l == q[m]
  <1>1. m \in Nat /\ (q # <<>> <=> m > 0) /\ \A k \in 1 .. m : q[k] \in HFRange
    BY SeqFacts
  <1>2. CASE m = 0
    <2>1. MergeRange(q, r) = Append(q, r)
      BY <1>1, <1>2 DEF MergeRange
    <2>2. Append(q, r) \in Seq(HFRange)
      BY AppendProperties
    <2> QED BY <1>2, <2>1, <2>2 DEF Merged
  <1>3. CASE m > 0
    <2>1. l \in HFRange /\ MaxRange(l) <= r.location /\ Last(q) = l
      BY <1>1, <1>3 DEF Last
    <2>2. /\ l.location \in Nat /\ MaxRange(l) \in Nat /\ l.location <= MaxRange(l)
          /\ r.location \in Nat /\ MaxRange(r) \in Nat /\ r.location <= MaxRange(r)
      BY <2>1, RangeFacts
    <2> HIDE DEF l, m
    <2>3. Touch(l, r) <=> MaxRange(l) = r.location
      <3>1. Positions(l) \cap Positions(r) = {}
        BY <2>1, <2>2 DEF Positions
      <3>2. MaxRange(r) = l.location => MaxRange(l) = r.location
        BY <2>1, <2>2
      <3> QED BY <3>1, <3>2 DEF Touch, IntersectsRange
    <2>4. CASE MaxRange(l) # r.location
      <3>1. MergeRange(q, r) = Append(q, r)
        BY <2>1, <2>3, <2>4 DEF MergeRange
      <3>2. Append(q, r) \in Seq(HFRange) /\ MaxRange(l) < r.location
        BY <2>1, <2>2, <2>4, AppendProperties
      <3> QED BY <3>1, <3>2 DEF Merged, m, l
    <2>5. CASE MaxRange(l) = r.location
      <3> DEFINE u == Between(l.location, MaxRange(r))
                 f == Front(q)
                 p == Append(f, u)
      <3>1. UnionRange(l, r) = u
        BY <2>1, <2>2, <2>5 DEF UnionRange, Least, Greatest
      <3>2. q # <<>>
        BY <1>1, <1>3
      <3>3. MergeRange(q, r) = p
        BY <2>1, <2>3, <2>5, <3>1, <3>2 DEF MergeRange
      <3>4. u \in HFRange
        BY <2>1, <2>2, BetweenIs
      <3>5. f \in Seq(HFRange) /\ Len(f) = m - 1 /\ \A k \in 1 .. m - 1 : f[k] = q[k]
        <4>1. /\ SubSeq(q, 1, m - 1) \in Seq(HFRange)
              /\ Len(SubSeq(q, 1, m - 1)) = IF 1 <= m - 1 THEN m - 1 - 1 + 1 ELSE 0
              /\ \A i \in 1 .. m - 1 - 1 + 1 : SubSeq(q, 1, m - 1)[i] = q[1 + i - 1]
          <5>1. \A i \in 1 .. m - 1 : q[i] \in HFRange
            BY <1>1
          <5>2. 1 \in Int /\ m - 1 \in Int
            BY <1>1
          <5> QED BY <5>1, <5>2, SubSeqProperties
        <4>2. f = SubSeq(q, 1, m - 1)
          BY DEF Front, m
        <4>3. m - 1 - 1 + 1 = m - 1 /\ \A i \in 1 .. m - 1 : 1 + i - 1 = i
          BY <1>1
        <4> QED BY <1>1, <1>3, <4>1, <4>2, <4>3
      <3> HIDE DEF f, u
      <3>6. p \in Seq(HFRange) /\ Len(p) = m - 1 + 1 /\ p[m - 1 + 1] = u /\ \A k \in 1 .. m - 1 : p[k] = f[k]
        BY <3>4, <3>5, AppendProperties
      <3> HIDE DEF p
      <3>7. m - 1 + 1 = m
        BY <1>1
      <3>8. p \in Seq(HFRange) /\ Len(p) = m /\ p[m] = u /\ \A k \in 1 .. m - 1 : p[k] = q[k]
        BY <3>5, <3>6, <3>7
      <3> QED BY <1>3, <2>5, <3>3, <3>8 DEF Merged, m, l, u
    <2> QED BY <2>4, <2>5
  <1> QED BY <1>1, <1>2, <1>3

\* r lies inside s.
Inside(r, s) == s.location <= r.location /\ MaxRange(r) <= MaxRange(s)

\* No two ranges touch.
Apart(q) == \A k, l \in DOMAIN q : k < l => MaxRange(q[k]) < q[l].location

\* One of the first i ranges of rs lies inside r: one that is not empty if r
\* is not, and r itself if it is empty.  If late, it is not the first one.
Sourced(r, rs, i, late) ==
    \E w \in 1 .. i :
        /\ Inside(rs[w], r) /\ (late => w > 1)
        /\ r.length > 0 => rs[w].length > 0
        /\ r.length = 0 => rs[w] = r

\* A position is in one of the first i ranges of rs.
Covers(rs, i, x) == \E k \in 1 .. i : x \in Positions(rs[k])

\* q is what is left of the first i ranges of rs when they are merged.
MergedUpTo(q, rs, i) ==
    /\ q \in Seq(HFRange) /\ Apart(q)
    /\ i > 0 => /\ Len(q) > 0
                /\ q[1].location = rs[1].location
                /\ MaxRange(q[Len(q)]) = MaxRange(rs[i])
    /\ i = 0 => Len(q) = 0
    /\ \A k \in 1 .. Len(q) : Sourced(q[k], rs, i, k > 1)
    /\ \A x : Covers(q, Len(q), x) <=> Covers(rs, i, x)

\* A range keeps its source.
LEMMA SourcedLater ==
  ASSUME NEW r, NEW rs, NEW i \in Nat, NEW late, Sourced(r, rs, i - 1, late), i > 0
  PROVE  Sourced(r, rs, i, late)
  <1>1. \A w \in 1 .. i - 1 : w \in 1 .. i
    OBVIOUS
  <1> QED BY <1>1 DEF Sourced

\* A range that is appended or has been merged.
LEMMA MergedStep ==
  ASSUME NEW rs \in Seq(HFRange), Ordered(rs), NEW i \in 1 .. Len(rs),
         NEW q, MergedUpTo(q, rs, i - 1), NEW p, Merged(p, q, rs[i])
  PROVE  MergedUpTo(p, rs, i)
  <1> DEFINE m == Len(q)
             l == q[m]
             r == rs[i]
             n == Len(rs)
  <1>1. n \in Nat /\ DOMAIN rs = 1 .. n /\ \A j \in 1 .. n : rs[j] \in HFRange
    BY SeqFacts
  <1>2. q \in Seq(HFRange) /\ p \in Seq(HFRange)
    BY DEF MergedUpTo, Merged
  <1>3. m \in Nat /\ DOMAIN q = 1 .. m /\ \A k \in 1 .. m : q[k] \in HFRange
    BY <1>2, SeqFacts
  <1>4. Len(p) \in Nat /\ DOMAIN p = 1 .. Len(p)
    BY <1>2, SeqFacts
  <1>5. r \in HFRange /\ i \in Nat /\ i > 0
    BY <1>1
  <1>6. r.location \in Nat /\ r.length \in Nat /\ MaxRange(r) \in Nat /\ MaxRange(r) = r.location + r.length
    BY <1>5, RangeFacts
  <1>7. i > 1 => MaxRange(rs[i - 1]) <= r.location
    <2>1. i > 1 => i - 1 \in 1 .. n /\ i - 1 < i
      BY <1>1
    <2> QED BY <1>1, <2>1 DEF Ordered
  <1>8. /\ m > 0 => i > 1
        /\ i > 1 => m > 0 /\ q[1].location = rs[1].location /\ MaxRange(l) = MaxRange(rs[i - 1])
        /\ i = 1 => m = 0
    BY <1>3, <1>5 DEF MergedUpTo
  <1>9. \A k \in 1 .. m : Sourced(q[k], rs, i, k > 1)
    <2> TAKE k \in 1 .. m
    <2>1. Sourced(q[k], rs, i - 1, k > 1)
      BY DEF MergedUpTo
    <2> QED BY <1>5, <2>1, SourcedLater
  <1>10. Apart(q)
    BY DEF MergedUpTo
  <1>10a. \A x : Covers(rs, i, x) <=> Covers(q, m, x) \/ x \in Positions(rs[i])
    <2> TAKE x
    <2>1. Covers(q, m, x) <=> Covers(rs, i - 1, x)
      BY DEF MergedUpTo
    <2>2. i \in 1 .. i /\ (\A k \in 1 .. i - 1 : k \in 1 .. i)
          /\ \A k \in 1 .. i : k \in 1 .. i - 1 \/ k = i
      BY <1>5
    <2>3. Covers(rs, i, x) <=> Covers(rs, i - 1, x) \/ x \in Positions(rs[i])
      BY <2>2 DEF Covers
    <2> QED BY <2>1, <2>3
  <1>11. CASE (m = 0 \/ MaxRange(l) < r.location) /\ p = Append(q, r)
    <2>1. Len(p) = m + 1 /\ p[m + 1] = r /\ \A k \in 1 .. m : p[k] = q[k]
      BY <1>2, <1>5, <1>11, AppendProperties
    <2> HIDE DEF r
    <2>2. \A k \in 1 .. m : MaxRange(q[k]) < r.location
      <3> TAKE k \in 1 .. m
      <3>1. MaxRange(l) < r.location /\ m > 0
        BY <1>3, <1>11
      <3>2. q[k] \in HFRange /\ l \in HFRange
        BY <1>3, <3>1
      <3>3. k = m \/ MaxRange(q[k]) < l.location
        <4>1. k < m => MaxRange(q[k]) < q[m].location
          BY <1>3, <1>10 DEF Apart
        <4>2. k = m \/ k < m
          <5> HIDE DEF m
          <5> QED BY <1>3
        <4> QED BY <4>1, <4>2
      <3>4. MaxRange(q[k]) \in Nat /\ l.location \in Nat /\ MaxRange(l) \in Nat /\ l.location <= MaxRange(l)
        BY <3>2, RangeFacts
      <3> HIDE DEF m, l
      <3>5. k = m => q[k] = l
        BY DEF l
      <3> QED BY <1>6, <3>1, <3>3, <3>4, <3>5
    <2>3. Apart(p)
      <3> SUFFICES ASSUME NEW j \in 1 .. m + 1, NEW k \in 1 .. m + 1, j < k
                   PROVE  MaxRange(p[j]) < p[k].location
        BY <1>4, <2>1 DEF Apart
      <3>1. j \in 1 .. m /\ (k = m + 1 \/ k \in 1 .. m)
        BY <1>3
      <3>2. k \in 1 .. m => MaxRange(q[j]) < q[k].location
        BY <1>3, <1>10, <3>1 DEF Apart
      <3> HIDE DEF m
      <3> QED BY <2>1, <2>2, <3>1, <3>2
    <2>4. p[1].location = rs[1].location
      <3>1. CASE i = 1
        <4>1. m = 0
          BY <1>8, <3>1
        <4>2. p[1] = r
          BY <2>1, <4>1
        <4> QED BY <3>1, <4>2 DEF r
      <3>2. CASE i > 1
        <4>1. 1 \in 1 .. m
          BY <1>3, <1>8, <3>2
        <4> QED BY <1>8, <2>1, <3>2, <4>1
      <3> QED BY <1>5, <3>1, <3>2
    <2>5. \A k \in 1 .. Len(p) : Sourced(p[k], rs, i, k > 1)
      <3> TAKE k \in 1 .. Len(p)
      <3>1. k \in 1 .. m \/ k = m + 1
        BY <1>3, <2>1
      <3>2. CASE k \in 1 .. m
        BY <1>9, <2>1, <3>2
      <3>3. CASE k = m + 1
        <4>1. k > 1 => i > 1
          BY <1>3, <1>8, <3>3
        <4>2. i \in 1 .. i /\ Inside(r, r)
          BY <1>5, <1>6 DEF Inside
        <4>3. p[k] = r /\ rs[i] = r
          BY <2>1, <3>3 DEF r
        <4> QED BY <4>1, <4>2, <4>3 DEF Sourced
      <3> QED BY <3>1, <3>2, <3>3
    <2>6. MaxRange(p[Len(p)]) = MaxRange(rs[i]) /\ Len(p) > 0
      BY <1>3, <2>1 DEF r
    <2>7. \A x : Covers(p, Len(p), x) <=> Covers(rs, i, x)
      <3> TAKE x
      <3>1. Covers(p, m + 1, x) <=> Covers(q, m, x) \/ x \in Positions(r)
        <4>1. \A k \in 1 .. m + 1 : k \in 1 .. m \/ k = m + 1
          <5> HIDE DEF m
          <5> QED BY <1>3
        <4>2. m + 1 \in 1 .. m + 1 /\ \A k \in 1 .. m : k \in 1 .. m + 1
          <5> HIDE DEF m
          <5> QED BY <1>3
        <4> HIDE DEF m
        <4> QED BY <2>1, <4>1, <4>2 DEF Covers
      <3> HIDE DEF m
      <3> QED BY <1>10a, <2>1, <3>1 DEF r
    <2> QED BY <1>2, <1>5, <2>3, <2>4, <2>5, <2>6, <2>7 DEF MergedUpTo
  <1>12. CASE /\ m > 0 /\ MaxRange(l) = r.location
              /\ Len(p) = m /\ \A k \in 1 .. m - 1 : p[k] = q[k]
              /\ p[m] = Between(l.location, MaxRange(r))
    <2>1. l \in HFRange /\ m \in 1 .. m /\ i > 1
      BY <1>3, <1>8, <1>12
    <2>2. /\ l.location \in Nat /\ l.length \in Nat /\ MaxRange(l) \in Nat
          /\ MaxRange(l) = l.location + l.length
          /\ l = RangeMake(l.location, l.length)
      BY <2>1, RangeFacts
    <2> DEFINE u == p[m]
    <2>3. /\ u.location = l.location /\ MaxRange(u) = MaxRange(r)
          /\ u.length = MaxRange(r) - l.location
      <3> DEFINE a == l.location
                 b == MaxRange(r)
      <3> HIDE DEF r, l, m
      <3>1. a \in Nat /\ b \in Nat /\ a <= b
        BY <1>6, <1>12, <2>2
      <3>2. u = Between(a, b)
        BY <1>12
      <3> HIDE DEF a, b, u
      <3>3. u.location = a /\ MaxRange(u) = b /\ u.length = b - a
        BY <3>1, <3>2, BetweenIs
      <3> QED BY <3>3 DEF a, b
    <2>4. r.length = 0 => u = l
      <3> HIDE DEF r, l
      <3>1. r.length = 0 => MaxRange(r) = MaxRange(l)
        BY <1>6, <1>12
      <3>2. Between(l.location, MaxRange(l)) = RangeMake(l.location, l.length)
        <4>1. MaxRange(l) - l.location = l.length
          BY <2>2
        <4> QED BY <4>1 DEF Between
      <3> QED BY <1>12, <2>2, <3>1, <3>2
    <2>5. Apart(p)
      <3> SUFFICES ASSUME NEW j \in 1 .. m, NEW k \in 1 .. m, j < k
                   PROVE  MaxRange(p[j]) < p[k].location
        BY <1>4, <1>12 DEF Apart
      <3>1. MaxRange(q[j]) < q[k].location
        BY <1>3, <1>10 DEF Apart
      <3>2. j \in 1 .. m - 1 /\ (k \in 1 .. m - 1 \/ k = m)
        <4> HIDE DEF m
        <4> QED BY <1>3
      <3>3. p[j] = q[j] /\ p[k].location = q[k].location
        <4> HIDE DEF u
        <4>1. k \in 1 .. m - 1 => p[k] = q[k]
          BY <1>12
        <4>2. k = m => p[k].location = q[k].location
          BY <2>3 DEF u
        <4> QED BY <1>12, <3>2, <4>1, <4>2
      <3> QED BY <3>1, <3>3
    <2>6. p[1].location = rs[1].location
      <3>1. 1 \in 1 .. m - 1 \/ m = 1
        BY <1>3, <1>12
      <3>2. 1 \in 1 .. m - 1 => p[1] = q[1]
        BY <1>12
      <3>3. m = 1 => p[1].location = q[1].location
        BY <2>3
      <3> QED BY <1>8, <2>1, <3>1, <3>2, <3>3
    <2>7. Sourced(u, rs, i, m > 1)
      <3>1. CASE r.length > 0
        <4> DEFINE a == l.location
                   b == r.location
                   c == MaxRange(r)
        <4>a. /\ a \in Nat /\ b \in Nat /\ c \in Nat /\ a <= b /\ b < c
              /\ u.location = a /\ MaxRange(u) = c /\ u.length = c - a
          <5> HIDE DEF r, l, m
          <5>1. a \in Nat /\ b \in Nat /\ c \in Nat /\ a <= b /\ b < c
            BY <1>6, <1>12, <2>2, <3>1, SMTT(60)
          <5> QED BY <2>3, <5>1
        <4>1. i \in 1 .. i /\ Inside(r, u)
          <5> HIDE DEF a, c, u
          <5>1. u.location <= b /\ c <= MaxRange(u)
            BY <4>a
          <5> QED BY <1>5, <5>1 DEF Inside, c
        <4>2. u.length > 0
          <5> HIDE DEF a, b, c, u
          <5> QED BY <4>a
        <4> HIDE DEF u
        <4>3. ~ (u.length = 0)
          BY <4>2
        <4> QED BY <2>1, <3>1, <4>1, <4>3 DEF Sourced
      <3>2. CASE r.length = 0
        BY <1>9, <2>1, <2>4, <3>2
      <3> QED BY <1>6, <3>1, <3>2
    <2>8. \A k \in 1 .. Len(p) : Sourced(p[k], rs, i, k > 1)
      <3> TAKE k \in 1 .. Len(p)
      <3>1. k \in 1 .. m - 1 \/ k = m
        <4>1. k \in 1 .. m /\ m \in Nat
          BY <1>3, <1>12
        <4> HIDE DEF m
        <4> QED BY <4>1
      <3>2. k \in 1 .. m - 1 => k \in 1 .. m /\ p[k] = q[k]
        BY <1>3, <1>12
      <3> QED BY <1>9, <2>7, <3>1, <3>2
    <2>9. MaxRange(p[Len(p)]) = MaxRange(rs[i])
      BY <1>12, <2>3
    <2>10. \A x : Covers(p, Len(p), x) <=> Covers(rs, i, x)
      <3> TAKE x
      <3>1. x \in Positions(u) <=> x \in Positions(l) \/ x \in Positions(r)
        <4> DEFINE a == l.location
                   b == r.location
                   c == MaxRange(r)
        <4> HIDE DEF r, l, u
        <4>1. /\ Positions(u) = a .. (c - 1) /\ Positions(l) = a .. (b - 1)
              /\ Positions(r) = b .. (c - 1)
          BY <1>12, <2>3 DEF Positions
        <4>2. a \in Nat /\ b \in Nat /\ c \in Nat /\ a <= b /\ b <= c
          BY <1>6, <1>12, <2>2
        <4> HIDE DEF a, b, c
        <4> QED BY <4>1, <4>2
      <3>2. Covers(p, m, x) <=> Covers(q, m, x) \/ x \in Positions(r)
        <4>1. \A k \in 1 .. m : k \in 1 .. m - 1 \/ k = m
          <5> HIDE DEF m
          <5> QED BY <1>3
        <4>2. m \in 1 .. m /\ \A k \in 1 .. m - 1 : k \in 1 .. m
          <5> HIDE DEF m, l
          <5> QED BY <1>3, <1>12
        <4>3. Covers(q, m, x) <=> (\E k \in 1 .. m - 1 : x \in Positions(q[k])) \/ x \in Positions(l)
          <5> HIDE DEF m
          <5> QED BY <4>1, <4>2 DEF Covers, l
        <4>4. Covers(p, m, x) <=> (\E k \in 1 .. m - 1 : x \in Positions(q[k])) \/ x \in Positions(u)
          <5> HIDE DEF m
          <5> QED BY <1>12, <4>1, <4>2 DEF Covers, u
        <4> QED BY <3>1, <4>3, <4>4
      <3> HIDE DEF m
      <3> QED BY <1>12, <1>10a, <3>2 DEF r
    <2> QED BY <1>2, <1>5, <1>12, <2>5, <2>6, <2>8, <2>9, <2>10 DEF MergedUpTo
  <1>13. \/ (m = 0 \/ MaxRange(l) < r.location) /\ p = Append(q, r)
         \/ /\ m > 0 /\ MaxRange(l) = r.location
            /\ Len(p) = m /\ \A k \in 1 .. m - 1 : p[k] = q[k]
            /\ p[m] = Between(l.location, MaxRange(r))
    BY DEF Merged
  <1> QED BY <1>11, <1>12, <1>13

\* Ranges that are merged are ranges.
LEMMA MergeRangeType ==
  ASSUME NEW q \in Seq(HFRange), NEW r \in HFRange
  PROVE  MergeRange(q, r) \in Seq(HFRange)
  <1> DEFINE m == Len(q)
             l == Last(q)
  <1>1. m \in Nat /\ (q # <<>> <=> m > 0) /\ \A k \in 1 .. m : q[k] \in HFRange
    BY SeqFacts
  <1>2. Append(q, r) \in Seq(HFRange)
    BY AppendProperties
  <1>3. CASE q # <<>>
    <2>1. l \in HFRange
      BY <1>1, <1>3 DEF Last
    <2>2. Front(q) \in Seq(HFRange)
      <3>1. \A i \in 1 .. m - 1 : q[i] \in HFRange
        BY <1>1
      <3>2. 1 \in Int /\ m - 1 \in Int
        BY <1>1
      <3>3. SubSeq(q, 1, m - 1) \in Seq(HFRange)
        BY <3>1, <3>2, SubSeqProperties
      <3> QED BY <3>3 DEF Front
    <2>3. /\ l.location \in Nat /\ MaxRange(l) \in Nat /\ l.location <= MaxRange(l)
          /\ r.location \in Nat /\ MaxRange(r) \in Nat /\ r.location <= MaxRange(r)
      BY <2>1, RangeFacts
    <2>4. UnionRange(l, r) \in HFRange
      <3> DEFINE a == Least(l.location, r.location)
                 b == Greatest(MaxRange(l), MaxRange(r))
      <3>1. a \in Nat /\ b \in Nat /\ a <= b
        <4> HIDE DEF l
        <4> QED BY <2>3 DEF Least, Greatest
      <3> HIDE DEF a, b
      <3>2. Between(a, b) \in HFRange
        BY <3>1, BetweenIs
      <3> QED BY <3>2 DEF UnionRange, a, b
    <2> HIDE DEF l
    <2>5. Append(Front(q), UnionRange(l, r)) \in Seq(HFRange)
      BY <2>2, <2>4, AppendProperties
    <2> QED BY <1>2, <2>5 DEF MergeRange, l
  <1> QED BY <1>2, <1>3 DEF MergeRange

\* What organizeAndMergeRanges makes of ranges in ascending order.
LEMMA OrganizedIs ==
  ASSUME NEW rs \in Seq(HFRange), Ordered(rs)
  PROVE  MergedUpTo(organizeAndMergeRanges(rs), rs, Len(rs))
  <1> DEFINE n == Len(rs)
             Q == Seq(HFRange)
             sorted == InOrder(rs)
             merged[i \in 0 .. n] ==
                IF i = 0 THEN <<>> ELSE MergeRange(merged[i - 1], sorted[i])
             Equation(f) ==
                f = [i \in 0 .. n |-> IF i = 0 THEN <<>> ELSE MergeRange(f[i - 1], sorted[i])]
  <1>1. n \in Nat /\ DOMAIN rs = 1 .. n /\ \A i \in 1 .. n : rs[i] \in HFRange
    BY SeqFacts
  <1>2. organizeAndMergeRanges(rs) = merged[n]
    BY DEF organizeAndMergeRanges
  <1>3. merged = CHOOSE f : Equation(f)
    OBVIOUS
  <1>4. <<>> \in Q
    OBVIOUS
  <1>5. sorted = rs
    BY InOrderIs
  <1> DEFINE step == [i \in 1 .. n |-> [q \in Q |-> MergeRange(q, rs[i])]]
  <1>6. /\ step \in [1 .. n -> [Q -> Q]]
        /\ \A i \in 1 .. n : \A q \in Q : step[i][q] = MergeRange(q, rs[i])
    <2>1. \A i \in 1 .. n : \A q \in Q : MergeRange(q, rs[i]) \in Q
      BY <1>1, MergeRangeType
    <2> HIDE DEF Q, n
    <2> QED BY <2>1
  <1> HIDE DEF merged, step, Equation, sorted
  <1>7. PICK f : Iterated(f, n, Q, <<>>, step)
    <2>1. n \in Nat
      BY <1>1
    <2> HIDE DEF Q, n
    <2> QED BY <1>4, <1>6, <2>1, Iterates
  <1>8. /\ f \in [0 .. n -> Q] /\ f[0] = <<>>
        /\ \A i \in 1 .. n : f[i] = step[i][f[i - 1]]
    BY <1>7 DEF Iterated
  <1>9. \A i \in 1 .. n : f[i] = MergeRange(f[i - 1], rs[i])
    <2> TAKE i \in 1 .. n
    <2>1. i - 1 \in 0 .. n
      BY <1>1
    <2>2. f[i - 1] \in Q
      BY <1>8, <2>1
    <2> HIDE DEF Q
    <2> QED BY <1>6, <1>8, <2>2
  <1>10. Equation(f)
    <2>1. f = [i \in 0 .. n |-> f[i]]
      BY <1>8
    <2>2. \A i \in 0 .. n : i # 0 => i \in 1 .. n
      BY <1>1
    <2>3. \A i \in 0 .. n : f[i] = IF i = 0 THEN <<>> ELSE MergeRange(f[i - 1], sorted[i])
      BY <1>5, <1>8, <1>9, <2>2
    <2> HIDE DEF n
    <2> QED BY <2>1, <2>3 DEF Equation
  <1>11. Equation(merged)
    BY <1>3, <1>10
  <1>12. merged[0] = <<>> /\ \A i \in 1 .. n : merged[i] = MergeRange(merged[i - 1], rs[i])
    <2>1. 0 \in 0 .. n /\ \A i \in 1 .. n : i \in 0 .. n /\ i # 0
      BY <1>1
    <2> HIDE DEF n
    <2> QED BY <1>5, <1>11, <2>1 DEF Equation
  <1> DEFINE T == {i \in 0 .. n : MergedUpTo(merged[i], rs, i)}
  <1>13. MergedUpTo(<<>>, rs, 0)
    BY DEF MergedUpTo, Apart, Covers
  <1>14. \A i \in 1 .. n : MergedUpTo(merged[i - 1], rs, i - 1) => MergedUpTo(merged[i], rs, i)
    <2> TAKE i \in 1 .. n
    <2> HAVE MergedUpTo(merged[i - 1], rs, i - 1)
    <2> DEFINE q == merged[i - 1]
               r == rs[i]
    <2>1. q \in Seq(HFRange) /\ r \in HFRange
      BY <1>1 DEF MergedUpTo
    <2>2. Len(q) > 0 => MaxRange(q[Len(q)]) <= r.location
      <3> SUFFICES ASSUME Len(q) > 0 PROVE MaxRange(q[Len(q)]) <= r.location
        OBVIOUS
      <3>1. i - 1 > 0
        BY <1>1 DEF MergedUpTo
      <3>2. MaxRange(q[Len(q)]) = MaxRange(rs[i - 1])
        BY <3>1 DEF MergedUpTo
      <3>3. i - 1 \in 1 .. n /\ i - 1 < i
        BY <1>1, <3>1
      <3>4. MaxRange(rs[i - 1]) <= r.location
        BY <1>1, <3>3 DEF Ordered
      <3> QED BY <3>2, <3>4
    <2>3. Merged(MergeRange(q, r), q, r)
      <3> HIDE DEF q, r
      <3> QED BY <2>1, <2>2, MergeRangeIs
    <2>4. MergedUpTo(q, rs, i - 1) /\ i \in 1 .. Len(rs)
      OBVIOUS
    <2>5. MergedUpTo(MergeRange(q, r), rs, i)
      <3> DEFINE p == MergeRange(q, r)
      <3> HIDE DEF p, q
      <3>1. Merged(p, q, rs[i])
        BY <2>3 DEF p
      <3>2. MergedUpTo(p, rs, i)
        BY <2>4, <3>1, MergedStep
      <3> QED BY <3>2 DEF p
    <2> QED BY <1>12, <2>5
  <1>15. 0 \in T /\ \A i \in 1 .. n : i - 1 \in T => i \in T
    <2>1. 0 \in 0 .. n /\ \A i \in 1 .. n : i \in 0 .. n
      BY <1>1
    <2> HIDE DEF n
    <2> QED BY <1>12, <1>13, <1>14, <2>1
  <1>16. n \in T
    <2> HIDE DEF T
    <2>1. \A i \in 0 .. n : i \in T
      BY <1>1, <1>15, UpTo
    <2> QED BY <1>1, <2>1
  <1> QED BY <1>2, <1>16

\* One range is the same after it.
LEMMA OneOrganized ==
  ASSUME NEW r \in HFRange
  PROVE  organizeAndMergeRanges(<<r>>) = <<r>>
  <1> DEFINE m == organizeAndMergeRanges(<<r>>)
  <1>1. <<r>> \in Seq(HFRange) /\ Ordered(<<r>>) /\ Len(<<r>>) = 1
    BY DEF Ordered
  <1>2. MergedUpTo(m, <<r>>, 1)
    <2> HIDE DEF m
    <2>1. MergedUpTo(organizeAndMergeRanges(<<r>>), <<r>>, Len(<<r>>))
      BY <1>1, OrganizedIs
    <2> QED BY <1>1, <2>1 DEF m
  <1> HIDE DEF m
  <1>3. m \in Seq(HFRange) /\ Len(m) > 0 /\ m[1].location = r.location /\ MaxRange(m[Len(m)]) = MaxRange(r)
    BY <1>2 DEF MergedUpTo
  <1>4. Len(m) \in Nat /\ \A k \in 1 .. Len(m) : m[k] \in HFRange
    BY <1>3, SeqFacts
  <1>5. Len(m) = 1
    <2> DEFINE l == Len(m)
    <2>1. l \in Nat /\ l > 0
      BY <1>3, <1>4
    <2>2. ~ (l > 1)
      <3> SUFFICES ASSUME l > 1 PROVE FALSE
        OBVIOUS
      <3>1. Sourced(m[2], <<r>>, 1, 2 > 1)
        BY <1>2, <1>4 DEF MergedUpTo
      <3>2. \E w \in 1 .. 1 : w > 1
        BY <3>1 DEF Sourced
      <3> QED BY <3>2
    <2> HIDE DEF l
    <2>3. l = 1
      BY <2>1, <2>2
    <2> QED BY <2>3 DEF l
  <1>6. m[1] = r
    <2>1. m[1] \in HFRange
      BY <1>3, <1>4
    <2>2. /\ m[1].location \in Nat /\ m[1].length \in Nat
          /\ MaxRange(m[1]) = m[1].location + m[1].length
          /\ m[1] = RangeMake(m[1].location, m[1].length)
      BY <2>1, RangeFacts
    <2>3. /\ r.location \in Nat /\ r.length \in Nat
          /\ MaxRange(r) = r.location + r.length
          /\ r = RangeMake(r.location, r.length)
      BY RangeFacts
    <2>4. m[1].location = r.location /\ MaxRange(m[1]) = MaxRange(r)
      BY <1>3, <1>5
    <2> DEFINE a == m[1].length
               b == r.length
               c == r.location
    <2>5. a \in Nat /\ b \in Nat /\ c \in Nat /\ c + a = c + b
      BY <2>2, <2>3, <2>4
    <2>6. a = b
      <3> HIDE DEF a, b, c
      <3> QED BY <2>5
    <2> QED BY <2>2, <2>3, <2>4, <2>6
  <1>7. m = [k \in 1 .. 1 |-> r]
    <2>1. m \in [1 .. 1 -> HFRange]
      BY <1>3, <1>5, SeqDef, SMTT(60)
    <2> QED BY <1>6, <2>1
  <1>8. <<r>> = [k \in 1 .. 1 |-> r]
    OBVIOUS
  <1> QED BY <1>7, <1>8 DEF m

\* Ranges in ascending order end by n if the last of them does.
LEMMA EndByLast ==
  ASSUME NEW rs \in Seq(HFRange), Ordered(rs), NEW n,
         Len(rs) > 0 => MaxRange(rs[Len(rs)]) <= n, n \in Nat
  PROVE  EndBy(rs, n)
  <1> DEFINE l == Len(rs)
  <1>1. l \in Nat /\ DOMAIN rs = 1 .. l /\ \A i \in 1 .. l : rs[i] \in HFRange
    BY SeqFacts
  <1> SUFFICES ASSUME NEW i \in 1 .. l PROVE MaxRange(rs[i]) <= n
    BY <1>1 DEF EndBy
  <1>2. l > 0 /\ l \in 1 .. l /\ (i = l \/ i < l)
    <2> HIDE DEF l
    <2> QED BY <1>1
  <1>3. MaxRange(rs[l]) <= n
    BY <1>2
  <1>4. i < l => MaxRange(rs[i]) <= rs[l].location
    BY <1>1, <1>2 DEF Ordered
  <1>5. /\ MaxRange(rs[i]) \in Nat /\ MaxRange(rs[l]) \in Nat
        /\ rs[l].location \in Nat /\ rs[l].location <= MaxRange(rs[l])
    BY <1>1, <1>2, RangeFacts
  <1> QED BY <1>2, <1>3, <1>4, <1>5

\* Merging keeps a selection usable.
LEMMA OrganizedUsable ==
  ASSUME NEW rs \in Seq(HFRange), Ordered(rs), NEW n \in Nat, EndBy(rs, n)
  PROVE  LET m == organizeAndMergeRanges(rs)
         IN  /\ m \in Seq(HFRange) /\ Apart(m) /\ Ordered(m) /\ EndBy(m, n)
             /\ rs # <<>> => m # <<>> /\ m[1].location = rs[1].location
             /\ rs = <<>> => m = <<>>
             /\ OneEmpty(rs) => OneEmpty(m)
             /\ Strict(rs) => Strict(m)
             /\ rs # <<>> /\ OneEmpty(rs) => Usable(m, n)
             /\ \A k \in 1 .. Len(m) : Sourced(m[k], rs, Len(rs), k > 1)
  <1> DEFINE m == organizeAndMergeRanges(rs)
             l == Len(rs)
             q == Len(m)
  <1>1. l \in Nat /\ DOMAIN rs = 1 .. l /\ (\A i \in 1 .. l : rs[i] \in HFRange) /\ (rs # <<>> <=> l > 0)
    BY SeqFacts
  <1>2. MergedUpTo(m, rs, l)
    BY OrganizedIs
  <1> HIDE DEF m
  <1>3. m \in Seq(HFRange) /\ Apart(m)
    BY <1>2 DEF MergedUpTo
  <1>4. q \in Nat /\ DOMAIN m = 1 .. q /\ (\A i \in 1 .. q : m[i] \in HFRange) /\ (m # <<>> <=> q > 0)
    BY <1>3, SeqFacts
  <1>5. rs # <<>> => /\ m # <<>> /\ m[1].location = rs[1].location
                     /\ MaxRange(m[q]) = MaxRange(rs[l])
    BY <1>1, <1>2, <1>4 DEF MergedUpTo
  <1>6. rs = <<>> => m = <<>>
    <2>1. rs = <<>> => q = 0
      BY <1>1, <1>2 DEF MergedUpTo
    <2> QED BY <1>4, <2>1
  <1>7. Ordered(m)
    <2> SUFFICES ASSUME NEW j \in 1 .. q, NEW k \in 1 .. q, j < k
                 PROVE  MaxRange(m[j]) <= m[k].location
      BY <1>4 DEF Ordered
    <2>1. MaxRange(m[j]) < m[k].location
      BY <1>3, <1>4 DEF Apart
    <2>2. MaxRange(m[j]) \in Nat /\ m[k].location \in Nat
      BY <1>4, RangeFacts
    <2> QED BY <2>1, <2>2
  <1>8. EndBy(m, n)
    <2>1. q > 0 => MaxRange(m[q]) <= n
      <3> SUFFICES ASSUME q > 0 PROVE MaxRange(m[q]) <= n
        OBVIOUS
      <3>1. l > 0 /\ MaxRange(m[q]) = MaxRange(rs[l])
        BY <1>1, <1>4, <1>5, <1>6
      <3>2. l \in 1 .. l
        BY <1>1, <3>1
      <3>3. MaxRange(rs[l]) <= n
        BY <1>1, <3>2 DEF EndBy
      <3> QED BY <3>1, <3>3
    <2> QED BY <1>3, <1>7, <2>1, EndByLast
  <1>9. \A k \in 1 .. q : Sourced(m[k], rs, l, k > 1)
    BY <1>2 DEF MergedUpTo
  <1>10. Strict(rs) => Strict(m)
    <2> SUFFICES ASSUME Strict(rs), q > 1, NEW k \in 1 .. q PROVE m[k].length > 0
      BY <1>4 DEF Strict
    <2>1. 2 \in 1 .. q
      BY <1>4
    <2>2. \E w \in 1 .. l : w > 1
      BY <1>9, <2>1 DEF Sourced
    <2>3. l > 1
      BY <1>1, <2>2
    <2>4. \A i \in 1 .. l : rs[i].length > 0
      BY <1>1, <2>3 DEF Strict
    <2>5. PICK w \in 1 .. l : m[k].length = 0 => rs[w] = m[k]
      BY <1>9 DEF Sourced
    <2>6. m[k].length \in Nat
      BY <1>4, RangeFacts
    <2>7. m[k].length # 0
      <3> SUFFICES ASSUME m[k].length = 0 PROVE FALSE
        OBVIOUS
      <3>1. rs[w].length = 0 /\ rs[w].length > 0
        BY <2>4, <2>5
      <3> QED BY <3>1
    <2> QED BY <2>6, <2>7
  <1>11. OneEmpty(rs) => OneEmpty(m)
    <2> SUFFICES ASSUME OneEmpty(rs) PROVE OneEmpty(m)
      OBVIOUS
    <2>1. \A j, k \in 1 .. q : j < k => ~ (m[j].length = 0 /\ m[k].length = 0)
      <3> SUFFICES ASSUME NEW j \in 1 .. q, NEW k \in 1 .. q, j < k,
                          m[j].length = 0, m[k].length = 0
                   PROVE  FALSE
        OBVIOUS
      <3>1. PICK w \in 1 .. l : rs[w] = m[j]
        BY <1>9 DEF Sourced
      <3>2. PICK v \in 1 .. l : rs[v] = m[k]
        BY <1>9 DEF Sourced
      <3>3. w = v
        BY <1>1, <3>1, <3>2 DEF OneEmpty
      <3>4. MaxRange(m[j]) < m[j].location
        BY <1>3, <1>4, <3>1, <3>2, <3>3 DEF Apart
      <3>5. m[j].location \in Nat /\ MaxRange(m[j]) \in Nat /\ m[j].location <= MaxRange(m[j])
        BY <1>4, RangeFacts
      <3> QED BY <3>4, <3>5
    <2> SUFFICES ASSUME NEW j \in 1 .. q, NEW k \in 1 .. q, m[j].length = 0, m[k].length = 0
                 PROVE  j = k
      BY <1>4 DEF OneEmpty
    <2>2. j < k \/ k < j \/ j = k
      BY <1>4
    <2> QED BY <2>1, <2>2
  <1> QED BY <1>3, <1>5, <1>6, <1>7, <1>8, <1>9, <1>10, <1>11 DEF Usable, m

\* Ranges that are kept stay in order.
LEMMA KeptOrdered ==
  ASSUME NEW rs \in Seq(HFRange), Ordered(rs), NEW P, NEW n, EndBy(rs, n)
  PROVE  LET q == Kept(rs, P)
         IN  q \in Seq(HFRange) /\ Ordered(q) /\ EndBy(q, n)
  <1> DEFINE q == Kept(rs, P)
             m == Len(q)
  <1>1. q \in Seq(HFRange) /\ \E at : KeptAt(q, rs, P, at)
    BY KeptIs
  <1> HIDE DEF q
  <1>2. PICK at : KeptAt(q, rs, P, at)
    BY <1>1
  <1>3. m \in Nat /\ DOMAIN q = 1 .. m
    BY <1>1, SeqFacts
  <1>4. /\ \A k \in 1 .. m : at[k] \in DOMAIN rs /\ q[k] = rs[at[k]]
        /\ \A k, l \in 1 .. m : k < l => at[k] < at[l]
    BY <1>2 DEF KeptAt
  <1>5. Ordered(q)
    BY <1>3, <1>4 DEF Ordered
  <1>6. EndBy(q, n)
    BY <1>3, <1>4 DEF EndBy
  <1> QED BY <1>1, <1>5, <1>6 DEF q

\* A cursor is usable.
LEMMA CursorUsable ==
  ASSUME NEW n \in Nat, NEW c \in Nat, c <= n
  PROVE  Usable(<<RangeMake(c, 0)>>, n) /\ Strict(<<RangeMake(c, 0)>>)
  <1> DEFINE r == RangeMake(c, 0)
  <1>1. r \in HFRange /\ MaxRange(r) = c
    BY RangeMakeIs
  <1> HIDE DEF r
  <1>2. <<r>> \in Seq(HFRange) /\ <<r>> # <<>> /\ Len(<<r>>) = 1 /\ DOMAIN <<r>> = 1 .. 1 /\ <<r>>[1] = r
    BY <1>1
  <1>3. Ordered(<<r>>) /\ OneEmpty(<<r>>)
    BY <1>2 DEF Ordered, OneEmpty
  <1>4. EndBy(<<r>>, n)
    BY <1>1, <1>2 DEF EndBy
  <1> QED BY <1>2, <1>3, <1>4 DEF Usable, Strict, r

\* So is one range.
LEMMA OneUsable ==
  ASSUME NEW n \in Nat, NEW r \in HFRange, MaxRange(r) <= n
  PROVE  Usable(<<r>>, n) /\ Strict(<<r>>)
  <1>1. <<r>> \in Seq(HFRange) /\ <<r>> # <<>> /\ Len(<<r>>) = 1 /\ DOMAIN <<r>> = 1 .. 1 /\ <<r>>[1] = r
    OBVIOUS
  <1>2. Ordered(<<r>>) /\ OneEmpty(<<r>>)
    BY <1>1 DEF Ordered, OneEmpty
  <1>3. EndBy(<<r>>, n)
    BY <1>1 DEF EndBy
  <1> QED BY <1>1, <1>2, <1>3 DEF Usable, Strict

\* Clipping makes ranges in ascending order a selection of a text that long.
LEMMA ClipUsable ==
  ASSUME NEW rs \in Seq(HFRange), Ordered(rs), NEW n \in Nat
  PROVE  Usable(clipSelectedContentsRangesToLength(rs, n), n)
  <1> DEFINE left == Kept(rs, {i \in DOMAIN rs : rs[i].location <= n})
             clipped == [i \in DOMAIN left |->
                            Between(left[i].location, Least(MaxRange(left[i]), n))]
             organized == organizeAndMergeRanges(clipped)
             P == {i \in DOMAIN organized :
                        \/ organized[i].length > 0
                        \/ \A j \in 1 .. i - 1 : organized[j].length > 0}
             kept == Kept(organized, P)
             m == Len(left)
  <1>1. DOMAIN rs = 1 .. Len(rs) /\ \A i \in DOMAIN rs : rs[i] \in HFRange
    BY SeqFacts
  <1>2. left \in Seq(HFRange) /\ Ordered(left) /\ \A i \in DOMAIN left : left[i].location <= n
    <2> DEFINE L == {i \in DOMAIN rs : rs[i].location <= n}
    <2>1. left \in Seq(HFRange) /\ \E at : KeptAt(left, rs, L, at)
      BY KeptIs
    <2> HIDE DEF left
    <2>2. PICK at : KeptAt(left, rs, L, at)
      BY <2>1
    <2>3. m \in Nat /\ DOMAIN left = 1 .. m
      BY <2>1, SeqFacts
    <2>4. /\ \A k \in 1 .. m : at[k] \in DOMAIN rs /\ at[k] \in L /\ left[k] = rs[at[k]]
          /\ \A k, l \in 1 .. m : k < l => at[k] < at[l]
      BY <2>2 DEF KeptAt
    <2>5. Ordered(left)
      BY <2>3, <2>4 DEF Ordered
    <2> QED BY <2>1, <2>3, <2>4, <2>5
  <1> HIDE DEF left
  <1>3. m \in Nat /\ DOMAIN left = 1 .. m /\ \A i \in 1 .. m : left[i] \in HFRange
    BY <1>2, SeqFacts
  <1>4. \A i \in 1 .. m : /\ clipped[i] \in HFRange /\ clipped[i].location = left[i].location
                          /\ MaxRange(clipped[i]) <= n /\ MaxRange(clipped[i]) <= MaxRange(left[i])
    <2> TAKE i \in 1 .. m
    <2> DEFINE a == left[i].location
               b == MaxRange(left[i])
               c == Least(b, n)
    <2>1. a \in Nat /\ b \in Nat /\ a <= b /\ a <= n
      BY <1>2, <1>3, RangeFacts
    <2>2. clipped[i] = Between(a, c)
      BY <1>3
    <2> HIDE DEF a, b, clipped
    <2>3. c \in Nat /\ a <= c /\ c <= b /\ c <= n
      BY <2>1 DEF Least
    <2> HIDE DEF c
    <2>4. Between(a, c) \in HFRange /\ Between(a, c).location = a /\ MaxRange(Between(a, c)) = c
      BY <2>1, <2>3, BetweenIs
    <2> QED BY <2>2, <2>3, <2>4 DEF a, b
  <1>5. clipped \in Seq(HFRange) /\ DOMAIN clipped = 1 .. m
    <2>1. DOMAIN clipped = 1 .. m /\ clipped = [i \in 1 .. m |-> clipped[i]]
      BY <1>3
    <2> HIDE DEF clipped, m
    <2>2. clipped \in [1 .. m -> HFRange]
      BY <1>4, <2>1
    <2> QED BY <1>3, <2>1, <2>2, SeqDef
  <1> HIDE DEF clipped
  <1>6. Ordered(clipped) /\ EndBy(clipped, n)
    <2>1. EndBy(clipped, n)
      BY <1>4, <1>5 DEF EndBy
    <2> SUFFICES ASSUME NEW j \in 1 .. m, NEW k \in 1 .. m, j < k
                 PROVE  MaxRange(clipped[j]) <= clipped[k].location
      BY <1>5, <2>1 DEF Ordered
    <2>2. MaxRange(left[j]) <= left[k].location
      BY <1>2, <1>3 DEF Ordered
    <2>3. MaxRange(clipped[j]) <= MaxRange(left[j]) /\ clipped[k].location = left[k].location
      BY <1>4
    <2>4. MaxRange(clipped[j]) \in Nat /\ MaxRange(left[j]) \in Nat /\ left[k].location \in Nat
      BY <1>3, <1>4, RangeFacts
    <2> QED BY <2>2, <2>3, <2>4
  <1>7. organized \in Seq(HFRange) /\ Ordered(organized) /\ EndBy(organized, n)
    BY <1>5, <1>6, OrganizedUsable
  <1> HIDE DEF organized
  <1>8. kept \in Seq(HFRange) /\ Ordered(kept) /\ EndBy(kept, n)
    BY <1>7, KeptOrdered
  <1>9. OneEmpty(kept)
    <2>1. \E at : KeptAt(kept, organized, P, at)
      BY <1>7, KeptIs
    <2> DEFINE q == Len(kept)
    <2>2. PICK at : KeptAt(kept, organized, P, at)
      BY <2>1
    <2> HIDE DEF kept
    <2>3. q \in Nat /\ DOMAIN kept = 1 .. q
      BY <1>8, SeqFacts
    <2>4. /\ \A k \in 1 .. q : at[k] \in DOMAIN organized /\ at[k] \in P /\ kept[k] = organized[at[k]]
          /\ \A k, l \in 1 .. q : k < l => at[k] < at[l]
      BY <2>2 DEF KeptAt
    <2>5. DOMAIN organized = 1 .. Len(organized) /\ Len(organized) \in Nat
      BY <1>7, SeqFacts
    <2>6. \A k, l \in 1 .. q : k < l => ~ (kept[k].length = 0 /\ kept[l].length = 0)
      <3> SUFFICES ASSUME NEW k \in 1 .. q, NEW l \in 1 .. q, k < l,
                          kept[k].length = 0, kept[l].length = 0
                   PROVE  FALSE
        OBVIOUS
      <3>1. at[k] \in 1 .. at[l] - 1
        BY <2>4, <2>5
      <3>2. organized[at[k]].length = 0 /\ organized[at[l]].length = 0
        BY <2>4
      <3>3. ~ (organized[at[l]].length > 0) /\ ~ (organized[at[k]].length > 0)
        BY <3>2
      <3>4. \A j \in 1 .. at[l] - 1 : organized[j].length > 0
        BY <2>4, <3>3
      <3> QED BY <3>1, <3>3, <3>4
    <2> SUFFICES ASSUME NEW j \in 1 .. q, NEW k \in 1 .. q, kept[j].length = 0, kept[k].length = 0
                 PROVE  j = k
      BY <2>3 DEF OneEmpty
    <2>7. j < k \/ k < j \/ j = k
      BY <2>3
    <2> QED BY <2>6, <2>7
  <1>10. clipSelectedContentsRangesToLength(rs, n)
            = IF kept = <<>> THEN <<RangeMake(n, 0)>> ELSE kept
    BY DEF clipSelectedContentsRangesToLength, left, clipped, organized
  <1> HIDE DEF kept
  <1>11. Usable(<<RangeMake(n, 0)>>, n)
    BY CursorUsable
  <1> QED BY <1>8, <1>9, <1>10, <1>11 DEF Usable

\* The parts of a range that are not removed.
LEMMA RemainingIs ==
  ASSUME NEW r \in HFRange, NEW removed \in HFRange
  PROVE  LET p == Remaining(r, removed)
         IN  /\ p \in Seq(HFRange) /\ Ordered(p)
             /\ \A k \in DOMAIN p : Inside(p[k], r) /\ (p[k].length = 0 => p = <<r>>)
  <1> DEFINE p == Remaining(r, removed)
             a == r.location
             b == MaxRange(r)
             c == removed.location
             d == MaxRange(removed)
             before == Between(a, c)
             behind == Between(d, b)
  <1>1. /\ a \in Nat /\ b \in Nat /\ c \in Nat /\ d \in Nat /\ a <= b /\ c <= d
        /\ r.length \in Nat /\ b = a + r.length
    BY RangeFacts
  <1>2. CASE ~ IntersectsRange(r, removed)
    <2>1. p = <<r>>
      BY <1>2 DEF Remaining
    <2>2. Inside(r, r)
      <3>1. a <= a /\ b <= b
        BY <1>1
      <3> QED BY <3>1 DEF Inside
    <2> HIDE DEF p
    <2>3. p \in Seq(HFRange) /\ DOMAIN p = 1 .. 1 /\ p[1] = r
      BY <2>1
    <2> QED BY <2>1, <2>2, <2>3 DEF Ordered, p
  <1>3. CASE IntersectsRange(r, removed)
    <2>1. a < d /\ c < b
      <3>1. PICK i : i \in a .. b - 1 /\ i \in c .. d - 1
        BY <1>3 DEF IntersectsRange, Positions
      <3> HIDE DEF a, b, c, d
      <3> QED BY <1>1, <3>1
    <2> DEFINE x == IF a < c THEN <<before>> ELSE <<>>
               y == IF b > d THEN <<behind>> ELSE <<>>
    <2>2. p = x \o y
      BY <1>3 DEF Remaining
    <2> HIDE DEF a, b, c, d, p
    <2>3. a < c => /\ before \in HFRange /\ before.location = a /\ MaxRange(before) = c
                   /\ before.length = c - a
      BY <1>1, BetweenIs
    <2>4. b > d => /\ behind \in HFRange /\ behind.location = d /\ MaxRange(behind) = b
                   /\ behind.length = b - d
      BY <1>1, BetweenIs
    <2> HIDE DEF before, behind
    <2>5. a < c => Inside(before, r) /\ ~ (before.length = 0)
      <3> SUFFICES ASSUME a < c PROVE Inside(before, r) /\ ~ (before.length = 0)
        OBVIOUS
      <3>1. a <= before.location /\ MaxRange(before) <= b /\ ~ (before.length = 0)
        BY <1>1, <2>1, <2>3
      <3> QED BY <3>1 DEF Inside, a, b
    <2>6. b > d => Inside(behind, r) /\ ~ (behind.length = 0)
      <3> SUFFICES ASSUME b > d PROVE Inside(behind, r) /\ ~ (behind.length = 0)
        OBVIOUS
      <3>1. a <= behind.location /\ MaxRange(behind) <= b /\ ~ (behind.length = 0)
        BY <1>1, <2>1, <2>4
      <3> QED BY <3>1 DEF Inside, a, b
    <2>7. CASE a < c /\ b > d
      <3> DEFINE v == <<before>>
                 w == <<behind>>
      <3>1. p = v \o w
        BY <2>2, <2>7
      <3>a. /\ v \in Seq(HFRange) /\ Len(v) = 1 /\ v[1] = before
            /\ w \in Seq(HFRange) /\ Len(w) = 1 /\ w[1] = behind
        BY <2>3, <2>4, <2>7
      <3> HIDE DEF v, w
      <3>b. /\ v \o w \in Seq(HFRange) /\ Len(v \o w) = Len(v) + Len(w)
            /\ \A i \in 1 .. Len(v) + Len(w) :
                  (v \o w)[i] = IF i <= Len(v) THEN v[i] ELSE w[i - Len(v)]
        BY <3>a, ConcatProperties
      <3>2. p \in Seq(HFRange) /\ DOMAIN p = 1 .. 2 /\ p[1] = before /\ p[2] = behind
        <4>1. p \in Seq(HFRange) /\ Len(p) = 2
          BY <3>1, <3>a, <3>b
        <4>2. DOMAIN p = 1 .. 2
          BY <4>1, SeqFacts
        <4> QED BY <3>1, <3>a, <3>b, <4>1, <4>2
      <3>3. MaxRange(before) <= behind.location
        BY <1>1, <2>3, <2>4, <2>7
      <3> HIDE DEF p
      <3>4. Ordered(p)
        <4>1. \A i, j \in 1 .. 2 : i < j => i = 1 /\ j = 2
          OBVIOUS
        <4> QED BY <3>2, <3>3, <4>1 DEF Ordered
      <3>5. \A k \in 1 .. 2 : k = 1 \/ k = 2
        OBVIOUS
      <3> QED BY <2>5, <2>6, <2>7, <3>2, <3>4, <3>5 DEF p
    <2>8. CASE a < c /\ ~ (b > d)
      <3>1. p = <<before>>
        BY <2>2, <2>8
      <3>2. p \in Seq(HFRange) /\ DOMAIN p = 1 .. 1 /\ p[1] = before
        BY <2>3, <2>8, <3>1
      <3> HIDE DEF p
      <3> QED BY <2>5, <2>8, <3>2 DEF Ordered, p
    <2>9. CASE ~ (a < c) /\ b > d
      <3>1. p = <<behind>>
        BY <2>2, <2>9
      <3>2. p \in Seq(HFRange) /\ DOMAIN p = 1 .. 1 /\ p[1] = behind
        BY <2>4, <2>9, <3>1
      <3> HIDE DEF p
      <3> QED BY <2>6, <2>9, <3>2 DEF Ordered, p
    <2>10. CASE ~ (a < c) /\ ~ (b > d)
      <3>1. p = <<>>
        BY <2>2, <2>10
      <3> HIDE DEF p
      <3> QED BY <3>1 DEF Ordered, p
    <2> QED BY <2>7, <2>8, <2>9, <2>10
  <1> QED BY <1>2, <1>3

\* What is left of the first i ranges of rs.
LeftOf(q, rs, i) ==
    /\ q \in Seq(HFRange) /\ Ordered(q) /\ OneEmpty(q)
    /\ \A k \in DOMAIN q : \E w \in 1 .. i :
          Inside(q[k], rs[w]) /\ (q[k].length = 0 => rs[w] = q[k])

\* And of the next one.
LEMMA LeftStep ==
  ASSUME NEW rs \in Seq(HFRange), Ordered(rs), OneEmpty(rs), NEW i \in 1 .. Len(rs),
         NEW q, LeftOf(q, rs, i - 1), NEW removed \in HFRange
  PROVE  LeftOf(q \o Remaining(rs[i], removed), rs, i)
  <1> DEFINE p == Remaining(rs[i], removed)
             r == rs[i]
             u == q \o p
             m == Len(q)
             l == Len(p)
  <1>1. Len(rs) \in Nat /\ DOMAIN rs = 1 .. Len(rs) /\ \A j \in 1 .. Len(rs) : rs[j] \in HFRange
    BY SeqFacts
  <1>2. /\ p \in Seq(HFRange) /\ Ordered(p)
        /\ \A k \in DOMAIN p : Inside(p[k], r) /\ (p[k].length = 0 => p = <<r>>)
    BY <1>1, RemainingIs
  <1> HIDE DEF p
  <1>3. q \in Seq(HFRange) /\ Ordered(q) /\ OneEmpty(q)
    BY DEF LeftOf
  <1>4. m \in Nat /\ DOMAIN q = 1 .. m /\ \A k \in 1 .. m : q[k] \in HFRange
    BY <1>3, SeqFacts
  <1>5. l \in Nat /\ DOMAIN p = 1 .. l /\ \A k \in 1 .. l : p[k] \in HFRange
    BY <1>2, SeqFacts
  <1>6. /\ u \in Seq(HFRange) /\ Len(u) = m + l
        /\ \A k \in 1 .. m + l : u[k] = IF k <= m THEN q[k] ELSE p[k - m]
    BY <1>2, <1>3, ConcatProperties
  <1>7. DOMAIN u = 1 .. m + l
    BY <1>6, SeqFacts
  <1>8. \A k \in 1 .. m + l : \/ k \in 1 .. m /\ u[k] = q[k]
                              \/ k - m \in 1 .. l /\ k > m /\ u[k] = p[k - m]
    <2> HIDE DEF m, l, u
    <2> QED BY <1>4, <1>5, <1>6
  <1> HIDE DEF u, m, l
  <1>9. \A k \in 1 .. m : \A j \in 1 .. l :
          /\ MaxRange(q[k]) <= p[j].location
          /\ ~ (q[k].length = 0 /\ p[j].length = 0)
    <2> TAKE k \in 1 .. m
    <2> TAKE j \in 1 .. l
    <2>1. PICK w \in 1 .. i - 1 : Inside(q[k], rs[w]) /\ (q[k].length = 0 => rs[w] = q[k])
      BY <1>4 DEF LeftOf
    <2>2. w \in 1 .. Len(rs) /\ w < i /\ i \in 1 .. Len(rs)
      BY <1>1
    <2>3. MaxRange(rs[w]) <= r.location
      BY <1>1, <2>2 DEF Ordered
    <2>4. MaxRange(q[k]) <= MaxRange(rs[w]) /\ r.location <= p[j].location
      BY <1>2, <1>5, <2>1 DEF Inside
    <2>5. MaxRange(q[k]) \in Nat /\ MaxRange(rs[w]) \in Nat /\ r.location \in Nat /\ p[j].location \in Nat
      BY <1>1, <1>4, <1>5, <2>2, RangeFacts
    <2>6. MaxRange(q[k]) <= p[j].location
      <3> HIDE DEF r
      <3> QED BY <2>3, <2>4, <2>5
    <2>7. q[k].length = 0 /\ p[j].length = 0 => FALSE
      <3> SUFFICES ASSUME q[k].length = 0, p[j].length = 0 PROVE FALSE
        OBVIOUS
      <3>1. p = <<r>>
        BY <1>2, <1>5
      <3>2. j = 1 /\ p[1] = r
        <4>1. l = 1
          BY <3>1 DEF l
        <4> QED BY <3>1, <4>1
      <3>3. rs[w].length = 0 /\ rs[i].length = 0
        BY <2>1, <3>2
      <3>4. w = i
        BY <1>1, <2>2, <3>3 DEF OneEmpty
      <3> QED BY <1>1, <2>2, <3>4
    <2> QED BY <2>6, <2>7
  <1>10. Ordered(u)
    <2> SUFFICES ASSUME NEW j \in 1 .. m + l, NEW k \in 1 .. m + l, j < k
                 PROVE  MaxRange(u[j]) <= u[k].location
      BY <1>7 DEF Ordered
    <2>1. CASE j \in 1 .. m /\ k \in 1 .. m
      <3>1. MaxRange(q[j]) <= q[k].location
        BY <1>3, <1>4, <2>1 DEF Ordered
      <3> QED BY <1>4, <1>8, <2>1, <3>1
    <2>2. CASE j \in 1 .. m /\ k \notin 1 .. m
      <3>1. u[j] = q[j] /\ k - m \in 1 .. l /\ u[k] = p[k - m]
        BY <1>4, <1>8, <2>2
      <3> QED BY <1>9, <2>2, <3>1
    <2>3. CASE j \notin 1 .. m
      <3>1. /\ j - m \in 1 .. l /\ u[j] = p[j - m] /\ k - m \in 1 .. l /\ u[k] = p[k - m]
            /\ j - m < k - m
        BY <1>4, <1>5, <1>8, <2>3
      <3> DEFINE x == j - m
                 y == k - m
      <3>2. x \in 1 .. l /\ y \in 1 .. l /\ x < y /\ u[j] = p[x] /\ u[k] = p[y]
        BY <3>1
      <3> HIDE DEF x, y
      <3>3. MaxRange(p[x]) <= p[y].location
        BY <1>2, <1>5, <3>2 DEF Ordered
      <3> QED BY <3>2, <3>3
    <2> QED BY <2>1, <2>2, <2>3
  <1>11. OneEmpty(u)
    <2>1. \A j, k \in 1 .. m + l : j < k => ~ (u[j].length = 0 /\ u[k].length = 0)
      <3> SUFFICES ASSUME NEW j \in 1 .. m + l, NEW k \in 1 .. m + l, j < k,
                          u[j].length = 0, u[k].length = 0
                   PROVE  FALSE
        OBVIOUS
      <3>1. CASE j \in 1 .. m /\ k \in 1 .. m
        <4>1. u[j] = q[j] /\ u[k] = q[k]
          BY <1>4, <1>8, <3>1
        <4>2. j = k
          BY <1>3, <1>4, <3>1, <4>1 DEF OneEmpty
        <4> QED BY <4>2
      <3>2. CASE j \in 1 .. m /\ k \notin 1 .. m
        <4>1. u[j] = q[j] /\ k - m \in 1 .. l /\ u[k] = p[k - m]
          BY <1>4, <1>8, <3>2
        <4> QED BY <1>9, <3>2, <4>1
      <3>3. CASE j \notin 1 .. m
        <4> DEFINE y == k - m
        <4>1. j - m \in 1 .. l /\ y \in 1 .. l /\ u[k] = p[y] /\ y > 1
          BY <1>4, <1>5, <1>8, <3>3
        <4> HIDE DEF y
        <4>2. p = <<r>>
          BY <1>2, <1>5, <4>1
        <4>3. l = 1
          BY <4>2 DEF l
        <4> QED BY <4>1, <4>3
      <3> QED BY <3>1, <3>2, <3>3
    <2> SUFFICES ASSUME NEW j \in 1 .. m + l, NEW k \in 1 .. m + l, u[j].length = 0, u[k].length = 0
                 PROVE  j = k
      BY <1>7 DEF OneEmpty
    <2>2. j < k \/ k < j \/ j = k
      BY <1>4, <1>5
    <2> QED BY <2>1, <2>2
  <1>12. \A k \in 1 .. m + l : \E w \in 1 .. i :
            Inside(u[k], rs[w]) /\ (u[k].length = 0 => rs[w] = u[k])
    <2> TAKE k \in 1 .. m + l
    <2>1. CASE k \in 1 .. m /\ u[k] = q[k]
      <3>1. PICK w \in 1 .. i - 1 : Inside(q[k], rs[w]) /\ (q[k].length = 0 => rs[w] = q[k])
        BY <1>4, <2>1 DEF LeftOf
      <3>2. w \in 1 .. i
        BY <1>1
      <3> QED BY <2>1, <3>1, <3>2
    <2>2. CASE k - m \in 1 .. l /\ u[k] = p[k - m]
      <3> DEFINE y == k - m
      <3>1. y \in 1 .. l /\ u[k] = p[y]
        BY <2>2
      <3> HIDE DEF y
      <3>2. Inside(p[y], r) /\ (p[y].length = 0 => p = <<r>>)
        BY <1>2, <1>5, <3>1
      <3>3. p = <<r>> => p[y] = r
        <4>1. p = <<r>> => l = 1
          BY DEF l
        <4> QED BY <3>1, <4>1
      <3>4. i \in 1 .. i
        BY <1>1
      <3> QED BY <3>1, <3>2, <3>3, <3>4
    <2> QED BY <1>8, <2>1, <2>2
  <1> QED BY <1>6, <1>7, <1>10, <1>11, <1>12 DEF LeftOf, u, p

\* What is left of all the ranges.
AllRemaining(rs, removed) ==
    LET remaining[i \in 0 .. Len(rs)] ==
            IF i = 0 THEN <<>>
            ELSE remaining[i - 1] \o Remaining(rs[i], removed)
    IN  remaining[Len(rs)]

\* What removing a range leaves of ranges in order.
LEMMA AllRemainingIs ==
  ASSUME NEW rs \in Seq(HFRange), Ordered(rs), OneEmpty(rs), NEW removed \in HFRange
  PROVE  LeftOf(AllRemaining(rs, removed), rs, Len(rs))
  <1> DEFINE n == Len(rs)
             Q == Seq(HFRange)
             left == [i \in 1 .. n |-> Remaining(rs[i], removed)]
             remaining[i \in 0 .. n] ==
                IF i = 0 THEN <<>> ELSE remaining[i - 1] \o Remaining(rs[i], removed)
             Equation(f) ==
                f = [i \in 0 .. n |-> IF i = 0 THEN <<>> ELSE f[i - 1] \o Remaining(rs[i], removed)]
  <1>1. n \in Nat /\ DOMAIN rs = 1 .. n /\ \A i \in 1 .. n : rs[i] \in HFRange
    BY SeqFacts
  <1>2. AllRemaining(rs, removed) = remaining[n]
    BY DEF AllRemaining
  <1>3. remaining = CHOOSE f : Equation(f)
    OBVIOUS
  <1>4. <<>> \in Q
    OBVIOUS
  <1>5. \A i \in 1 .. n : Remaining(rs[i], removed) \in Q
    BY <1>1, RemainingIs
  <1> DEFINE step == [i \in 1 .. n |-> [q \in Q |-> q \o Remaining(rs[i], removed)]]
  <1>6. /\ step \in [1 .. n -> [Q -> Q]]
        /\ \A i \in 1 .. n : \A q \in Q : step[i][q] = q \o Remaining(rs[i], removed)
    <2>1. \A i \in 1 .. n : \A q \in Q : q \o Remaining(rs[i], removed) \in Q
      <3> TAKE i \in 1 .. n
      <3> TAKE q \in Q
      <3> DEFINE p == Remaining(rs[i], removed)
      <3>1. p \in Q
        BY <1>5
      <3> HIDE DEF p
      <3>2. q \o p \in Q
        BY <3>1, ConcatProperties
      <3> QED BY <3>2 DEF p
    <2> HIDE DEF Q, n
    <2> QED BY <2>1
  <1> HIDE DEF remaining, step, Equation
  <1>7. PICK f : Iterated(f, n, Q, <<>>, step)
    <2>1. n \in Nat
      BY <1>1
    <2> HIDE DEF Q, n
    <2> QED BY <1>4, <1>6, <2>1, Iterates
  <1>8. /\ f \in [0 .. n -> Q] /\ f[0] = <<>>
        /\ \A i \in 1 .. n : f[i] = step[i][f[i - 1]]
    BY <1>7 DEF Iterated
  <1>9. \A i \in 1 .. n : f[i] = f[i - 1] \o Remaining(rs[i], removed)
    <2> TAKE i \in 1 .. n
    <2>1. i - 1 \in 0 .. n
      BY <1>1
    <2>2. f[i - 1] \in Q
      BY <1>8, <2>1
    <2> HIDE DEF Q
    <2> QED BY <1>6, <1>8, <2>2
  <1>10. Equation(f)
    <2>1. f = [i \in 0 .. n |-> f[i]]
      BY <1>8
    <2>2. \A i \in 0 .. n : i # 0 => i \in 1 .. n
      BY <1>1
    <2>3. \A i \in 0 .. n :
            f[i] = IF i = 0 THEN <<>> ELSE f[i - 1] \o Remaining(rs[i], removed)
      BY <1>8, <1>9, <2>2
    <2> HIDE DEF n
    <2> QED BY <2>1, <2>3 DEF Equation
  <1>11. Equation(remaining)
    BY <1>3, <1>10
  <1>12. remaining[0] = <<>> /\ \A i \in 1 .. n : remaining[i] = remaining[i - 1] \o Remaining(rs[i], removed)
    <2>1. 0 \in 0 .. n /\ \A i \in 1 .. n : i \in 0 .. n /\ i # 0
      BY <1>1
    <2> HIDE DEF n
    <2> QED BY <1>11, <2>1 DEF Equation
  <1> DEFINE T == {i \in 0 .. n : LeftOf(remaining[i], rs, i)}
  <1>13. LeftOf(<<>>, rs, 0)
    BY DEF LeftOf, Ordered, OneEmpty
  <1>14. \A i \in 1 .. n : LeftOf(remaining[i - 1], rs, i - 1) => LeftOf(remaining[i], rs, i)
    <2> TAKE i \in 1 .. n
    <2> HAVE LeftOf(remaining[i - 1], rs, i - 1)
    <2> DEFINE q == remaining[i - 1]
    <2>1. LeftOf(q, rs, i - 1) /\ i \in 1 .. Len(rs)
      OBVIOUS
    <2> HIDE DEF q
    <2>2. LeftOf(q \o Remaining(rs[i], removed), rs, i)
      BY <2>1, LeftStep
    <2> QED BY <1>12, <2>2 DEF q
  <1>15. 0 \in T /\ \A i \in 1 .. n : i - 1 \in T => i \in T
    <2>1. 0 \in 0 .. n /\ \A i \in 1 .. n : i \in 0 .. n
      BY <1>1
    <2> HIDE DEF n
    <2> QED BY <1>12, <1>13, <1>14, <2>1
  <1>16. n \in T
    <2> HIDE DEF T
    <2>1. \A i \in 0 .. n : i \in T
      BY <1>1, <1>15, UpTo
    <2> QED BY <1>1, <2>1
  <1> QED BY <1>2, <1>16

\* Removing a range leaves a selection.  A caret that it leaves alone is the
\* cursor.
LEMMA RemoveUsable ==
  ASSUME NEW n \in Nat, NEW rs, Usable(rs, n), NEW removed \in HFRange,
         NEW cursor \in Nat, cursor <= n
  PROVE  LET q == removeRangeFromSelection(rs, removed, cursor)
         IN  /\ Usable(q, n)
             /\ Len(q) = 1 /\ q[1].length = 0 => q[1].location = cursor
  <1> DEFINE all == AllRemaining(rs, removed)
             q == removeRangeFromSelection(rs, removed, cursor)
             caret == <<RangeMake(cursor, 0)>>
             m == organizeAndMergeRanges(all)
             a == Len(all)
  <1>1. rs \in Seq(HFRange) /\ Ordered(rs) /\ OneEmpty(rs) /\ EndBy(rs, n)
    BY DEF Usable
  <1>2. Len(rs) \in Nat /\ DOMAIN rs = 1 .. Len(rs) /\ \A i \in 1 .. Len(rs) : rs[i] \in HFRange
    BY <1>1, SeqFacts
  <1>3. LeftOf(all, rs, Len(rs))
    BY <1>1, AllRemainingIs
  <1>4. q = IF all = <<>> \/ (Len(all) = 1 /\ all[1].length = 0) THEN caret ELSE m
    BY DEF removeRangeFromSelection, AllRemaining
  <1>5. Usable(caret, n)
    BY CursorUsable
  <1>6. Len(caret) = 1 /\ caret[1].location = cursor
    BY DEF RangeMake
  <1> HIDE DEF all, q, caret
  <1>7. all \in Seq(HFRange) /\ Ordered(all) /\ OneEmpty(all)
    BY <1>3 DEF LeftOf
  <1>8. a \in Nat /\ DOMAIN all = 1 .. a /\ (\A i \in 1 .. a : all[i] \in HFRange) /\ (all # <<>> <=> a > 0)
    BY <1>7, SeqFacts
  <1>9. EndBy(all, n)
    <2> SUFFICES ASSUME NEW k \in 1 .. a PROVE MaxRange(all[k]) <= n
      BY <1>8 DEF EndBy
    <2>1. PICK w \in 1 .. Len(rs) : Inside(all[k], rs[w])
      BY <1>3, <1>8 DEF LeftOf
    <2>2. MaxRange(all[k]) <= MaxRange(rs[w]) /\ MaxRange(rs[w]) <= n
      BY <1>1, <1>2, <2>1 DEF Inside, EndBy
    <2>3. MaxRange(all[k]) \in Nat /\ MaxRange(rs[w]) \in Nat
      BY <1>2, <1>8, RangeFacts
    <2> QED BY <2>2, <2>3
  <1>10. CASE all = <<>> \/ (Len(all) = 1 /\ all[1].length = 0)
    BY <1>4, <1>5, <1>6, <1>10 DEF q
  <1>11. CASE all # <<>> /\ ~ (Len(all) = 1 /\ all[1].length = 0)
    <2>1. q = m
      BY <1>4, <1>11
    <2>2. Usable(m, n) /\ Ordered(m)
      BY <1>7, <1>9, <1>11, OrganizedUsable
    <2>3. MergedUpTo(m, all, a)
      BY <1>7, OrganizedIs
    <2> HIDE DEF m, a
    <2>4. ~ (Len(m) = 1 /\ m[1].length = 0)
      <3> SUFFICES ASSUME Len(m) = 1, m[1].length = 0 PROVE FALSE
        OBVIOUS
      <3>1. a > 0
        BY <1>8, <1>11
      <3>2. m[1].location = all[1].location /\ MaxRange(m[1]) = MaxRange(all[a]) /\ m \in Seq(HFRange)
        BY <2>3, <3>1 DEF MergedUpTo
      <3>3. m[1] \in HFRange
        <4>1. 1 \in 1 .. Len(m)
          OBVIOUS
        <4>2. \A k \in 1 .. Len(m) : m[k] \in HFRange
          BY <3>2, SeqFacts
        <4> QED BY <4>1, <4>2
      <3>4. 1 \in 1 .. a /\ a \in 1 .. a /\ all[1] \in HFRange /\ all[a] \in HFRange
        BY <1>8, <3>1
      <3>5. MaxRange(all[a]) = all[1].location
        BY <3>2, <3>3, RangeFacts
      <3>6. CASE a = 1
        <4>1. all[1].length = 0
          BY <3>4, <3>5, <3>6, RangeFacts
        <4> QED BY <1>11, <3>6, <4>1 DEF a
      <3>7. CASE a > 1
        <4>1. MaxRange(all[1]) <= all[a].location
          BY <1>7, <1>8, <3>4, <3>7 DEF Ordered
        <4>2. /\ all[1].location \in Nat /\ MaxRange(all[1]) \in Nat /\ all[1].location <= MaxRange(all[1])
              /\ all[a].location \in Nat /\ MaxRange(all[a]) \in Nat /\ all[a].location <= MaxRange(all[a])
              /\ all[1].length = 0 <=> MaxRange(all[1]) = all[1].location
              /\ all[a].length = 0 <=> MaxRange(all[a]) = all[a].location
          BY <3>4, RangeFacts
        <4> DEFINE b == all[1].location
                   c == MaxRange(all[1])
                   d == all[a].location
                   e == MaxRange(all[a])
        <4>3. b = c /\ d = e
          <5>1. b \in Nat /\ c \in Nat /\ d \in Nat /\ e \in Nat /\ b <= c /\ c <= d /\ d <= e /\ e = b
            BY <3>5, <4>1, <4>2
          <5> HIDE DEF b, c, d, e
          <5> QED BY <5>1
        <4>4. all[1].length = 0 /\ all[a].length = 0
          BY <4>2, <4>3
        <4>5. a = 1
          BY <1>7, <1>8, <3>4, <4>4 DEF OneEmpty
        <4> QED BY <3>7, <4>5
      <3>8. a = 1 \/ a > 1
        BY <1>8, <3>1
      <3> QED BY <3>6, <3>7, <3>8
    <2> QED BY <2>1, <2>2, <2>4 DEF q
  <1> QED BY <1>10, <1>11

-----------------------------------------------------------------------------
(* Texts *)

\* What is in a range, and what is there when it has been replaced.
LEMMA ReplacedIs ==
  ASSUME NEW t \in Text, NEW r \in HFRange, MaxRange(r) <= Len(t), NEW b \in Text
  PROVE  /\ Within(r, t)
         /\ BytesIn(t, r) = Part(t, r.location, r.length)
         /\ BytesIn(t, r) \in Text /\ Len(BytesIn(t, r)) = r.length
         /\ Replaced(t, r, b) = Splice(t, r.location, r.length, b)
         /\ Spliced(Replaced(t, r, b), t, r.location, r.length, b, Bytes)
         /\ Replaced(t, r, b) \in Text
         /\ Len(Replaced(t, r, b)) = Len(t) - r.length + Len(b)
  <1> DEFINE a == r.location
             n == r.length
  <1>1. a \in Nat /\ n \in Nat /\ MaxRange(r) = a + n
    BY RangeFacts
  <1>2. t \in Seq(Bytes) /\ b \in Seq(Bytes) /\ a + n <= Len(t)
    BY <1>1 DEF Text
  <1>3. BytesIn(t, r) = Part(t, a, n)
    BY <1>1 DEF BytesIn, Part
  <1>4. Replaced(t, r, b) = Splice(t, a, n, b)
    BY <1>1 DEF Replaced, Splice
  <1> HIDE DEF a, n
  <1>5. Part(t, a, n) \in Seq(Bytes) /\ Len(Part(t, a, n)) = n
    BY <1>1, <1>2, PartIs
  <1>6. Spliced(Splice(t, a, n, b), t, a, n, b, Bytes)
    BY <1>1, <1>2, SpliceIs
  <1>7. /\ Splice(t, a, n, b) \in Seq(Bytes)
        /\ Len(Splice(t, a, n, b)) = Len(t) - n + Len(b)
    BY <1>6 DEF Spliced
  <1>8. Within(r, t)
    BY WithinIs
  <1> QED BY <1>3, <1>4, <1>5, <1>6, <1>7, <1>8 DEF a, n, Text

\* Replacing what has been put in by what was there gives back the text.
LEMMA ReplacedBack ==
  ASSUME NEW t \in Text, NEW r \in HFRange, MaxRange(r) <= Len(t), NEW b \in Text
  PROVE  LET s == RangeMake(r.location, Len(b))
             u == Replaced(t, r, b)
         IN  /\ s \in HFRange /\ MaxRange(s) <= Len(u) /\ u \in Text
             /\ BytesIn(u, s) = b
             /\ Replaced(u, s, BytesIn(t, r)) = t
  <1> DEFINE a == r.location
             n == r.length
             m == Len(b)
             s == RangeMake(a, m)
             u == Replaced(t, r, b)
             p == BytesIn(t, r)
  <1>1. a \in Nat /\ n \in Nat /\ MaxRange(r) = a + n
    BY RangeFacts
  <1>2. t \in Seq(Bytes) /\ b \in Seq(Bytes) /\ a + n <= Len(t) /\ m \in Nat /\ Len(t) \in Nat
    BY <1>1, LenProperties DEF Text
  <1>3. /\ p = Part(t, a, n) /\ p \in Text /\ Len(p) = n
        /\ u = Splice(t, a, n, b) /\ u \in Text /\ Len(u) = Len(t) - n + m
    BY ReplacedIs
  <1> HIDE DEF a, n, p, u
  <1>4. s \in HFRange /\ MaxRange(s) = a + m /\ s.location = a /\ s.length = m
    BY <1>1, <1>2, RangeMakeIs
  <1> HIDE DEF s
  <1>5. MaxRange(s) <= Len(u)
    <2> HIDE DEF m
    <2> QED BY <1>1, <1>2, <1>3, <1>4
  <1>6. BytesIn(u, s) = Part(u, a, m) /\ Replaced(u, s, p) = Splice(u, a, m, p)
    <2>1. /\ BytesIn(u, s) = Part(u, s.location, s.length)
          /\ Replaced(u, s, p) = Splice(u, s.location, s.length, p)
      BY <1>3, <1>4, <1>5, ReplacedIs, ZenonT(60)
    <2> QED BY <1>4, <2>1
  <1>7. Part(u, a, m) = b
    BY <1>1, <1>2, <1>3, SplicedPart
  <1>8. Splice(u, a, m, p) = t
    BY <1>1, <1>2, <1>3, SpliceBack
  <1> QED BY <1>3, <1>4, <1>5, <1>6, <1>7, <1>8 DEF s, u, p, a, m

\* u begins with the first b elements of t.
Begins(u, t, b) == b <= Len(u) /\ \A i \in 1 .. b : u[i] = t[i]

\* A text keeps what is before a range that is replaced.
LEMMA ReplacedBegins ==
  ASSUME NEW t \in Text, NEW r \in HFRange, MaxRange(r) <= Len(t), NEW b \in Text,
         NEW n \in Nat, n <= r.location
  PROVE  Begins(Replaced(t, r, b), t, n)
  <1> DEFINE a == r.location
             u == Replaced(t, r, b)
  <1>1. /\ a \in Nat /\ r.length \in Nat /\ MaxRange(r) = a + r.length
        /\ Len(t) \in Nat /\ Len(b) \in Nat
    BY RangeFacts, LenProperties DEF Text
  <1>2. Spliced(u, t, a, r.length, b, Bytes)
    BY ReplacedIs
  <1> HIDE DEF u, a
  <1>3. Len(u) = Len(t) - r.length + Len(b) /\ \A i \in 1 .. a : u[i] = t[i]
    BY <1>2 DEF Spliced
  <1>4. n <= a
    BY DEF a
  <1>5. n <= Len(u)
    BY <1>1, <1>3, <1>4
  <1>6. \A i \in 1 .. n : i \in 1 .. a
    BY <1>1, <1>4
  <1> QED BY <1>3, <1>5, <1>6 DEF Begins, u

\* The texts while ranges are deleted, the last range first.
Deletes(f, t, rs) ==
    /\ f \in [0 .. Len(rs) -> Text] /\ f[Len(rs)] = t
    /\ \A i \in 0 .. Len(rs) - 1 :
          /\ MaxRange(rs[i + 1]) <= Len(f[i + 1])
          /\ f[i] = Replaced(f[i + 1], rs[i + 1], <<>>)

\* Ranges in ascending order are deleted one by one.
LEMMA DeletedIs ==
  ASSUME NEW t \in Text, NEW rs \in Seq(HFRange), Ordered(rs), EndBy(rs, Len(t))
  PROVE  \E f : Deletes(f, t, rs) /\ DeleteRanges(t, rs) = f[0]
  <1> DEFINE n == Len(rs)
             deleted[i \in 0 .. n] ==
                IF i = n THEN t ELSE Replaced(deleted[i + 1], rs[i + 1], <<>>)
             Equation(f) ==
                f = [i \in 0 .. n |-> IF i = n THEN t ELSE Replaced(f[i + 1], rs[i + 1], <<>>)]
             Less(q, r) == IF MaxRange(r) <= Len(q) THEN Replaced(q, r, <<>>) ELSE q
  <1>1. n \in Nat /\ DOMAIN rs = 1 .. n /\ \A i \in 1 .. n : rs[i] \in HFRange
    BY SeqFacts
  <1>2. DeleteRanges(t, rs) = deleted[0]
    BY DEF DeleteRanges
  <1>3. deleted = CHOOSE f : Equation(f)
    OBVIOUS
  <1>4. <<>> \in Text
    BY DEF Text
  <1> DEFINE step == [i \in 1 .. n |-> [q \in Text |-> Less(q, rs[i])]]
  <1>5. /\ step \in [1 .. n -> [Text -> Text]]
        /\ \A i \in 1 .. n : \A q \in Text : step[i][q] = Less(q, rs[i])
    <2>1. \A i \in 1 .. n : \A q \in Text : Less(q, rs[i]) \in Text
      <3> TAKE i \in 1 .. n
      <3> TAKE q \in Text
      <3>1. MaxRange(rs[i]) <= Len(q) => Replaced(q, rs[i], <<>>) \in Text
        BY <1>1, <1>4, ReplacedIs
      <3> QED BY <3>1
    <2> HIDE DEF n, Less
    <2> QED BY <2>1
  <1> HIDE DEF deleted, step, Equation
  <1>6. PICK f : IteratedBack(f, n, Text, t, step)
    <2>1. n \in Nat
      BY <1>1
    <2> HIDE DEF n
    <2> QED BY <1>5, <2>1, IteratesBack
  <1>7. /\ f \in [0 .. n -> Text] /\ f[n] = t
        /\ \A i \in 0 .. n - 1 : f[i] = step[i + 1][f[i + 1]]
    BY <1>6 DEF IteratedBack
  <1>8. \A i \in 0 .. n - 1 : /\ i + 1 \in 0 .. n /\ i \in 0 .. n /\ i + 1 \in 1 .. n /\ i # n
                               /\ (i > 0 => i \in 1 .. n)
    <2> HIDE DEF n
    <2> QED BY <1>1
  <1>9. \A i \in 0 .. n - 1 : f[i] = Less(f[i + 1], rs[i + 1])
    <2> TAKE i \in 0 .. n - 1
    <2>1. f[i + 1] \in Text
      BY <1>7, <1>8
    <2> HIDE DEF Less, n
    <2> QED BY <1>5, <1>7, <1>8, <2>1
  \* What is left reaches to the end of the range before.
  <1> DEFINE Good(i) == i > 0 => MaxRange(rs[i]) <= Len(f[i])
             T == {i \in 0 .. n : Good(i)}
  <1>10. Good(n)
    <2>1. n > 0 => n \in 1 .. n
      BY <1>1
    <2> QED BY <1>1, <1>7, <2>1 DEF EndBy
  <1>11. \A i \in 0 .. n - 1 : Good(i + 1) => Good(i)
    <2> TAKE i \in 0 .. n - 1
    <2> SUFFICES ASSUME Good(i + 1), i > 0 PROVE MaxRange(rs[i]) <= Len(f[i])
      OBVIOUS
    <2> DEFINE q == f[i + 1]
               r == rs[i + 1]
               a == MaxRange(rs[i])
    <2>1. /\ r \in HFRange /\ rs[i] \in HFRange /\ q \in Text /\ i \in 1 .. n /\ i + 1 \in 1 .. n
          /\ i < i + 1
      <3>1. i \in 1 .. n /\ i + 1 \in 1 .. n /\ i + 1 \in 0 .. n
        BY <1>8
      <3>2. i < i + 1
        OBVIOUS
      <3> HIDE DEF n
      <3> QED BY <1>1, <1>7, <3>1, <3>2
    <2>2. MaxRange(r) <= Len(q)
      BY <1>8
    <2>3. f[i] = Replaced(q, r, <<>>)
      BY <1>9, <2>2
    <2>4. a \in Nat
      BY <2>1, RangeFacts
    <2>5. a <= r.location
      BY <1>1, <2>1 DEF Ordered
    <2> HIDE DEF q, r, a
    <2>6. Begins(Replaced(q, r, <<>>), q, a)
      BY <1>4, <2>1, <2>2, <2>4, <2>5, ReplacedBegins
    <2> QED BY <2>3, <2>6 DEF Begins, a
  <1> HIDE DEF Good
  <1>12. \A i \in 0 .. n : i \in T
    <2>1. n \in T /\ \A i \in 0 .. n - 1 : i + 1 \in T => i \in T
      <3>1. n \in 0 .. n
        BY <1>1
      <3> HIDE DEF n
      <3> QED BY <1>8, <1>10, <1>11, <3>1
    <2> HIDE DEF T
    <2> QED BY <1>1, <2>1, DownFrom
  <1>13. \A i \in 0 .. n - 1 : /\ MaxRange(rs[i + 1]) <= Len(f[i + 1])
                               /\ f[i] = Replaced(f[i + 1], rs[i + 1], <<>>)
    <2> TAKE i \in 0 .. n - 1
    <2>1. Good(i + 1) /\ i + 1 > 0
      BY <1>8, <1>12
    <2>2. MaxRange(rs[i + 1]) <= Len(f[i + 1])
      BY <2>1 DEF Good
    <2> QED BY <1>9, <2>2
  <1>14. Deletes(f, t, rs)
    BY <1>7, <1>13 DEF Deletes
  <1>15. Equation(f)
    <2>1. f = [i \in 0 .. n |-> f[i]]
      BY <1>7
    <2>2. \A i \in 0 .. n : i # n => i \in 0 .. n - 1
      <3> HIDE DEF n
      <3> QED BY <1>1
    <2>3. \A i \in 0 .. n : f[i] = IF i = n THEN t ELSE Replaced(f[i + 1], rs[i + 1], <<>>)
      <3> HIDE DEF n
      <3> QED BY <1>7, <1>13, <2>2
    <2> HIDE DEF n
    <2> QED BY <2>1, <2>3 DEF Equation
  <1>16. Equation(deleted)
    BY <1>3, <1>15
  <1>17. \A i \in 0 .. n : deleted[i] = f[i]
    <2>1. deleted[n] = f[n]
      <3>1. n \in 0 .. n
        BY <1>1
      <3> HIDE DEF n
      <3> QED BY <1>7, <1>16, <3>1 DEF Equation
    <2>2. \A i \in 0 .. n - 1 : deleted[i + 1] = f[i + 1] => deleted[i] = f[i]
      <3> HIDE DEF n
      <3> QED BY <1>8, <1>13, <1>16 DEF Equation
    <2>3. n \in Nat
      BY <1>1
    <2> HIDE DEF n
    <2> QED BY <2>1, <2>2, <2>3, SameDownFrom
  <1>18. 0 \in 0 .. n
    BY <1>1
  <1> QED BY <1>2, <1>14, <1>17, <1>18

\* What is before the ranges stays.
LEMMA DeletedBegins ==
  ASSUME NEW t \in Text, NEW rs \in Seq(HFRange), Ordered(rs), EndBy(rs, Len(t)),
         NEW b \in Nat, b <= Len(t), \A i \in DOMAIN rs : b <= rs[i].location
  PROVE  DeleteRanges(t, rs) \in Text /\ Begins(DeleteRanges(t, rs), t, b)
  <1> DEFINE n == Len(rs)
  <1>1. n \in Nat /\ DOMAIN rs = 1 .. n /\ \A i \in 1 .. n : rs[i] \in HFRange
    BY SeqFacts
  <1>2. PICK f : Deletes(f, t, rs) /\ DeleteRanges(t, rs) = f[0]
    BY DeletedIs
  <1>3. /\ f \in [0 .. n -> Text] /\ f[n] = t
        /\ \A i \in 0 .. n - 1 : /\ MaxRange(rs[i + 1]) <= Len(f[i + 1])
                                 /\ f[i] = Replaced(f[i + 1], rs[i + 1], <<>>)
    BY <1>2 DEF Deletes
  <1>4. \A i \in 0 .. n - 1 : i + 1 \in 0 .. n /\ i \in 0 .. n /\ i + 1 \in 1 .. n
    BY <1>1
  <1> DEFINE T == {i \in 0 .. n : Begins(f[i], t, b)}
  <1>5. Begins(f[n], t, b)
    BY <1>3 DEF Begins
  <1>6. \A i \in 0 .. n - 1 : Begins(f[i + 1], t, b) => Begins(f[i], t, b)
    <2> TAKE i \in 0 .. n - 1
    <2> HAVE Begins(f[i + 1], t, b)
    <2> DEFINE q == f[i + 1]
               r == rs[i + 1]
    <2>1. q \in Text /\ r \in HFRange /\ MaxRange(r) <= Len(q) /\ f[i] = Replaced(q, r, <<>>)
      BY <1>1, <1>3, <1>4
    <2>2. b <= r.location /\ <<>> \in Text
      BY <1>1, <1>4 DEF Text
    <2>3. Begins(q, t, b)
      OBVIOUS
    <2> HIDE DEF q, r
    <2>4. Begins(Replaced(q, r, <<>>), q, b)
      BY <2>1, <2>2, ReplacedBegins
    <2> QED BY <2>1, <2>3, <2>4 DEF Begins
  <1>7. n \in T /\ \A i \in 0 .. n - 1 : i + 1 \in T => i \in T
    <2>1. n \in 0 .. n
      BY <1>1
    <2> HIDE DEF n
    <2> QED BY <1>4, <1>5, <1>6, <2>1
  <1>8. 0 \in T
    <2> HIDE DEF T
    <2>1. \A i \in 0 .. n : i \in T
      BY <1>1, <1>7, DownFrom
    <2> QED BY <1>1, <2>1
  <1>9. f[0] \in Text
    BY <1>1, <1>3
  <1> QED BY <1>2, <1>8, <1>9

-----------------------------------------------------------------------------
(* Operations and editors *)

TypingOperation ==
    {c \in [kind : {"typing"}, anchor : Nat, action : Nat, deleted : Text] :
        c.anchor <= c.action}

\* The arrays lie behind one another once they are inserted.
Spread(operation) ==
    /\ \A i \in DOMAIN operation.ranges : Len(operation.arrays[i]) > 0
    /\ \A i, j \in DOMAIN operation.ranges :
          i < j => operation.ranges[i].location + Len(operation.arrays[i])
                        <= operation.ranges[j].location

RangesOperation ==
    {o \in [kind : {"ranges"}, arrays : Seq(Text), ranges : Seq(HFRange),
            select : {"Result", "AfterResult", "Preserve"}] :
        /\ Len(o.arrays) = Len(o.ranges) /\ o.ranges # <<>>
        /\ o.select = "Result" => Spread(o)}

Operation == TypingOperation \cup RangesOperation
Group == Seq(Operation) \ {<<>>}

Editor ==
    [text : Text, selection : Seq(HFRange), coalescer : TypingOperation \cup {None},
     undo : Seq(Group), group : Seq(Operation), done : BOOLEAN]

\* The coalescer is the last operation.
Linked(e) ==
    e.coalescer # None =>
        /\ e.group # <<>> => Last(e.group) = e.coalescer
        /\ e.group = <<>> /\ e.undo # <<>> => Last(Last(e.undo)) = e.coalescer

\* The fields of typing.
LEMMA TypingFacts ==
  ASSUME NEW c \in TypingOperation
  PROVE  /\ c.anchor \in Nat /\ c.action \in Nat /\ c.anchor <= c.action
         /\ c.deleted \in Text /\ Len(c.deleted) \in Nat
         /\ c # None /\ c.kind = "typing" /\ c \in Operation
  <1>1. /\ c.anchor \in Nat /\ c.action \in Nat /\ c.anchor <= c.action
        /\ c.deleted \in Text /\ c.kind = "typing" /\ c \in Operation
    BY DEF TypingOperation, Operation
  <1>2. Len(c.deleted) \in Nat
    BY <1>1, LenProperties DEF Text
  <1>3. c # None
    BY <1>1 DEF None
  <1> QED BY <1>1, <1>2, <1>3

\* Typing that is made.
LEMMA TypingIs ==
  ASSUME NEW anchor \in Nat, NEW action \in Nat, anchor <= action, NEW deleted \in Text
  PROVE  LET c == Typing(anchor, action, deleted)
         IN  /\ c \in TypingOperation
             /\ c.anchor = anchor /\ c.action = action /\ c.deleted = deleted
  BY DEF Typing, TypingOperation

\* s with another last element.
ChangedLast(s, x) == [s EXCEPT ![Len(s)] = x]

\* Only the last element is another one.
LEMMA ChangedLastIs ==
  ASSUME NEW S, NEW s \in Seq(S), s # <<>>, NEW x \in S
  PROVE  LET u == ChangedLast(s, x)
         IN  /\ u \in Seq(S) /\ u # <<>> /\ Len(u) = Len(s)
             /\ Last(u) = x /\ u[Len(s)] = x
             /\ \A i \in 1 .. Len(s) - 1 : u[i] = s[i]
  <1> DEFINE n == Len(s)
             u == ChangedLast(s, x)
  <1>1. n \in Nat /\ DOMAIN s = 1 .. n /\ n > 0 /\ s \in [1 .. n -> S]
    BY SeqFacts, SeqDef
  <1>2. u \in [1 .. n -> S] /\ u[n] = x /\ \A i \in 1 .. n - 1 : u[i] = s[i]
    <2>1. n \in 1 .. n /\ \A i \in 1 .. n - 1 : i \in 1 .. n /\ i # n
      <3> HIDE DEF n
      <3> QED BY <1>1
    <2>2. u = [s EXCEPT ![n] = x]
      BY DEF ChangedLast
    <2> HIDE DEF n, u
    <2> QED BY <1>1, <2>1, <2>2
  <1> HIDE DEF u
  <1>3. u \in Seq(S) /\ Len(u) = n
    <2>1. u \in [1 .. n -> S] /\ n \in Nat
      BY <1>1, <1>2
    <2> HIDE DEF n
    <2>2. u \in Seq(S)
      BY <2>1, SeqDef
    <2>3. Len(u) \in Nat /\ DOMAIN u = 1 .. Len(u)
      BY <2>2, LenProperties
    <2> DEFINE m == Len(u)
    <2>4. 1 .. n = 1 .. m /\ m \in Nat
      BY <2>1, <2>3
    <2> HIDE DEF m
    <2>5. m = n
      BY <2>1, <2>4
    <2> QED BY <2>2, <2>5 DEF m
  <1>4. u # <<>> /\ Last(u) = x
    <2>1. u # <<>>
      BY <1>1, <1>3, SeqFacts
    <2> QED BY <1>2, <1>3, <2>1 DEF Last
  <1> QED BY <1>2, <1>3, <1>4 DEF u

\* The last element of a sequence.
LEMMA LastIs ==
  ASSUME NEW S, NEW s \in Seq(S), s # <<>>
  PROVE  Last(s) \in S /\ Last(s) = s[Len(s)] /\ Len(s) \in 1 .. Len(s)
  <1>1. Len(s) \in 1 .. Len(s)
    BY SeqFacts
  <1> QED BY <1>1, SeqFacts DEF Last

\* What Coalesce changes.
Coalesced(u, e, c) ==
    /\ u \in Editor /\ Linked(u) /\ u.coalescer = c
    /\ u.text = e.text /\ u.selection = e.selection /\ u.done = e.done
    /\ e.group # <<>> => u.group = ChangedLast(e.group, c) /\ u.undo = e.undo
    /\ e.group = <<>> => u.group = <<>>
    /\ e.group = <<>> /\ e.undo # <<>> =>
          u.undo = ChangedLast(e.undo, ChangedLast(Last(e.undo), c))
    /\ e.group = <<>> /\ e.undo = <<>> => u.undo = <<>>

\* Coalesce changes the coalescer and the operation it is.
LEMMA CoalesceIs ==
  ASSUME NEW e \in Editor, NEW c \in TypingOperation
  PROVE  Coalesced(Coalesce(e, c), e, c)
  <1> DEFINE u == Coalesce(e, c)
             g == ChangedLast(e.group, c)
             h == ChangedLast(Last(e.undo), c)
             s == ChangedLast(e.undo, h)
  <1>1. e.group \in Seq(Operation) /\ e.undo \in Seq(Group) /\ c \in Operation
    BY TypingFacts DEF Editor
  <1>2. CASE e.group # <<>>
    <2>1. g \in Seq(Operation) /\ g # <<>> /\ Last(g) = c
      <3> DEFINE q == e.group
      <3>1. q \in Seq(Operation) /\ q # <<>>
        BY <1>1, <1>2
      <3> HIDE DEF q
      <3>2. /\ ChangedLast(q, c) \in Seq(Operation) /\ ChangedLast(q, c) # <<>>
            /\ Last(ChangedLast(q, c)) = c
        BY <1>1, <3>1, ChangedLastIs
      <3> QED BY <3>2 DEF q
    <2>2. u = [e EXCEPT !.coalescer = c, !.group = g]
      BY <1>2 DEF Coalesce, ChangedLast
    <2> HIDE DEF u, g
    <2>3. u \in Editor /\ u.coalescer = c /\ u.group = g /\ u.undo = e.undo
          /\ u.text = e.text /\ u.selection = e.selection /\ u.done = e.done
      BY <2>1, <2>2 DEF Editor
    <2> QED BY <1>2, <2>1, <2>3 DEF Coalesced, Linked, g, u
  <1>3. CASE e.group = <<>> /\ e.undo # <<>>
    <2>1. Last(e.undo) \in Seq(Operation) /\ Last(e.undo) # <<>>
      BY <1>1, <1>3, LastIs DEF Group
    <2>2. h \in Group /\ Last(h) = c
      BY <1>1, <2>1, ChangedLastIs DEF Group
    <2> HIDE DEF h
    <2>3. s \in Seq(Group) /\ s # <<>> /\ Last(s) = h
      <3> DEFINE q == e.undo
      <3>1. q \in Seq(Group) /\ q # <<>>
        BY <1>1, <1>3
      <3> HIDE DEF q
      <3>2. /\ ChangedLast(q, h) \in Seq(Group) /\ ChangedLast(q, h) # <<>>
            /\ Last(ChangedLast(q, h)) = h
        BY <2>2, <3>1, ChangedLastIs
      <3> QED BY <3>2 DEF q
    <2>4. u = [e EXCEPT !.coalescer = c, !.undo = s]
      <3>1. u = [e EXCEPT !.coalescer = c, !.undo[Len(e.undo)][Len(Last(e.undo))] = c]
        BY <1>3 DEF Coalesce
      <3>2. Last(e.undo) = e.undo[Len(e.undo)]
        BY <1>1, <1>3, LastIs
      <3>3. [e.undo EXCEPT ![Len(e.undo)][Len(Last(e.undo))] = c] = s
        BY <3>2 DEF ChangedLast, h
      <3> QED BY <3>1, <3>3
    <2> HIDE DEF u, s
    <2>5. u \in Editor /\ u.coalescer = c /\ u.group = e.group /\ u.undo = s
          /\ u.text = e.text /\ u.selection = e.selection /\ u.done = e.done
      BY <2>3, <2>4 DEF Editor
    <2> QED BY <1>3, <2>2, <2>3, <2>5 DEF Coalesced, Linked, h, s, u
  <1>4. CASE e.group = <<>> /\ e.undo = <<>>
    <2>1. u = [e EXCEPT !.coalescer = c]
      BY <1>4 DEF Coalesce
    <2> HIDE DEF u
    <2>2. u \in Editor /\ u.coalescer = c /\ u.group = e.group /\ u.undo = e.undo
          /\ u.text = e.text /\ u.selection = e.selection /\ u.done = e.done
      BY <2>1 DEF Editor
    <2> QED BY <1>4, <2>2 DEF Coalesced, Linked, u
  <1> QED BY <1>2, <1>3, <1>4

\* What beginning a string of typing changes.
Begun(u, e, c) ==
    /\ u \in Editor /\ Linked(u) /\ u.coalescer = c
    /\ u.text = e.text /\ u.selection = e.selection /\ u.done = e.done
    /\ u.undo = e.undo /\ u.group = Append(e.group, c) /\ u.group # <<>>

\* Beginning a string of typing registers it.
LEMMA BeginIs ==
  ASSUME NEW e \in Editor, NEW c \in TypingOperation
  PROVE  Begun(beginNewUndoCoalescing(e, c), e, c)
  <1> DEFINE u == beginNewUndoCoalescing(e, c)
             g == Append(e.group, c)
  <1>1. e.group \in Seq(Operation) /\ c \in Operation
    BY TypingFacts DEF Editor
  <1>2. g \in Seq(Operation) /\ g # <<>> /\ Last(g) = c
    <2>1. /\ Len(e.group) \in Nat
          /\ g \in Seq(Operation) /\ Len(g) = Len(e.group) + 1 /\ g[Len(e.group) + 1] = c
      BY <1>1, AppendProperties, LenProperties
    <2> HIDE DEF g
    <2>2. g # <<>>
      BY <2>1, SeqFacts
    <2> QED BY <2>1, <2>2 DEF Last
  <1>3. u = [e EXCEPT !.coalescer = c, !.group = g]
    BY DEF beginNewUndoCoalescing, Register
  <1> HIDE DEF u, g
  <1>4. u \in Editor /\ u.coalescer = c /\ u.group = g /\ u.undo = e.undo
        /\ u.text = e.text /\ u.selection = e.selection /\ u.done = e.done
    BY <1>2, <1>3 DEF Editor
  <1> QED BY <1>2, <1>4 DEF Begun, Linked, g, u

\* The string of typing ends.
LEMMA EndIs ==
  ASSUME NEW e \in Editor
  PROVE  LET u == endTypingUndoCoalescing(e)
         IN  /\ u \in Editor /\ Linked(u) /\ u.coalescer = None
             /\ u.text = e.text /\ u.selection = e.selection /\ u.done = e.done
             /\ u.undo = e.undo /\ u.group = e.group
  BY DEF endTypingUndoCoalescing, Editor, Linked

\* A string of typing that goes on.
LEMMA AppendedIs ==
  ASSUME NEW c \in TypingOperation, NEW length \in Nat
  PROVE  LET d == [c EXCEPT !.action = @ + length]
         IN  /\ d \in TypingOperation /\ d.action = c.action + length
             /\ d.anchor = c.anchor /\ d.deleted = c.deleted
  <1> DEFINE d == [c EXCEPT !.action = @ + length]
             x == c.action + length
  <1>1. /\ c.anchor \in Nat /\ c.action \in Nat /\ c.anchor <= c.action
    BY TypingFacts
  <1>2. x \in Nat /\ c.anchor <= x
    BY <1>1
  <1>3. c \in [kind : {"typing"}, anchor : Nat, action : Nat, deleted : Text]
    BY DEF TypingOperation
  <1>4. d = [c EXCEPT !.action = x]
    OBVIOUS
  <1> HIDE DEF x, d
  <1>5. /\ d \in [kind : {"typing"}, anchor : Nat, action : Nat, deleted : Text]
        /\ d.action = x /\ d.anchor = c.anchor /\ d.deleted = c.deleted
    BY <1>2, <1>3, <1>4
  <1> QED BY <1>2, <1>5 DEF TypingOperation, x, d

\* The part of a text between two positions.
LEMMA BytesBetween ==
  ASSUME NEW t \in Text, NEW from \in Nat, NEW to \in Nat, from <= to, to <= Len(t)
  PROVE  /\ BytesIn(t, Between(from, to)) \in Text
         /\ Len(BytesIn(t, Between(from, to))) = to - from
  <1> DEFINE r == Between(from, to)
  <1>1. r \in HFRange /\ MaxRange(r) = to /\ r.length = to - from
    BY BetweenIs
  <1> HIDE DEF r
  <1>2. <<>> \in Text
    BY DEF Text
  <1>3. BytesIn(t, r) \in Text /\ Len(BytesIn(t, r)) = r.length
    BY <1>1, <1>2, ReplacedIs
  <1> QED BY <1>1, <1>3 DEF r

\* Deleting in a string of typing.
LEMMA DeleteDataIs ==
  ASSUME NEW c \in TypingOperation, NEW t \in Text, c.action <= Len(t),
         NEW length \in Nat, length <= c.action
  PROVE  LET d == deleteData(c, length, t)
             point == c.action - length
         IN  /\ d \in TypingOperation /\ d.action = point /\ d.anchor <= point
             /\ \/ /\ c.anchor <= point
                   /\ d.anchor = c.anchor /\ d.deleted = c.deleted
                \/ /\ point < c.anchor /\ d.anchor = point
                   /\ d.deleted = BytesIn(t, Between(point, c.anchor)) \o c.deleted
  <1> DEFINE d == deleteData(c, length, t)
             point == c.action - length
             b == BytesIn(t, Between(point, c.anchor))
             more == b \o c.deleted
  <1>1. /\ c.anchor \in Nat /\ c.action \in Nat /\ c.anchor <= c.action
        /\ c.deleted \in Text /\ Len(t) \in Nat
    BY TypingFacts, LenProperties DEF Text
  <1>2. point \in Nat /\ point <= c.action
    BY <1>1
  <1>3. c \in [kind : {"typing"}, anchor : Nat, action : Nat, deleted : Text]
    BY DEF TypingOperation
  <1>4. d = IF point >= c.anchor THEN [c EXCEPT !.action = point]
            ELSE [c EXCEPT !.anchor = point, !.action = point, !.deleted = more]
    BY DEF deleteData
  <1> HIDE DEF point, d
  <1>5. CASE c.anchor <= point
    <2>1. d = [c EXCEPT !.action = point]
      BY <1>4, <1>5
    <2>2. /\ d \in [kind : {"typing"}, anchor : Nat, action : Nat, deleted : Text]
          /\ d.action = point /\ d.anchor = c.anchor /\ d.deleted = c.deleted
      BY <1>2, <1>3, <2>1
    <2> QED BY <1>5, <2>2 DEF TypingOperation, d, point
  <1>6. CASE point < c.anchor
    <2>1. d = [c EXCEPT !.anchor = point, !.action = point, !.deleted = more]
      <3>1. ~ (point >= c.anchor)
        BY <1>1, <1>2, <1>6
      <3> QED BY <1>4, <3>1
    <2>2. b \in Text
      <3>1. c.anchor <= Len(t) /\ point <= c.anchor
        BY <1>1, <1>2, <1>6
      <3> QED BY <1>1, <1>2, <3>1, BytesBetween
    <2> HIDE DEF b
    <2>3. more \in Text
      BY <1>1, <2>2, ConcatProperties DEF Text
    <2> HIDE DEF more
    <2>4. /\ d \in [kind : {"typing"}, anchor : Nat, action : Nat, deleted : Text]
          /\ d.action = point /\ d.anchor = point /\ d.deleted = more
      BY <1>2, <1>3, <2>1, <2>3
    <2>5. point <= point
      BY <1>2
    <2>6. d \in TypingOperation
      BY <2>4, <2>5 DEF TypingOperation
    <2>7. d.deleted = BytesIn(t, Between(point, c.anchor)) \o c.deleted
      BY <2>4 DEF more, b
    <2> QED BY <1>6, <2>4, <2>5, <2>6, <2>7 DEF d, point
  <1>7. c.anchor <= point \/ point < c.anchor
    BY <1>1, <1>2
  <1> QED BY <1>5, <1>6, <1>7

\* Overwriting in a string of typing.
LEMMA OverwriteDataIs ==
  ASSUME NEW c \in TypingOperation, NEW t \in Text, NEW r \in HFRange,
         MaxRange(r) <= Len(t), c.action <= MaxRange(r)
  PROVE  LET d == overwriteData(c, r, t)
         IN  /\ d \in TypingOperation /\ d.action = MaxRange(r) /\ d.anchor = c.anchor
             /\ Len(d.deleted) = Len(c.deleted) + (MaxRange(r) - c.action)
             /\ \/ MaxRange(r) = c.action /\ d.deleted = c.deleted
                \/ /\ c.action < MaxRange(r)
                   /\ d.deleted = c.deleted \o BytesIn(t, Between(c.action, MaxRange(r)))
  <1> DEFINE d == overwriteData(c, r, t)
             m == MaxRange(r)
             b == BytesIn(t, Between(c.action, m))
             more == c.deleted \o b
  <1>1. /\ c.anchor \in Nat /\ c.action \in Nat /\ c.anchor <= c.action
        /\ c.deleted \in Text /\ Len(c.deleted) \in Nat /\ m \in Nat
    BY TypingFacts, RangeFacts
  <1>2. c \in [kind : {"typing"}, anchor : Nat, action : Nat, deleted : Text]
    BY DEF TypingOperation
  <1>3. /\ m > c.action => d = [c EXCEPT !.action = m, !.deleted = more]
        /\ ~ (m > c.action) => d = [c EXCEPT !.action = m]
    BY <1>2 DEF overwriteData
  <1>4. b \in Text /\ Len(b) = m - c.action
    BY <1>1, BytesBetween
  <1> HIDE DEF b, d
  <1>5. more \in Text /\ Len(more) = Len(c.deleted) + Len(b)
    BY <1>1, <1>4, ConcatProperties DEF Text
  <1> HIDE DEF more, m
  <1>6. CASE m > c.action
    <2>1. /\ d \in [kind : {"typing"}, anchor : Nat, action : Nat, deleted : Text]
          /\ d.action = m /\ d.anchor = c.anchor /\ d.deleted = more
      BY <1>1, <1>2, <1>3, <1>5, <1>6
    <2>2. c.anchor <= m
      BY <1>1, <1>6
    <2>3. c.action < m
      BY <1>1, <1>6
    <2> QED BY <1>4, <1>5, <2>1, <2>2, <2>3 DEF TypingOperation, d, more, b, m
  <1>7. CASE m = c.action
    <2>1. ~ (m > c.action)
      BY <1>1, <1>7
    <2>2. /\ d \in [kind : {"typing"}, anchor : Nat, action : Nat, deleted : Text]
          /\ d.action = m /\ d.anchor = c.anchor /\ d.deleted = c.deleted
      BY <1>1, <1>2, <1>3, <2>1
    <2>3. c.anchor <= m /\ Len(c.deleted) + (m - c.action) = Len(c.deleted)
      BY <1>1, <1>7
    <2> QED BY <1>7, <2>2, <2>3 DEF TypingOperation, d, m
  <1>8. m > c.action \/ m = c.action
    BY <1>1 DEF m
  <1> QED BY <1>6, <1>7, <1>8

\* What an operation of the coalescer leaves: it ends at n and begins at a or
\* before.
IsTyped(u, e, a, n) ==
    /\ u \in Editor /\ Linked(u)
    /\ u.text = e.text /\ u.selection = e.selection /\ u.done = e.done
    /\ u.coalescer # None /\ u.coalescer \in TypingOperation
    /\ u.coalescer.action = n /\ u.coalescer.anchor <= a
    /\ u.group = <<>> => e.group = <<>> /\ e.coalescer # None
    /\ Len(u.undo) = Len(e.undo)

\* When a string of typing goes on.
LEMMA CoalescedTyped ==
  ASSUME NEW e \in Editor, e.coalescer # None, NEW c \in TypingOperation,
         NEW a, c.anchor <= a
  PROVE  IsTyped(Coalesce(e, c), e, a, c.action)
  <1> DEFINE u == Coalesce(e, c)
  <1>1. Coalesced(u, e, c)
    BY CoalesceIs
  <1>2. e.group \in Seq(Operation) /\ e.undo \in Seq(Group) /\ c \in Operation /\ c # None
    BY TypingFacts DEF Editor
  <1> HIDE DEF u
  <1>3. u.group = <<>> => e.group = <<>>
    <2>1. e.group # <<>> => u.group = ChangedLast(e.group, c)
      BY <1>1 DEF Coalesced
    <2>2. e.group # <<>> => ChangedLast(e.group, c) # <<>>
      BY <1>2, ChangedLastIs
    <2> QED BY <2>1, <2>2
  <1>4. Len(u.undo) = Len(e.undo)
    <2>1. CASE e.group # <<>> \/ e.undo = <<>>
      BY <1>1, <2>1 DEF Coalesced
    <2>2. CASE e.group = <<>> /\ e.undo # <<>>
      <3> DEFINE h == ChangedLast(Last(e.undo), c)
      <3>1. Last(e.undo) \in Seq(Operation) /\ Last(e.undo) # <<>>
        BY <1>2, <2>2, LastIs DEF Group
      <3>2. h \in Group
        BY <1>2, <3>1, ChangedLastIs DEF Group
      <3>3. u.undo = ChangedLast(e.undo, h)
        BY <1>1, <2>2 DEF Coalesced
      <3> HIDE DEF h
      <3> QED BY <1>2, <2>2, <3>2, <3>3, ChangedLastIs
    <2> QED BY <2>1, <2>2
  <1> QED BY <1>1, <1>2, <1>3, <1>4 DEF IsTyped, Coalesced, u

\* When one begins.
LEMMA BegunTyped ==
  ASSUME NEW e \in Editor, NEW c \in TypingOperation, NEW a, c.anchor <= a
  PROVE  IsTyped(beginNewUndoCoalescing(e, c), e, a, c.action)
  <1> DEFINE u == beginNewUndoCoalescing(e, c)
  <1>1. Begun(u, e, c)
    BY BeginIs
  <1> HIDE DEF u
  <1> QED BY <1>1, TypingFacts DEF IsTyped, Begun, u

\* Replacing a range continues a string of typing or begins one.
LEMMA ReplacingTyped ==
  ASSUME NEW e \in Editor, NEW r \in HFRange, MaxRange(r) <= Len(e.text),
         NEW length \in Nat, length > 0 \/ r.length > 0
  PROVE  IsTyped(CoalesceReplacing(e, r, length), e, r.location, r.location + length)
  <1> DEFINE c == e.coalescer
             t == e.text
             a == r.location
             n == r.length
             fresh == Typing(a, a + length, BytesIn(t, r))
  <1>1. t \in Text /\ (c # None => c \in TypingOperation)
    BY DEF Editor
  <1>2. /\ a \in Nat /\ n \in Nat /\ MaxRange(r) = a + n
    BY RangeFacts
  <1>3. c # None => /\ c.anchor \in Nat /\ c.action \in Nat /\ c.anchor <= c.action
    BY <1>1, TypingFacts
  <1> HIDE DEF c, t
  <1>4. CASE length > 0 /\ n = 0 /\ canCoalesceAppend(c, r)
    <2> DEFINE d == [c EXCEPT !.action = @ + length]
    <2>1. c # None /\ c.action = a
      BY <1>4 DEF canCoalesceAppend
    <2>2. CoalesceReplacing(e, r, length) = Coalesce(e, d)
      BY <1>4, <2>1 DEF CoalesceReplacing, c
    <2>3. d \in TypingOperation /\ d.action = a + length /\ d.anchor <= a
      <3>1. c \in TypingOperation
        BY <1>1, <2>1
      <3>2. d \in TypingOperation /\ d.action = c.action + length /\ d.anchor = c.anchor
        BY <3>1, AppendedIs
      <3> QED BY <1>3, <2>1, <3>2
    <2> HIDE DEF d, a
    <2>4. IsTyped(Coalesce(e, d), e, a, d.action)
      BY <2>1, <2>3, CoalescedTyped DEF c
    <2> QED BY <2>2, <2>3, <2>4 DEF a
  <1>5. CASE ~ (length > 0 /\ n = 0 /\ canCoalesceAppend(c, r)) /\ length = 0 /\ canCoalesceDelete(c, r)
    <2> DEFINE d == deleteData(c, n, t)
    <2>1. c # None /\ c.action = a + n
      BY <1>2, <1>5 DEF canCoalesceDelete
    <2>2. ~ (length = 0 /\ n = 0)
      BY <1>2, <1>5
    <2>3. CoalesceReplacing(e, r, length) = Coalesce(e, d)
      BY <1>5, <2>2 DEF CoalesceReplacing, c, t
    <2>4. c \in TypingOperation /\ c.action <= Len(t) /\ n <= c.action /\ c.action - n = a
      BY <1>1, <1>2, <1>3, <2>1 DEF t
    <2> HIDE DEF a, n
    <2>5. d \in TypingOperation /\ d.action = a /\ d.anchor <= a
      BY <1>1, <1>2, <2>4, DeleteDataIs
    <2> HIDE DEF d
    <2>6. IsTyped(Coalesce(e, d), e, a, d.action)
      BY <2>1, <2>5, CoalescedTyped DEF c
    <2>7. a + length = a
      BY <1>2, <1>5
    <2> QED BY <2>3, <2>5, <2>6, <2>7 DEF a
  <1>6. CASE /\ ~ (length > 0 /\ n = 0 /\ canCoalesceAppend(c, r))
             /\ ~ (length = 0 /\ canCoalesceDelete(c, r))
    <2>1. ~ (length = 0 /\ n = 0)
      BY <1>2
    <2>2. CoalesceReplacing(e, r, length) = beginNewUndoCoalescing(e, fresh)
      BY <1>6, <2>1 DEF CoalesceReplacing, c, t
    <2>3. BytesIn(t, r) \in Text
      <3>1. <<>> \in Text
        BY DEF Text
      <3> QED BY <1>1, <3>1, ReplacedIs DEF t
    <2>4. a + length \in Nat /\ a <= a + length /\ a <= a
      BY <1>2
    <2> HIDE DEF a
    <2>5. fresh \in TypingOperation /\ fresh.action = a + length /\ fresh.anchor = a
      BY <1>2, <2>3, <2>4, TypingIs
    <2> HIDE DEF fresh
    <2>6. IsTyped(beginNewUndoCoalescing(e, fresh), e, a, fresh.action)
      BY <2>4, <2>5, BegunTyped
    <2> QED BY <2>2, <2>5, <2>6 DEF a
  <1> QED BY <1>4, <1>5, <1>6

\* Overwriting continues a string of typing or begins one.  The string is not
\* empty, and it has saved what it covers if it did before.
LEMMA OverwritingTyped ==
  ASSUME NEW e \in Editor, NEW r \in HFRange, MaxRange(r) <= Len(e.text), r.length > 0,
         e.coalescer # None => e.coalescer.anchor < e.coalescer.action
  PROVE  LET u == CoalesceOverwriting(e, r)
         IN  /\ IsTyped(u, e, r.location, MaxRange(r))
             /\ \/ e.coalescer = None
                \/ Len(e.coalescer.deleted) = e.coalescer.action - e.coalescer.anchor
                => Len(u.coalescer.deleted) = u.coalescer.action - u.coalescer.anchor
  <1> DEFINE c == e.coalescer
             t == e.text
             a == r.location
             m == MaxRange(r)
             u == CoalesceOverwriting(e, r)
             fresh == Typing(a, m, BytesIn(t, r))
  <1>1. t \in Text /\ (c # None => c \in TypingOperation)
    BY DEF Editor
  <1>2. /\ a \in Nat /\ r.length \in Nat /\ m \in Nat /\ m = a + r.length
    BY RangeFacts
  <1>3. c # None => /\ c.anchor \in Nat /\ c.action \in Nat /\ c.anchor < c.action
                    /\ Len(c.deleted) \in Nat
    BY <1>1, TypingFacts
  <1>4. CASE canCoalesceOverwrite(c, r)
    <2> DEFINE d == overwriteData(c, r, t)
    <2>1. c # None /\ (a = c.action \/ a + 1 = c.action)
      BY <1>4 DEF canCoalesceOverwrite
    <2>2. u = Coalesce(e, d)
      BY <1>4 DEF CoalesceOverwriting
    <2> HIDE DEF a, m, c, t
    <2>3. c.action <= m /\ c.anchor <= a
      BY <1>2, <1>3, <2>1
    <2>4. c \in TypingOperation /\ m <= Len(t)
      BY <1>1, <2>1 DEF m, t
    <2>5. /\ d \in TypingOperation /\ d.action = m /\ d.anchor = c.anchor
          /\ Len(d.deleted) = Len(c.deleted) + (m - c.action)
      BY <1>1, <2>3, <2>4, OverwriteDataIs DEF m
    <2> HIDE DEF d
    <2>6. IsTyped(Coalesce(e, d), e, a, d.action)
      BY <2>1, <2>3, <2>5, CoalescedTyped DEF c
    <2>7. u.coalescer = d
      BY <2>2, <2>5, CoalesceIs DEF Coalesced
    <2>8. Len(c.deleted) = c.action - c.anchor => Len(d.deleted) = d.action - d.anchor
      BY <1>2, <1>3, <2>1, <2>5
    <2> HIDE DEF u
    <2> QED BY <2>1, <2>2, <2>5, <2>6, <2>7, <2>8 DEF a, m, c, u
  <1>5. CASE ~ canCoalesceOverwrite(c, r)
    <2>1. u = beginNewUndoCoalescing(e, fresh)
      BY <1>5 DEF CoalesceOverwriting
    <2>2. BytesIn(t, r) \in Text /\ Len(BytesIn(t, r)) = r.length
      <3>1. <<>> \in Text
        BY DEF Text
      <3> QED BY <1>1, <3>1, ReplacedIs DEF t
    <2> HIDE DEF a, m, u
    <2>3. a <= m /\ a <= a /\ m - a = r.length
      BY <1>2
    <2>4. /\ fresh \in TypingOperation /\ fresh.action = m /\ fresh.anchor = a
          /\ fresh.deleted = BytesIn(t, r)
      BY <1>2, <2>2, <2>3, TypingIs
    <2> HIDE DEF fresh
    <2>5. IsTyped(beginNewUndoCoalescing(e, fresh), e, a, fresh.action)
      BY <2>3, <2>4, BegunTyped
    <2>6. u.coalescer = fresh
      BY <2>1, <2>4, BeginIs DEF Begun
    <2> QED BY <2>1, <2>2, <2>3, <2>4, <2>5, <2>6 DEF a, m, u
  <1> QED BY <1>4, <1>5

\* The ranges that are not empty.
LEMMA NotEmptyIs ==
  ASSUME NEW rs \in Seq(HFRange), Ordered(rs), NEW n, EndBy(rs, n)
  PROVE  LET q == NotEmpty(rs)
         IN  /\ q \in Seq(HFRange) /\ Ordered(q) /\ EndBy(q, n)
             /\ \A k \in DOMAIN q : q[k].length > 0 /\ \E i \in DOMAIN rs : q[k] = rs[i]
             /\ (\E i \in DOMAIN rs : rs[i].length > 0) => q # <<>>
  <1> DEFINE q == NotEmpty(rs)
             P == Filled(rs)
  <1>1. q = Kept(rs, P)
    BY DEF NotEmpty
  <1>2. q \in Seq(HFRange) /\ Ordered(q) /\ EndBy(q, n)
    BY <1>1, KeptOrdered
  <1>3. \E at : KeptAt(q, rs, P, at)
    BY <1>1, KeptIs
  <1> HIDE DEF q
  <1>4. PICK at : KeptAt(q, rs, P, at)
    BY <1>3
  <1>5. DOMAIN q = 1 .. Len(q) /\ DOMAIN rs = 1 .. Len(rs) /\ Len(q) \in Nat
    BY <1>2, SeqFacts
  <1>6. \A k \in DOMAIN q : q[k].length > 0 /\ \E i \in DOMAIN rs : q[k] = rs[i]
    <2> TAKE k \in DOMAIN q
    <2>1. at[k] \in DOMAIN rs /\ at[k] \in P /\ q[k] = rs[at[k]]
      BY <1>4, <1>5 DEF KeptAt
    <2>2. rs[at[k]].length > 0
      BY <2>1 DEF Filled
    <2> QED BY <2>1, <2>2
  <1>7. (\E i \in DOMAIN rs : rs[i].length > 0) => q # <<>>
    <2> SUFFICES ASSUME NEW i \in DOMAIN rs, rs[i].length > 0 PROVE q # <<>>
      OBVIOUS
    <2>1. i \in P
      BY DEF Filled
    <2>2. \E k \in 1 .. Len(q) : at[k] = i
      BY <1>4, <2>1 DEF KeptAt
    <2>3. Len(q) > 0
      BY <1>5, <2>2
    <2> QED BY <1>2, <2>3, SeqFacts
  <1> QED BY <1>2, <1>6, <1>7 DEF q

\* The operation that puts deleted ranges back.
PutsBack(condemned, t) ==
    Inserting([i \in DOMAIN condemned |-> BytesIn(t, condemned[i])],
              [i \in DOMAIN condemned |-> RangeMake(condemned[i].location, 0)],
              "Result")

\* It is an operation whose arrays lie behind one another.
LEMMA PutsBackIs ==
  ASSUME NEW t \in Text, NEW rs \in Seq(HFRange), Ordered(rs), EndBy(rs, Len(t)), rs # <<>>,
         \A k \in DOMAIN rs : rs[k].length > 0
  PROVE  PutsBack(rs, t) \in RangesOperation
  <1> DEFINE n == Len(rs)
             arrays == [i \in DOMAIN rs |-> BytesIn(t, rs[i])]
             ranges == [i \in DOMAIN rs |-> RangeMake(rs[i].location, 0)]
             o == PutsBack(rs, t)
  <1>1. n \in Nat /\ DOMAIN rs = 1 .. n /\ (\A i \in 1 .. n : rs[i] \in HFRange) /\ n > 0
    BY SeqFacts
  <1>2. \A i \in 1 .. n : /\ arrays[i] \in Text /\ Len(arrays[i]) = rs[i].length
                          /\ ranges[i] \in HFRange /\ ranges[i].location = rs[i].location
    <2> TAKE i \in 1 .. n
    <2>1. rs[i] \in HFRange /\ MaxRange(rs[i]) <= Len(t) /\ <<>> \in Text
      BY <1>1 DEF EndBy, Text
    <2>2. BytesIn(t, rs[i]) \in Text /\ Len(BytesIn(t, rs[i])) = rs[i].length
      BY <2>1, ReplacedIs
    <2>3. rs[i].location \in Nat
      BY <2>1, RangeFacts
    <2>4. RangeMake(rs[i].location, 0) \in HFRange /\ RangeMake(rs[i].location, 0).location = rs[i].location
      BY <2>3, RangeMakeIs
    <2> QED BY <1>1, <2>2, <2>4
  <1>3. arrays \in [1 .. n -> Text] /\ ranges \in [1 .. n -> HFRange]
    <2>1. /\ arrays = [i \in 1 .. n |-> arrays[i]] /\ ranges = [i \in 1 .. n |-> ranges[i]]
      BY <1>1
    <2> HIDE DEF arrays, ranges, n
    <2> QED BY <1>2, <2>1
  <1>4. o = [kind |-> "ranges", arrays |-> arrays, ranges |-> ranges, select |-> "Result"]
    BY DEF PutsBack, Inserting
  <1> HIDE DEF arrays, ranges, o
  <1>5. arrays \in Seq(Text) /\ ranges \in Seq(HFRange) /\ Len(arrays) = n /\ Len(ranges) = n
    <2>1. n \in Nat
      BY <1>1
    <2> HIDE DEF n
    <2>2. arrays \in Seq(Text) /\ ranges \in Seq(HFRange)
      BY <1>3, <2>1, SeqDef
    <2>3. DOMAIN arrays = 1 .. n /\ DOMAIN ranges = 1 .. n
      BY <1>3
    <2> DEFINE a == Len(arrays)
               b == Len(ranges)
    <2>4. a \in Nat /\ b \in Nat /\ 1 .. a = 1 .. n /\ 1 .. b = 1 .. n
      BY <2>2, <2>3, LenProperties
    <2> HIDE DEF a, b
    <2>5. a = n /\ b = n
      BY <2>1, <2>4
    <2> QED BY <2>2, <2>5 DEF a, b
  <1>6. DOMAIN ranges = 1 .. n /\ ranges # <<>>
    <2>1. ranges # <<>> <=> n > 0
      BY <1>5, SeqFacts
    <2> QED BY <1>1, <1>3, <2>1
  <1>7. Spread(o)
    <2>1. o.arrays = arrays /\ o.ranges = ranges
      BY <1>4
    <2>2. \A i \in 1 .. n : Len(arrays[i]) > 0
      BY <1>1, <1>2
    <2>3. \A i, j \in 1 .. n : i < j => ranges[i].location + Len(arrays[i]) <= ranges[j].location
      <3> TAKE i, j \in 1 .. n
      <3> HAVE i < j
      <3>1. MaxRange(rs[i]) <= rs[j].location
        BY <1>1 DEF Ordered
      <3>2. MaxRange(rs[i]) = rs[i].location + rs[i].length
        BY <1>1, RangeFacts
      <3> QED BY <1>2, <3>1, <3>2
    <2> QED BY <1>6, <2>1, <2>2, <2>3 DEF Spread
  <1>8. o \in [kind : {"ranges"}, arrays : Seq(Text), ranges : Seq(HFRange),
               select : {"Result", "AfterResult", "Preserve"}]
    BY <1>4, <1>5
  <1>9. Len(o.arrays) = Len(o.ranges) /\ o.ranges # <<>>
    BY <1>4, <1>5, <1>6
  <1> QED BY <1>7, <1>8, <1>9 DEF RangesOperation, o

\* Registering deleted ranges.
LEMMA CondemnedIs ==
  ASSUME NEW e \in Editor, NEW rs \in Seq(HFRange), Ordered(rs), EndBy(rs, Len(e.text))
  PROVE  LET u == RegisterCondemnedRanges(e, rs)
         IN  /\ u \in Editor
             /\ u.text = e.text /\ u.selection = e.selection /\ u.done = e.done
             /\ u.coalescer = e.coalescer /\ u.undo = e.undo
             /\ NotEmpty(rs) = <<>> => u = e
             /\ NotEmpty(rs) # <<>> =>
                   /\ PutsBack(NotEmpty(rs), e.text) \in RangesOperation
                   /\ u.group = Append(e.group, PutsBack(NotEmpty(rs), e.text))
                   /\ u.group # <<>>
  <1> DEFINE u == RegisterCondemnedRanges(e, rs)
             q == NotEmpty(rs)
             o == PutsBack(q, e.text)
  <1>1. /\ q \in Seq(HFRange) /\ Ordered(q) /\ EndBy(q, Len(e.text))
        /\ \A k \in DOMAIN q : q[k].length > 0
    BY NotEmptyIs
  <1>2. u = IF q = <<>> THEN e ELSE Register(e, o)
    BY DEF RegisterCondemnedRanges, PutsBack
  <1>3. e.text \in Text /\ e.group \in Seq(Operation)
    BY DEF Editor
  <1> HIDE DEF q, u
  <1>4. q # <<>> => o \in RangesOperation
    BY <1>1, <1>3, PutsBackIs
  <1> HIDE DEF o
  <1>5. CASE q = <<>>
    BY <1>2, <1>5 DEF q, u
  <1>6. CASE q # <<>>
    <2> DEFINE g == Append(e.group, o)
    <2>1. o \in Operation
      BY <1>4, <1>6 DEF Operation
    <2>2. g \in Seq(Operation) /\ g # <<>>
      <3>1. /\ Len(e.group) \in Nat
            /\ g \in Seq(Operation) /\ Len(g) = Len(e.group) + 1
        BY <1>3, <2>1, AppendProperties, LenProperties
      <3> HIDE DEF g
      <3> QED BY <3>1, SeqFacts
    <2>3. u = [e EXCEPT !.group = g]
      BY <1>2, <1>6 DEF Register
    <2> HIDE DEF g
    <2>4. /\ u \in Editor /\ u.group = g
          /\ u.text = e.text /\ u.selection = e.selection /\ u.done = e.done
          /\ u.coalescer = e.coalescer /\ u.undo = e.undo
      BY <2>2, <2>3 DEF Editor
    <2> QED BY <1>4, <1>6, <2>2, <2>4 DEF g, o, q, u
  <1> QED BY <1>5, <1>6

\* The states while arrays are inserted.
InsertState == [text : Text, arrays : Seq(Text), ranges : Seq(HFRange), done : BOOLEAN]

InsertBase(t) == [text |-> t, arrays |-> <<>>, ranges |-> <<>>, done |-> TRUE]

\* One array is inserted.
LEMMA InsertArrayIs ==
  ASSUME NEW s \in InsertState, NEW r \in HFRange, NEW b \in Text
  PROVE  LET u == InsertArray(s, r, b)
             m == RangeMake(r.location, Len(b))
         IN  /\ u \in InsertState
             /\ u.done <=> s.done /\ MaxRange(r) <= Len(s.text)
             /\ u.done => /\ u.text = Replaced(s.text, r, b)
                          /\ u.arrays = Append(s.arrays, BytesIn(s.text, r))
                          /\ u.ranges = Append(s.ranges, m)
                          /\ m \in HFRange /\ MaxRange(m) <= Len(u.text)
  <1> DEFINE u == InsertArray(s, r, b)
             m == RangeMake(r.location, Len(b))
             t == s.text
             x == Replaced(t, r, b)
             y == Append(s.arrays, BytesIn(t, r))
             z == Append(s.ranges, m)
  <1>1. t \in Text /\ s.arrays \in Seq(Text) /\ s.ranges \in Seq(HFRange) /\ s.done \in BOOLEAN
    BY DEF InsertState
  <1>2. r.location \in Nat /\ Len(b) \in Nat /\ (Within(r, t) <=> MaxRange(r) <= Len(t))
    BY RangeFacts, LenProperties, WithinIs DEF Text
  <1>3. m \in HFRange
    BY <1>2, RangeMakeIs
  <1>4. /\ ~ s.done \/ ~ Within(r, t) => u = [s EXCEPT !.done = FALSE]
        /\ s.done /\ Within(r, t) => u = [text |-> x, arrays |-> y, ranges |-> z, done |-> TRUE]
    BY DEF InsertArray
  <1> HIDE DEF u, m, t
  <1>5. CASE ~ s.done \/ ~ Within(r, t)
    <2>1. u \in InsertState /\ ~ u.done
      BY <1>1, <1>4, <1>5 DEF InsertState
    <2> QED BY <1>2, <1>5, <2>1 DEF u, t
  <1>6. CASE s.done /\ Within(r, t)
    <2>1. MaxRange(r) <= Len(t)
      BY <1>2, <1>6
    <2>2. x \in Text /\ BytesIn(t, r) \in Text
      BY <1>1, <2>1, ReplacedIs
    <2>3. MaxRange(m) <= Len(x)
      BY <1>1, <2>1, ReplacedBack DEF m
    <2>4. y \in Seq(Text) /\ z \in Seq(HFRange)
      BY <1>1, <1>3, <2>2, AppendProperties
    <2>5. u = [text |-> x, arrays |-> y, ranges |-> z, done |-> TRUE]
      BY <1>4, <1>6
    <2> HIDE DEF x, y, z
    <2>6. /\ u \in InsertState /\ u.done
          /\ u.text = x /\ u.arrays = y /\ u.ranges = z
      BY <2>2, <2>4, <2>5 DEF InsertState
    <2> QED BY <1>3, <1>6, <2>1, <2>3, <2>6 DEF x, y, z, t, m, u
  <1> QED BY <1>1, <1>5, <1>6

\* The states while the arrays of an operation are inserted.
Inserts(f, t, o) ==
    /\ f \in [0 .. Len(o.ranges) -> InsertState] /\ f[0] = InsertBase(t)
    /\ \A i \in 1 .. Len(o.ranges) : f[i] = InsertArray(f[i - 1], o.ranges[i], o.arrays[i])

\* InsertArrays is the last of them.
LEMMA InsertedBy ==
  ASSUME NEW t \in Text, NEW o \in RangesOperation
  PROVE  \E f : Inserts(f, t, o) /\ InsertArrays(t, o) = f[Len(o.ranges)]
  <1> DEFINE rs == o.ranges
             bs == o.arrays
             n == Len(rs)
             inserted[i \in 0 .. n] ==
                IF i = 0
                THEN [text |-> t, arrays |-> <<>>, ranges |-> <<>>, done |-> TRUE]
                ELSE InsertArray(inserted[i - 1], rs[i], bs[i])
             Equation(f) ==
                f = [i \in 0 .. n |->
                        IF i = 0
                        THEN [text |-> t, arrays |-> <<>>, ranges |-> <<>>, done |-> TRUE]
                        ELSE InsertArray(f[i - 1], rs[i], bs[i])]
  <1>1. rs \in Seq(HFRange) /\ bs \in Seq(Text) /\ Len(bs) = n
    BY DEF RangesOperation
  <1>2. n \in Nat /\ \A i \in 1 .. n : rs[i] \in HFRange /\ bs[i] \in Text
    BY <1>1, SeqFacts
  <1>3. InsertArrays(t, o) = inserted[n]
    BY DEF InsertArrays
  <1>4. inserted = CHOOSE f : Equation(f)
    OBVIOUS
  <1>5. InsertBase(t) \in InsertState
    BY DEF InsertBase, InsertState
  <1> DEFINE step == [i \in 1 .. n |-> [s \in InsertState |-> InsertArray(s, rs[i], bs[i])]]
  <1>6. /\ step \in [1 .. n -> [InsertState -> InsertState]]
        /\ \A i \in 1 .. n : \A s \in InsertState : step[i][s] = InsertArray(s, rs[i], bs[i])
    <2>1. \A i \in 1 .. n : \A s \in InsertState : InsertArray(s, rs[i], bs[i]) \in InsertState
      BY <1>2, InsertArrayIs
    <2> HIDE DEF n, rs, bs
    <2> QED BY <2>1
  <1> HIDE DEF inserted, step, Equation
  <1>7. PICK f : Iterated(f, n, InsertState, InsertBase(t), step)
    <2>1. n \in Nat
      BY <1>2
    <2> HIDE DEF n
    <2> QED BY <1>5, <1>6, <2>1, Iterates
  <1>8. /\ f \in [0 .. n -> InsertState] /\ f[0] = InsertBase(t)
        /\ \A i \in 1 .. n : f[i] = step[i][f[i - 1]]
    BY <1>7 DEF Iterated
  <1>9. \A i \in 1 .. n : f[i] = InsertArray(f[i - 1], rs[i], bs[i])
    <2> TAKE i \in 1 .. n
    <2>1. i - 1 \in 0 .. n
      BY <1>2
    <2>2. f[i - 1] \in InsertState
      BY <1>8, <2>1
    <2> HIDE DEF n, rs, bs
    <2> QED BY <1>6, <1>8, <2>2
  <1>10. Inserts(f, t, o)
    BY <1>8, <1>9 DEF Inserts
  <1>11. Equation(f)
    <2>1. f = [i \in 0 .. n |-> f[i]]
      BY <1>8
    <2>2. \A i \in 0 .. n : i # 0 => i \in 1 .. n
      BY <1>2
    <2>3. \A i \in 0 .. n : f[i] = IF i = 0
                        THEN [text |-> t, arrays |-> <<>>, ranges |-> <<>>, done |-> TRUE]
                        ELSE InsertArray(f[i - 1], rs[i], bs[i])
      <3> HIDE DEF n, rs, bs
      <3> QED BY <1>8, <1>9, <2>2 DEF InsertBase
    <2> HIDE DEF n, rs, bs
    <2> QED BY <2>1, <2>3 DEF Equation
  <1>12. Equation(inserted)
    BY <1>4, <1>11
  <1>13. \A i \in 0 .. n : inserted[i] = f[i]
    <2>1. inserted[0] = f[0]
      <3>1. 0 \in 0 .. n
        BY <1>2
      <3> HIDE DEF n, rs, bs
      <3> QED BY <1>11, <1>12, <3>1 DEF Equation
    <2>2. \A i \in 1 .. n : inserted[i - 1] = f[i - 1] => inserted[i] = f[i]
      <3>1. \A i \in 1 .. n : i \in 0 .. n /\ i # 0
        BY <1>2
      <3> HIDE DEF n, rs, bs
      <3> QED BY <1>11, <1>12, <3>1 DEF Equation
    <2>3. n \in Nat
      BY <1>2
    <2> HIDE DEF n
    <2> QED BY <2>1, <2>2, <2>3, SameUpTo
  <1>14. n \in 0 .. n
    BY <1>2
  <1> QED BY <1>3, <1>10, <1>13, <1>14

\* What the inserted arrays take in the text: ranges that begin where theirs
\* did.
LEMMA InsertedIs ==
  ASSUME NEW t \in Text, NEW o \in RangesOperation
  PROVE  LET s == InsertArrays(t, o)
             n == Len(o.ranges)
         IN  /\ s \in InsertState
             /\ s.done =>
                  /\ Len(s.arrays) = n /\ Len(s.ranges) = n /\ s.ranges # <<>>
                  /\ \A k \in 1 .. n :
                        s.ranges[k] = RangeMake(o.ranges[k].location, Len(o.arrays[k]))
                  /\ MaxRange(s.ranges[n]) <= Len(s.text)
  <1> DEFINE rs == o.ranges
             bs == o.arrays
             n == Len(rs)
             R(k) == RangeMake(rs[k].location, Len(bs[k]))
             Good(s, i) ==
                s.done => /\ Len(s.arrays) = i /\ Len(s.ranges) = i
                          /\ \A k \in 1 .. i : s.ranges[k] = R(k)
                          /\ i > 0 => MaxRange(s.ranges[i]) <= Len(s.text)
  <1>1. rs \in Seq(HFRange) /\ bs \in Seq(Text) /\ Len(bs) = n /\ rs # <<>>
    BY DEF RangesOperation
  <1>2. n \in Nat /\ n > 0 /\ \A i \in 1 .. n : rs[i] \in HFRange /\ bs[i] \in Text
    BY <1>1, SeqFacts
  <1>3. PICK f : Inserts(f, t, o) /\ InsertArrays(t, o) = f[n]
    BY InsertedBy
  <1>4. /\ f \in [0 .. n -> InsertState] /\ f[0] = InsertBase(t)
        /\ \A i \in 1 .. n : f[i] = InsertArray(f[i - 1], rs[i], bs[i])
    BY <1>3 DEF Inserts
  <1> DEFINE T == {i \in 0 .. n : Good(f[i], i)}
  <1>5. Good(f[0], 0)
    BY <1>4 DEF InsertBase
  <1>6. \A i \in 1 .. n : Good(f[i - 1], i - 1) => Good(f[i], i)
    <2> TAKE i \in 1 .. n
    <2> HAVE Good(f[i - 1], i - 1)
    <2> SUFFICES ASSUME f[i].done PROVE Good(f[i], i)
      OBVIOUS
    <2> DEFINE s == f[i - 1]
               u == f[i]
               x == BytesIn(s.text, rs[i])
               m == R(i)
               j == i - 1
    <2>1. j \in 0 .. n /\ j \in Nat /\ i = j + 1
      BY <1>2
    <2>2. s \in InsertState /\ rs[i] \in HFRange /\ bs[i] \in Text
      BY <1>2, <1>4, <2>1
    <2>3. u = InsertArray(s, rs[i], bs[i])
      BY <1>4
    <2>4. u.done
      OBVIOUS
    <2>5. Good(s, j)
      OBVIOUS
    <2> HIDE DEF s, u, j, n, rs, bs, T
    <2>6. /\ s.done /\ MaxRange(rs[i]) <= Len(s.text)
          /\ u.arrays = Append(s.arrays, x) /\ u.ranges = Append(s.ranges, m)
          /\ m \in HFRange /\ MaxRange(m) <= Len(u.text)
      BY <2>2, <2>3, <2>4, InsertArrayIs
    <2>7. s.arrays \in Seq(Text) /\ s.ranges \in Seq(HFRange) /\ s.text \in Text
      BY <2>2 DEF InsertState
    <2>8. x \in Text
      <3>1. <<>> \in Text
        BY DEF Text
      <3> QED BY <2>2, <2>6, <2>7, <3>1, ReplacedIs
    <2>9. /\ Len(s.arrays) = j /\ Len(s.ranges) = j
          /\ \A k \in 1 .. j : s.ranges[k] = R(k)
      BY <2>5, <2>6
    <2> HIDE DEF x, m
    <2>10. Len(u.arrays) = i
      BY <2>1, <2>6, <2>7, <2>8, <2>9, AppendProperties
    <2>11. Len(u.ranges) = i /\ u.ranges[i] = m /\ \A k \in 1 .. j : u.ranges[k] = s.ranges[k]
      BY <2>1, <2>6, <2>7, <2>9, AppendProperties
    <2>12. \A k \in 1 .. i : k \in 1 .. j \/ k = i
      BY <2>1
    <2>13. \A k \in 1 .. i : u.ranges[k] = R(k)
      BY <2>9, <2>11, <2>12 DEF m
    <2>14. MaxRange(u.ranges[i]) <= Len(u.text)
      BY <2>6, <2>11
    <2> QED BY <2>10, <2>11, <2>13, <2>14 DEF u
  <1> HIDE DEF Good
  <1>7. 0 \in T /\ \A i \in 1 .. n : i - 1 \in T => i \in T
    <2>1. 0 \in 0 .. n /\ \A i \in 1 .. n : i \in 0 .. n
      BY <1>2
    <2> HIDE DEF n
    <2> QED BY <1>5, <1>6, <2>1
  <1>8. n \in T
    <2> HIDE DEF T
    <2>1. \A i \in 0 .. n : i \in T
      <3>1. n \in Nat
        BY <1>2
      <3> HIDE DEF n
      <3> QED BY <1>7, <3>1, UpTo
    <2> QED BY <1>2, <2>1
  <1>9. Good(f[n], n) /\ f[n] \in InsertState
    <2>1. n \in 0 .. n
      BY <1>2
    <2> HIDE DEF n
    <2> QED BY <1>4, <1>8, <2>1
  <1> DEFINE s == f[n]
  <1>10. s \in InsertState /\ Good(s, n)
    BY <1>9
  <1> HIDE DEF s
  <1>11. s.done => s.ranges # <<>>
    <2>1. s.ranges \in Seq(HFRange)
      BY <1>10 DEF InsertState
    <2>2. s.done => Len(s.ranges) = n
      BY <1>10 DEF Good
    <2> QED BY <1>2, <2>1, <2>2, SeqFacts
  <1> QED BY <1>2, <1>3, <1>10, <1>11 DEF Good, s

\* An editor whose selection is usable, unless an assertion has failed.
UsableEditor == {e \in Editor : e.done => Usable(e.selection, Len(e.text))}

\* What performing an operation leaves alone.
PerformedFrom(u, e) ==
    /\ u \in UsableEditor
    /\ u.done => /\ e.done
                 /\ e.coalescer = None => u.coalescer = None
                 /\ u.undo = e.undo
                 /\ Len(u.group) = Len(e.group) + 1

\* Registering an operation.
LEMMA RegisterIs ==
  ASSUME NEW e \in Editor, NEW o \in Operation
  PROVE  LET u == Register(e, o)
         IN  /\ u \in Editor /\ u.group = Append(e.group, o)
             /\ Len(u.group) = Len(e.group) + 1
             /\ u.text = e.text /\ u.selection = e.selection /\ u.done = e.done
             /\ u.coalescer = e.coalescer /\ u.undo = e.undo
  <1> DEFINE u == Register(e, o)
             g == Append(e.group, o)
  <1>1. e.group \in Seq(Operation)
    BY DEF Editor
  <1>2. g \in Seq(Operation) /\ Len(g) = Len(e.group) + 1
    BY <1>1, AppendProperties
  <1>3. u = [e EXCEPT !.group = g]
    BY DEF Register
  <1> HIDE DEF g, u
  <1>4. /\ u \in Editor /\ u.group = g
        /\ u.text = e.text /\ u.selection = e.selection /\ u.done = e.done
        /\ u.coalescer = e.coalescer /\ u.undo = e.undo
    BY <1>2, <1>3 DEF Editor
  <1> QED BY <1>2, <1>4 DEF g, u

\* Performing typing.
LEMMA TypingPerformed ==
  ASSUME NEW e \in UsableEditor, e.done, NEW c \in TypingOperation, NEW redoing \in BOOLEAN
  PROVE  LET u == performTypingUndo(e, c, redoing)
         IN  /\ PerformedFrom(u, e)
             /\ u.done <=> c.action <= Len(e.text)
             /\ u.done => /\ u.text = Replaced(e.text, Between(c.anchor, c.action), c.deleted)
                          /\ u.group = Append(e.group, invert(c, e.text))
                          /\ invert(c, e.text) \in TypingOperation
  <1> DEFINE u == performTypingUndo(e, c, redoing)
             r == Between(c.anchor, c.action)
             t == e.text
             end == c.anchor + Len(c.deleted)
             x == Replaced(t, r, c.deleted)
             sel == <<IF redoing THEN RangeMake(end, 0) ELSE Between(c.anchor, end)>>
             o == invert(c, t)
  <1>1. /\ c.anchor \in Nat /\ c.action \in Nat /\ c.anchor <= c.action
        /\ c.deleted \in Text /\ Len(c.deleted) \in Nat
    BY TypingFacts
  <1>2. t \in Text /\ e \in Editor /\ Len(t) \in Nat
    BY LenProperties DEF UsableEditor, Editor, Text
  <1>3. /\ r \in HFRange /\ r.location = c.anchor /\ MaxRange(r) = c.action
        /\ r.length = c.action - c.anchor
    BY <1>1, BetweenIs
  <1>4. u = IF ~ Within(r, t) THEN [e EXCEPT !.done = FALSE]
            ELSE Register([e EXCEPT !.text = x, !.selection = sel], o)
    BY <1>2 DEF performTypingUndo, Editor
  <1>5. Within(r, t) <=> c.action <= Len(t)
    BY <1>3, WithinIs
  <1> HIDE DEF u, r, t
  <1>6. CASE ~ (c.action <= Len(t))
    <2>1. u = [e EXCEPT !.done = FALSE]
      BY <1>4, <1>5, <1>6
    <2>2. u \in Editor /\ ~ u.done
      BY <1>2, <2>1 DEF Editor
    <2> QED BY <1>6, <2>2 DEF PerformedFrom, UsableEditor, u, t
  <1>7. CASE c.action <= Len(t)
    <2>1. /\ x \in Text /\ BytesIn(t, r) \in Text /\ Len(BytesIn(t, r)) = r.length
          /\ Len(x) = Len(t) - r.length + Len(c.deleted)
      BY <1>1, <1>2, <1>3, <1>7, ReplacedIs
    <2>2. end \in Nat /\ end <= Len(x) /\ c.anchor <= end
      BY <1>1, <1>2, <1>3, <1>7, <2>1, SMTT(60)
    <2>3. o \in TypingOperation
      <3>1. o = Typing(c.anchor, end, BytesIn(t, r))
        BY DEF invert, r
      <3> HIDE DEF end, o
      <3> QED BY <1>1, <2>1, <2>2, <3>1, TypingIs
    <2>4. Usable(sel, Len(x))
      <3> DEFINE l == Len(x)
      <3>1. l \in Nat
        BY <2>1, LenProperties DEF Text
      <3>2. RangeMake(end, 0) \in HFRange /\ MaxRange(RangeMake(end, 0)) = end
        <4>1. end + 0 = end
          BY <2>2
        <4> HIDE DEF end
        <4> QED BY <2>2, <4>1, RangeMakeIs
      <3>3. Between(c.anchor, end) \in HFRange /\ MaxRange(Between(c.anchor, end)) = end
        BY <1>1, <2>2, BetweenIs
      <3> DEFINE s == IF redoing THEN RangeMake(end, 0) ELSE Between(c.anchor, end)
      <3>4. s \in HFRange /\ MaxRange(s) <= l
        BY <2>2, <3>2, <3>3
      <3> HIDE DEF l, s
      <3>5. Usable(<<s>>, l)
        BY <3>1, <3>4, OneUsable
      <3> QED BY <3>5 DEF l, s
    <2> HIDE DEF x, sel, o
    <2> DEFINE v == [e EXCEPT !.text = x, !.selection = sel]
    <2>5. sel \in Seq(HFRange)
      BY <2>4 DEF Usable
    <2>6. /\ v \in Editor /\ v.text = x /\ v.selection = sel /\ v.group = e.group
          /\ v.coalescer = e.coalescer /\ v.undo = e.undo /\ v.done = e.done
      BY <1>2, <2>1, <2>5 DEF Editor
    <2>7. u = Register(v, o)
      BY <1>4, <1>5, <1>7
    <2> HIDE DEF v
    <2>8. /\ u \in Editor /\ u.group = Append(e.group, o)
          /\ Len(u.group) = Len(e.group) + 1
          /\ u.text = x /\ u.selection = sel /\ u.done = e.done
          /\ u.coalescer = e.coalescer /\ u.undo = e.undo
      BY <2>3, <2>6, <2>7, RegisterIs DEF Operation
    <2>9. PerformedFrom(u, e)
      BY <2>4, <2>8 DEF PerformedFrom, UsableEditor
    <2> QED BY <1>7, <2>3, <2>8, <2>9 DEF x, o, u, t, r
  <1> QED BY <1>6, <1>7

\* Performing an operation of several arrays.
LEMMA RangesPerformed ==
  ASSUME NEW e \in UsableEditor, e.done, NEW o \in RangesOperation
  PROVE  LET u == commandInsertByteArrays(e, o)
             s == InsertArrays(e.text, o)
         IN  /\ PerformedFrom(u, e)
             /\ u.done <=> s.done
             /\ u.done => /\ u.text = s.text /\ u.coalescer = None
                          /\ \E select \in {"AfterResult", "Preserve"} :
                                /\ Inserting(s.arrays, s.ranges, select) \in RangesOperation
                                /\ u.group = Append(e.group, Inserting(s.arrays, s.ranges, select))
  <1> DEFINE u == commandInsertByteArrays(e, o)
             s == InsertArrays(e.text, o)
             n == Len(o.ranges)
             preserved == o.select = "Preserve"
             selected ==
                IF o.select = "Result" THEN s.ranges
                ELSE IF preserved
                THEN clipSelectedContentsRangesToLength(e.selection, Len(s.text))
                ELSE <<RangeMake(MaxRange(Last(s.ranges)), 0)>>
             select == IF preserved THEN "Preserve" ELSE "AfterResult"
             p == Inserting(s.arrays, s.ranges, select)
             x == endTypingUndoCoalescing(e)
             v == [x EXCEPT !.text = s.text, !.selection = selected]
  <1>1. e \in Editor /\ e.text \in Text /\ Usable(e.selection, Len(e.text))
    BY DEF UsableEditor, Editor
  <1>2. u = IF ~ s.done THEN [e EXCEPT !.done = FALSE] ELSE Register(v, p)
    BY DEF commandInsertByteArrays
  <1>3. /\ s \in InsertState
        /\ s.done => /\ Len(s.arrays) = n /\ Len(s.ranges) = n /\ s.ranges # <<>>
                     /\ \A k \in 1 .. n :
                           s.ranges[k] = RangeMake(o.ranges[k].location, Len(o.arrays[k]))
                     /\ MaxRange(s.ranges[n]) <= Len(s.text)
    BY <1>1, InsertedIs
  <1> HIDE DEF u, s
  <1>4. s.text \in Text /\ s.arrays \in Seq(Text) /\ s.ranges \in Seq(HFRange) /\ s.done \in BOOLEAN
    BY <1>3 DEF InsertState
  <1>5. CASE ~ s.done
    <2>1. u = [e EXCEPT !.done = FALSE]
      BY <1>2, <1>5
    <2>2. u \in Editor /\ ~ u.done
      BY <1>1, <2>1 DEF Editor
    <2> QED BY <1>5, <2>2 DEF PerformedFrom, UsableEditor, u, s
  <1>6. CASE s.done
    <2> DEFINE l == Len(s.text)
    <2>1. /\ o.ranges \in Seq(HFRange) /\ o.arrays \in Seq(Text)
          /\ Len(o.arrays) = n /\ o.ranges # <<>>
          /\ o.select = "Result" => Spread(o)
      BY DEF RangesOperation
    <2>2. /\ n \in Nat /\ DOMAIN o.ranges = 1 .. n /\ n > 0
          /\ \A k \in 1 .. n : o.ranges[k] \in HFRange /\ o.arrays[k] \in Text
      BY <2>1, SeqFacts
    <2>3. l \in Nat
      BY <1>4, LenProperties DEF Text
    <2>4. /\ DOMAIN s.ranges = 1 .. n /\ Len(s.ranges) = n /\ MaxRange(s.ranges[n]) <= l
          /\ (\A k \in 1 .. n : s.ranges[k] \in HFRange) /\ s.ranges # <<>>
      BY <1>3, <1>4, <1>6, SeqFacts
    <2>5. o.select = "Result" => Usable(s.ranges, l)
      <3> SUFFICES ASSUME o.select = "Result" PROVE Usable(s.ranges, l)
        OBVIOUS
      <3>1. Spread(o)
        BY <2>1
      <3>2. \A k \in 1 .. n : /\ s.ranges[k].location = o.ranges[k].location
                              /\ s.ranges[k].length = Len(o.arrays[k])
                              /\ MaxRange(s.ranges[k]) = o.ranges[k].location + Len(o.arrays[k])
                              /\ Len(o.arrays[k]) > 0
        <4> TAKE k \in 1 .. n
        <4>1. o.ranges[k].location \in Nat /\ Len(o.arrays[k]) \in Nat
          BY <2>2, RangeFacts, LenProperties DEF Text
        <4>2. s.ranges[k] = RangeMake(o.ranges[k].location, Len(o.arrays[k]))
          BY <1>3, <1>6
        <4>3. Len(o.arrays[k]) > 0
          BY <2>2, <3>1 DEF Spread
        <4> DEFINE a == o.ranges[k].location
                   b == Len(o.arrays[k])
        <4>4. a \in Nat /\ b \in Nat /\ b > 0 /\ s.ranges[k] = RangeMake(a, b)
          BY <4>1, <4>2, <4>3
        <4> HIDE DEF a, b
        <4>5. /\ RangeMake(a, b).location = a /\ RangeMake(a, b).length = b
              /\ MaxRange(RangeMake(a, b)) = a + b
          BY <4>4, RangeMakeIs
        <4> QED BY <4>4, <4>5 DEF a, b
      <3>3. Ordered(s.ranges)
        <4> SUFFICES ASSUME NEW i \in 1 .. n, NEW j \in 1 .. n, i < j
                     PROVE  MaxRange(s.ranges[i]) <= s.ranges[j].location
          BY <2>4 DEF Ordered
        <4>1. o.ranges[i].location + Len(o.arrays[i]) <= o.ranges[j].location
          BY <2>2, <3>1 DEF Spread
        <4> QED BY <3>2, <4>1
      <3>4. OneEmpty(s.ranges)
        <4>1. \A k \in 1 .. n : ~ (s.ranges[k].length = 0)
          BY <3>2
        <4> QED BY <2>4, <4>1 DEF OneEmpty
      <3>5. EndBy(s.ranges, l)
        <4> HIDE DEF l
        <4>1. MaxRange(s.ranges[Len(s.ranges)]) <= l
          BY <2>4
        <4> QED BY <1>4, <2>3, <3>3, <4>1, EndByLast
      <3> QED BY <1>4, <2>4, <3>3, <3>4, <3>5 DEF Usable
    <2>6. preserved => Usable(clipSelectedContentsRangesToLength(e.selection, l), l)
      <3>1. e.selection \in Seq(HFRange) /\ Ordered(e.selection)
        BY <1>1 DEF Usable
      <3> HIDE DEF l
      <3> QED BY <2>3, <3>1, ClipUsable
    <2>7. Usable(<<RangeMake(MaxRange(Last(s.ranges)), 0)>>, l)
      <3>1. Last(s.ranges) = s.ranges[n] /\ s.ranges[n] \in HFRange
        BY <2>2, <2>4 DEF Last
      <3>2. MaxRange(s.ranges[n]) \in Nat /\ MaxRange(s.ranges[n]) <= l
        BY <2>4, <3>1, RangeFacts
      <3> HIDE DEF l
      <3> QED BY <2>3, <3>1, <3>2, CursorUsable
    <2>8. Usable(selected, l)
      BY <2>5, <2>6, <2>7
    <2>9. select \in {"AfterResult", "Preserve"}
      OBVIOUS
    <2> HIDE DEF selected, select, x
    <2>10. p \in RangesOperation
      <3>1. p = [kind |-> "ranges", arrays |-> s.arrays, ranges |-> s.ranges, select |-> select]
        BY DEF Inserting
      <3> HIDE DEF p
      <3>2. /\ p \in [kind : {"ranges"}, arrays : Seq(Text), ranges : Seq(HFRange),
                      select : {"Result", "AfterResult", "Preserve"}]
            /\ p.select # "Result" /\ p.arrays = s.arrays /\ p.ranges = s.ranges
        BY <1>4, <2>9, <3>1
      <3>3. Len(s.arrays) = Len(s.ranges) /\ s.ranges # <<>>
        BY <1>3, <1>6
      <3> QED BY <3>2, <3>3 DEF RangesOperation
    <2> HIDE DEF p
    <2>11. /\ x \in Editor /\ x.coalescer = None /\ x.undo = e.undo /\ x.group = e.group
           /\ x.done = e.done
      BY <1>1, EndIs DEF x
    <2>12. /\ v \in Editor /\ v.text = s.text /\ v.selection = selected
           /\ v.group = e.group /\ v.coalescer = None /\ v.undo = e.undo /\ v.done = e.done
      <3>1. selected \in Seq(HFRange)
        BY <2>8 DEF Usable
      <3> QED BY <1>4, <2>11, <3>1 DEF Editor
    <2>13. u = Register(v, p)
      BY <1>2, <1>6
    <2> HIDE DEF v
    <2>14. /\ u \in Editor /\ u.group = Append(e.group, p)
           /\ Len(u.group) = Len(e.group) + 1
           /\ u.text = s.text /\ u.selection = selected /\ u.done = e.done
           /\ u.coalescer = None /\ u.undo = e.undo
      BY <2>10, <2>12, <2>13, RegisterIs DEF Operation
    <2>15. PerformedFrom(u, e)
      BY <2>8, <2>14 DEF PerformedFrom, UsableEditor
    <2> QED BY <1>6, <2>9, <2>10, <2>14, <2>15 DEF p, u, s
  <1> QED BY <1>4, <1>5, <1>6

\* Performing any operation.
LEMMA OperationPerformed ==
  ASSUME NEW e \in UsableEditor, NEW o \in Operation, NEW redoing \in BOOLEAN
  PROVE  PerformedFrom(PerformOperation(e, o, redoing), e)
  <1> DEFINE u == PerformOperation(e, o, redoing)
  <1>1. CASE ~ e.done
    <2>1. u = e
      BY <1>1 DEF PerformOperation
    <2> QED BY <1>1, <2>1 DEF PerformedFrom
  <1>2. CASE e.done /\ o \in TypingOperation
    <2>1. u = performTypingUndo(e, o, redoing)
      BY <1>2, TypingFacts DEF PerformOperation
    <2> QED BY <1>2, <2>1, TypingPerformed
  <1>3. CASE e.done /\ o \in RangesOperation
    <2>1. o.kind = "ranges"
      BY <1>3 DEF RangesOperation
    <2>2. u = commandInsertByteArrays(e, o)
      BY <1>3, <2>1 DEF PerformOperation
    <2> QED BY <1>3, <2>2, RangesPerformed
  <1> QED BY <1>1, <1>2, <1>3 DEF Operation

\* The editors while a group is performed, its last operation first.
Performs(f, e, group, redoing) ==
    /\ f \in [0 .. Len(group) -> UsableEditor] /\ f[Len(group)] = e
    /\ \A i \in 0 .. Len(group) - 1 :
          f[i] = PerformOperation(f[i + 1], group[i + 1], redoing)

\* PerformGroup is the last of them.
LEMMA GroupPerformedBy ==
  ASSUME NEW e \in UsableEditor, NEW group \in Seq(Operation), NEW redoing \in BOOLEAN
  PROVE  \E f : Performs(f, e, group, redoing) /\ PerformGroup(e, group, redoing) = f[0]
  <1> DEFINE n == Len(group)
             S == UsableEditor
             Do(x, i) == PerformOperation(x, group[i], redoing)
             performed[i \in 0 .. n] ==
                IF i = n THEN e ELSE PerformOperation(performed[i + 1], group[i + 1], redoing)
             Equation(f) ==
                f = [i \in 0 .. n |->
                        IF i = n THEN e ELSE PerformOperation(f[i + 1], group[i + 1], redoing)]
  <1>1. n \in Nat /\ \A i \in 1 .. n : group[i] \in Operation
    BY SeqFacts
  <1>2. PerformGroup(e, group, redoing) = performed[0]
    BY DEF PerformGroup
  <1>3. performed = CHOOSE f : Equation(f)
    OBVIOUS
  <1> DEFINE step == [i \in 1 .. n |-> [x \in S |-> Do(x, i)]]
  <1>4. /\ step \in [1 .. n -> [S -> S]]
        /\ \A i \in 1 .. n : \A x \in S : step[i][x] = Do(x, i)
    <2>1. \A i \in 1 .. n : \A x \in S : Do(x, i) \in S
      BY <1>1, OperationPerformed DEF PerformedFrom
    <2> HIDE DEF n, Do, S
    <2> QED BY <2>1
  <1> HIDE DEF performed, step, Equation
  <1>5. PICK f : IteratedBack(f, n, S, e, step)
    <2>1. n \in Nat
      BY <1>1
    <2> HIDE DEF n
    <2> QED BY <1>4, <2>1, IteratesBack
  <1>6. /\ f \in [0 .. n -> S] /\ f[n] = e
        /\ \A i \in 0 .. n - 1 : f[i] = step[i + 1][f[i + 1]]
    BY <1>5 DEF IteratedBack
  <1>7. \A i \in 0 .. n - 1 : i + 1 \in 0 .. n /\ i \in 0 .. n /\ i + 1 \in 1 .. n /\ i # n
    <2> HIDE DEF n
    <2> QED BY <1>1
  <1>8. \A i \in 0 .. n - 1 : f[i] = Do(f[i + 1], i + 1)
    <2> TAKE i \in 0 .. n - 1
    <2>1. f[i + 1] \in S
      BY <1>6, <1>7
    <2> HIDE DEF Do, n, S
    <2> QED BY <1>4, <1>6, <1>7, <2>1
  <1>9. Performs(f, e, group, redoing)
    BY <1>6, <1>8 DEF Performs
  <1>10. Equation(f)
    <2>1. f = [i \in 0 .. n |-> f[i]]
      BY <1>6
    <2>2. \A i \in 0 .. n : i # n => i \in 0 .. n - 1
      <3> HIDE DEF n
      <3> QED BY <1>1
    <2>3. \A i \in 0 .. n : f[i] = IF i = n THEN e
                ELSE PerformOperation(f[i + 1], group[i + 1], redoing)
      <3> HIDE DEF n
      <3> QED BY <1>6, <1>8, <2>2
    <2> HIDE DEF n
    <2> QED BY <2>1, <2>3 DEF Equation
  <1>11. Equation(performed)
    BY <1>3, <1>10
  <1>12. \A i \in 0 .. n : performed[i] = f[i]
    <2>1. performed[n] = f[n]
      <3>1. n \in 0 .. n
        BY <1>1
      <3> HIDE DEF n
      <3> QED BY <1>6, <1>11, <3>1 DEF Equation
    <2>2. \A i \in 0 .. n - 1 : performed[i + 1] = f[i + 1] => performed[i] = f[i]
      <3> HIDE DEF n
      <3> QED BY <1>7, <1>8, <1>11 DEF Equation
    <2>3. n \in Nat
      BY <1>1
    <2> HIDE DEF n
    <2> QED BY <2>1, <2>2, <2>3, SameDownFrom
  <1>13. 0 \in 0 .. n
    BY <1>1
  <1> QED BY <1>2, <1>9, <1>12, <1>13

\* What performing a group leaves.
LEMMA GroupPerformedIs ==
  ASSUME NEW e \in UsableEditor, e.group = <<>>, e.coalescer = None,
         NEW group \in Group, NEW redoing \in BOOLEAN
  PROVE  LET u == PerformGroup(e, group, redoing)
         IN  /\ u \in Editor
             /\ u.done => /\ Usable(u.selection, Len(u.text))
                          /\ u.coalescer = None /\ u.undo = e.undo /\ u.group \in Group
  <1> DEFINE n == Len(group)
  <1>1. group \in Seq(Operation) /\ group # <<>>
    BY DEF Group
  <1>2. n \in Nat /\ n > 0
    BY <1>1, SeqFacts
  <1>3. PICK f : Performs(f, e, group, redoing) /\ PerformGroup(e, group, redoing) = f[0]
    BY <1>1, GroupPerformedBy
  <1>4. /\ f \in [0 .. n -> UsableEditor] /\ f[n] = e
        /\ \A i \in 0 .. n - 1 : f[i] = PerformOperation(f[i + 1], group[i + 1], redoing)
    BY <1>3 DEF Performs
  <1>5. \A i \in 0 .. n - 1 : i + 1 \in 0 .. n /\ i \in 0 .. n /\ i + 1 \in 1 .. n
    <2> HIDE DEF n
    <2> QED BY <1>2
  <1>6. \A i \in 0 .. n - 1 : PerformedFrom(f[i], f[i + 1])
    <2> TAKE i \in 0 .. n - 1
    <2>1. f[i + 1] \in UsableEditor /\ group[i + 1] \in Operation
      BY <1>1, <1>4, <1>5, SeqFacts
    <2> HIDE DEF n
    <2>2. f[i] = PerformOperation(f[i + 1], group[i + 1], redoing)
      BY <1>4
    <2> QED BY <2>1, <2>2, OperationPerformed
  <1> DEFINE Good(i) == f[i].done => /\ f[i].coalescer = None /\ f[i].undo = e.undo
                                     /\ Len(f[i].group) = n - i
             T == {i \in 0 .. n : Good(i)}
  <1>7. Good(n)
    <2>1. Len(e.group) = 0 /\ n - n = 0
      BY <1>2
    <2> HIDE DEF n
    <2> QED BY <1>4, <2>1
  <1>8. \A i \in 0 .. n - 1 : Good(i + 1) => Good(i)
    <2> TAKE i \in 0 .. n - 1
    <2>1. i \in Int /\ n \in Int /\ n - (i + 1) + 1 = n - i
      BY <1>2
    <2> HIDE DEF n
    <2> QED BY <1>6, <2>1 DEF PerformedFrom
  <1> HIDE DEF Good
  <1>9. n \in T /\ \A i \in 0 .. n - 1 : i + 1 \in T => i \in T
    <2>1. n \in 0 .. n
      BY <1>2
    <2> HIDE DEF n
    <2> QED BY <1>5, <1>7, <1>8, <2>1
  <1>10. Good(0)
    <2>1. \A i \in 0 .. n : i \in T
      <3>1. n \in Nat
        BY <1>2
      <3> HIDE DEF T, n
      <3> QED BY <1>9, <3>1, DownFrom
    <2>2. 0 \in 0 .. n
      BY <1>2
    <2> QED BY <2>1, <2>2
  <1> DEFINE u == f[0]
  <1>11. u \in UsableEditor
    BY <1>2, <1>4
  <1>12. u.done => u.coalescer = None /\ u.undo = e.undo /\ Len(u.group) = n
    <2>1. n - 0 = n
      BY <1>2
    <2> HIDE DEF n
    <2> QED BY <1>10, <2>1 DEF Good
  <1> HIDE DEF u
  <1>13. u \in Editor /\ (u.done => Usable(u.selection, Len(u.text)))
    BY <1>11 DEF UsableEditor
  <1>14. u.done => u.group \in Group
    <2>1. u.group \in Seq(Operation)
      BY <1>13 DEF Editor
    <2>2. u.done => Len(u.group) > 0
      BY <1>2, <1>12
    <2> QED BY <2>1, <2>2, SeqFacts DEF Group
  <1> QED BY <1>3, <1>12, <1>13, <1>14 DEF u

-----------------------------------------------------------------------------
(* The invariant *)

TypeInv ==
    /\ text \in Text
    /\ Usable(selection, Len(text))
    /\ editMode \in {"Insert", "Overwrite", "ReadOnly"}
    /\ coalescer \in TypingOperation \cup {None}
    /\ coalescer # None => coalescer.action <= Len(text)
    /\ undo \in Seq(Group) /\ redo \in Seq(Group)
    /\ omitted = NotOmitted \/ omitted \in 0 .. (Len(text) - 1)

\* The coalescer is the last operation that can be undone.
LastEdit ==
    coalescer # None =>
        /\ redo = <<>>
        /\ undo # <<>> => Last(Last(undo)) = coalescer

\* What overwriting has begun is not empty.  In the other modes nothing else
\* leaves a caret beside a range while a string of typing is open.
ModeInv ==
    coalescer # None =>
        IF editMode = "Overwrite" THEN coalescer.anchor < coalescer.action
        ELSE Strict(selection)

\* Without a save that forgets it, a string of typing can be undone.
OpenIsUndoable == coalescer # None => undo # <<>>

Saves(c) == c # None => Len(c.deleted) = c.action - c.anchor

Inv == TypeInv /\ LastEdit /\ ModeInv /\ SecondDigitCompletesFirst

\* An editor that an event may leave.
Result(e) ==
    /\ e \in Editor /\ Linked(e)
    /\ Usable(e.selection, Len(e.text))
    /\ e.coalescer # None => e.coalescer.action <= Len(e.text)
    /\ e.coalescer # None =>
          IF editMode = "Overwrite" THEN e.coalescer.anchor < e.coalescer.action
          ELSE Strict(e.selection)
    /\ e.group = <<>> /\ e.coalescer # None => coalescer # None
    /\ Len(e.undo) = Len(undo)

\* Before an event the editor is such a result.
LEMMA HereIs ==
  ASSUME Inv
  PROVE  Result(Here) /\ Here \in UsableEditor /\ Here.done
  <1> DEFINE e == Here
  <1>1. /\ text \in Text /\ Usable(selection, Len(text)) /\ selection \in Seq(HFRange)
        /\ coalescer \in TypingOperation \cup {None} /\ undo \in Seq(Group)
    BY DEF Inv, TypeInv, Usable
  <1>2. <<>> \in Seq(Operation)
    OBVIOUS
  <1>3. /\ e \in Editor /\ e.text = text /\ e.selection = selection /\ e.coalescer = coalescer
        /\ e.undo = undo /\ e.group = <<>> /\ e.done = TRUE
    BY <1>1, <1>2 DEF Here, Editor
  <1> HIDE DEF e
  <1>4. Linked(e)
    BY <1>3 DEF Linked, Inv, LastEdit
  <1>5. Result(e)
    BY <1>1, <1>3, <1>4 DEF Result, Inv, TypeInv, ModeInv
  <1> QED BY <1>1, <1>3, <1>5 DEF UsableEditor, e

\* The end of an event keeps all but what the pending digit is about.
LEMMA BecomeKeeps ==
  ASSUME Inv, NEW e, Result(e), Become(e)
  PROVE  /\ text' \in Text /\ Usable(selection, Len(text))' /\ editMode' = editMode
         /\ (coalescer \in TypingOperation \cup {None})'
         /\ (coalescer # None => coalescer.action <= Len(text))'
         /\ (undo \in Seq(Group))' /\ (redo \in Seq(Group))'
         /\ LastEdit' /\ ModeInv'
         /\ text' = e.text /\ selection' = e.selection /\ coalescer' = e.coalescer
         /\ undo' = IF e.group = <<>> THEN e.undo ELSE Append(e.undo, e.group)
         /\ OpenIsUndoable => OpenIsUndoable'
  <1>1. /\ text' = e.text /\ selection' = e.selection /\ coalescer' = e.coalescer
        /\ undo' = IF e.group = <<>> THEN e.undo ELSE Append(e.undo, e.group)
        /\ redo' = IF e.group = <<>> THEN redo ELSE <<>>
        /\ editMode' = editMode
    BY DEF Become
  <1>2. /\ e.text \in Text /\ e.selection \in Seq(HFRange)
        /\ e.coalescer \in TypingOperation \cup {None}
        /\ e.undo \in Seq(Group) /\ e.group \in Seq(Operation)
    BY DEF Result, Editor
  <1>3. Usable(e.selection, Len(e.text)) /\ (e.coalescer # None => e.coalescer.action <= Len(e.text))
    BY DEF Result
  <1>4. redo \in Seq(Group) /\ undo \in Seq(Group)
    BY DEF Inv, TypeInv
  <1>5. e.group # <<>> => /\ Append(e.undo, e.group) \in Seq(Group)
                          /\ Append(e.undo, e.group) # <<>>
                          /\ Last(Append(e.undo, e.group)) = e.group
    <2> SUFFICES ASSUME e.group # <<>>
                 PROVE  /\ Append(e.undo, e.group) \in Seq(Group)
                        /\ Append(e.undo, e.group) # <<>>
                        /\ Last(Append(e.undo, e.group)) = e.group
      OBVIOUS
    <2> DEFINE s == Append(e.undo, e.group)
    <2>1. e.group \in Group
      BY <1>2 DEF Group
    <2>2. /\ Len(e.undo) \in Nat
          /\ s \in Seq(Group) /\ Len(s) = Len(e.undo) + 1 /\ s[Len(e.undo) + 1] = e.group
      BY <1>2, <2>1, AppendProperties, LenProperties
    <2> HIDE DEF s
    <2>3. s # <<>>
      BY <2>2, SeqFacts
    <2> QED BY <2>2, <2>3 DEF Last, s
  <1>6. undo' \in Seq(Group) /\ redo' \in Seq(Group)
    <2>1. <<>> \in Seq(Group)
      OBVIOUS
    <2> QED BY <1>1, <1>2, <1>4, <1>5, <2>1
  <1>7. LastEdit'
    <2>1. Linked(e)
      BY DEF Result
    <2>2. e.group = <<>> /\ e.coalescer # None => redo = <<>>
      BY DEF Result, Inv, LastEdit
    <2> QED BY <1>1, <1>5, <2>1, <2>2 DEF LastEdit, Linked
  <1>8. ModeInv'
    BY <1>1 DEF ModeInv, Result
  <1>9. OpenIsUndoable => OpenIsUndoable'
    <2> SUFFICES ASSUME coalescer # None => undo # <<>>, e.coalescer # None PROVE undo' # <<>>
      BY <1>1 DEF OpenIsUndoable
    <2>1. CASE e.group # <<>>
      BY <1>1, <1>5, <2>1
    <2>2. CASE e.group = <<>>
      <3>1. undo # <<>> /\ Len(e.undo) = Len(undo)
        BY <2>2 DEF Result
      <3>2. Len(undo) > 0
        BY <1>4, <3>1, SeqFacts
      <3>3. e.undo # <<>>
        BY <1>2, <3>1, <3>2, SeqFacts
      <3> QED BY <1>1, <2>2, <3>3
    <2> QED BY <2>1, <2>2
  <1> QED BY <1>1, <1>2, <1>3, <1>6, <1>7, <1>8, <1>9

\* The ranges after the first one.
LEMMA TailIs ==
  ASSUME NEW rs \in Seq(HFRange), rs # <<>>, Ordered(rs), NEW n, EndBy(rs, n)
  PROVE  /\ Tail(rs) \in Seq(HFRange) /\ Ordered(Tail(rs)) /\ EndBy(Tail(rs), n)
         /\ \A k \in DOMAIN Tail(rs) : /\ MaxRange(rs[1]) <= Tail(rs)[k].location
                                       /\ k + 1 \in DOMAIN rs /\ Tail(rs)[k] = rs[k + 1]
  <1> DEFINE q == Tail(rs)
             m == Len(q)
             l == Len(rs)
  <1>1. l \in Nat /\ DOMAIN rs = 1 .. l /\ l > 0 /\ \A i \in 1 .. l : rs[i] \in HFRange
    BY SeqFacts
  <1>2. /\ q \in Seq(HFRange) /\ m = l - 1 /\ \A i \in 1 .. m : q[i] = rs[i + 1]
    BY HeadTailProperties
  <1> HIDE DEF q
  <1>3. DOMAIN q = 1 .. m
    BY <1>2, SeqFacts
  <1>4. \A k \in 1 .. m : k + 1 \in 1 .. l /\ 1 \in 1 .. l /\ 1 < k + 1
    <2> HIDE DEF l, m
    <2> QED BY <1>1, <1>2
  <1>5. Ordered(q)
    <2> SUFFICES ASSUME NEW j \in 1 .. m, NEW k \in 1 .. m, j < k
                 PROVE  MaxRange(q[j]) <= q[k].location
      BY <1>3 DEF Ordered
    <2>1. j + 1 < k + 1
      OBVIOUS
    <2> QED BY <1>1, <1>2, <1>4, <2>1 DEF Ordered
  <1>6. EndBy(q, n)
    BY <1>1, <1>2, <1>3, <1>4 DEF EndBy
  <1>7. \A k \in 1 .. m : MaxRange(rs[1]) <= q[k].location
    BY <1>1, <1>2, <1>4 DEF Ordered
  <1> QED BY <1>1, <1>2, <1>3, <1>4, <1>5, <1>6, <1>7 DEF q

\* The editor when the ranges after the first one are deleted.
LEMMA OthersDeleted ==
  ASSUME Inv
  PROVE  LET all == organizeAndMergeRanges(selection)
             others == NotEmpty(Tail(all))
             e == [RegisterCondemnedRanges(Here, others)
                     EXCEPT !.text = DeleteRanges(@, others)]
         IN  /\ Usable(all, Len(text)) /\ all[1].location = selection[1].location
             /\ all[1] \in HFRange /\ (Strict(selection) => Strict(all))
             /\ e \in Editor /\ e.done /\ e.selection = selection
             /\ e.coalescer = coalescer /\ e.undo = undo
             /\ others \in Seq(HFRange) /\ Ordered(others) /\ EndBy(others, Len(text))
             /\ \A k \in DOMAIN others : MaxRange(all[1]) <= others[k].location
             /\ e.text = DeleteRanges(text, others) /\ MaxRange(all[1]) <= Len(e.text)
             /\ Begins(e.text, text, MaxRange(all[1]))
  <1> DEFINE all == organizeAndMergeRanges(selection)
             tail == Tail(all)
             others == NotEmpty(tail)
             c == RegisterCondemnedRanges(Here, others)
             x == DeleteRanges(c.text, others)
             e == [c EXCEPT !.text = x]
  <1>1. /\ text \in Text /\ Usable(selection, Len(text)) /\ selection \in Seq(HFRange)
        /\ Ordered(selection) /\ EndBy(selection, Len(text)) /\ selection # <<>>
        /\ OneEmpty(selection) /\ Len(text) \in Nat
    BY LenProperties DEF Inv, TypeInv, Usable, Text
  <1>2. /\ Usable(all, Len(text)) /\ all[1].location = selection[1].location
        /\ (Strict(selection) => Strict(all))
    <2> DEFINE n == Len(text)
    <2>1. n \in Nat /\ EndBy(selection, n)
      BY <1>1
    <2> HIDE DEF n
    <2>2. /\ Usable(all, n) /\ all[1].location = selection[1].location
          /\ (Strict(selection) => Strict(all))
      BY <1>1, <2>1, OrganizedUsable
    <2> QED BY <2>2 DEF n
  <1> HIDE DEF all
  <1>3. /\ all \in Seq(HFRange) /\ Ordered(all) /\ EndBy(all, Len(text)) /\ all # <<>>
    BY <1>2 DEF Usable
  <1>4. all[1] \in HFRange /\ MaxRange(all[1]) \in Nat /\ MaxRange(all[1]) <= Len(text)
    <2>1. 1 \in 1 .. Len(all) /\ DOMAIN all = 1 .. Len(all) /\ all[1] \in HFRange
      BY <1>3, SeqFacts
    <2> QED BY <1>3, <2>1, RangeFacts DEF EndBy
  <1>5. /\ tail \in Seq(HFRange) /\ Ordered(tail) /\ EndBy(tail, Len(text))
        /\ \A k \in DOMAIN tail : MaxRange(all[1]) <= tail[k].location
    BY <1>3, TailIs
  <1> HIDE DEF tail
  <1>6. /\ others \in Seq(HFRange) /\ Ordered(others) /\ EndBy(others, Len(text))
        /\ \A k \in DOMAIN others : MaxRange(all[1]) <= others[k].location
    <2>1. /\ others \in Seq(HFRange) /\ Ordered(others) /\ EndBy(others, Len(text))
          /\ \A k \in DOMAIN others : \E i \in DOMAIN tail : others[k] = tail[i]
      BY <1>5, NotEmptyIs
    <2> QED BY <1>5, <2>1
  <1> HIDE DEF others
  <1>7. /\ Here \in Editor /\ Here.text = text /\ Here.selection = selection
        /\ Here.coalescer = coalescer /\ Here.undo = undo /\ Here.done
    BY HereIs DEF Here, Result
  <1>8. /\ c \in Editor /\ c.text = text /\ c.selection = selection /\ c.done
        /\ c.coalescer = coalescer /\ c.undo = undo
    BY <1>6, <1>7, CondemnedIs
  <1> HIDE DEF c
  <1>9. x = DeleteRanges(text, others) /\ x \in Text /\ Begins(x, text, MaxRange(all[1]))
    BY <1>1, <1>4, <1>6, <1>8, DeletedBegins
  <1> HIDE DEF x
  <1>10. /\ e \in Editor /\ e.done /\ e.selection = selection
         /\ e.coalescer = coalescer /\ e.undo = undo /\ e.text = x
    BY <1>8, <1>9 DEF Editor
  <1>11. e = [RegisterCondemnedRanges(Here, others)
                     EXCEPT !.text = DeleteRanges(@, others)]
    BY <1>8 DEF c, x, Editor
  <1> HIDE DEF e
  <1>12. MaxRange(all[1]) <= Len(e.text)
    BY <1>9, <1>10 DEF Begins
  <1> QED BY <1>2, <1>4, <1>6, <1>9, <1>10, <1>11, <1>12 DEF all, tail, others

\* What may be put in by a digit, a character or pasting.
Input(bytes, previousBytes, coalescing) ==
    /\ bytes \in Text /\ previousBytes \in {0, 1} /\ coalescing \in BOOLEAN
    /\ coalescing => Len(bytes) = 1
    /\ previousBytes = 1 => coalescing /\ \E n \in Nat : selection = <<RangeMake(n + 1, 0)>>

\* Insertion replaces the selection.
LEMMA InsertionIs ==
  ASSUME Inv, editMode # "Overwrite",
         NEW bytes, NEW previousBytes, NEW coalescing, Input(bytes, previousBytes, coalescing)
  PROVE  LET u == insertionModeCore(Here, bytes, previousBytes, coalescing)
             point == selection[1].location - previousBytes
         IN  /\ Result(u)
             /\ coalescing => /\ point \in Nat
                              /\ u.selection = <<RangeMake(point + 1, 0)>>
                              /\ u.coalescer # None
                              /\ u.coalescer.action = point + 1 /\ u.coalescer.anchor <= point
  <1> DEFINE End(e) == IF coalescing THEN e ELSE endTypingUndoCoalescing(e)
             here == Here.selection
             all == organizeAndMergeRanges(here)
             others == NotEmpty(Tail(all))
             e == [RegisterCondemnedRanges(Here, others)
                     EXCEPT !.text = DeleteRanges(@, others)]
             first == all[1]
             pb == previousBytes
             point == first.location - pb
             l == Len(bytes)
             started == CoalesceReplacing(e, RangeMake(point, pb), 0)
             begun == End(started)
             coalesced == End(CoalesceReplacing(begun, RangeMake(point, first.length), l))
             r == RangeMake(point, first.length + pb)
             x == Replaced(coalesced.text, r, bytes)
             u == insertionModeCore(Here, bytes, previousBytes, coalescing)
  <1>1. /\ Usable(all, Len(text)) /\ first.location = selection[1].location
        /\ first \in HFRange /\ e \in Editor /\ e.done
        /\ e.coalescer = coalescer /\ e.undo = undo /\ MaxRange(first) <= Len(e.text)
    <2>1. here = selection
      BY DEF Here
    <2> HIDE DEF here
    <2> QED BY <2>1, OthersDeleted
  <1>2. u = [coalesced EXCEPT !.text = Replaced(@, r, bytes),
                              !.selection = <<RangeMake(point + l, 0)>>]
    BY DEF insertionModeCore
  <1>3. bytes \in Text /\ pb \in {0, 1} /\ coalescing \in BOOLEAN /\ l \in Nat /\ (coalescing => l = 1)
    BY LenProperties DEF Input, Text
  <1>4. first.location \in Nat /\ first.length \in Nat /\ MaxRange(first) = first.location + first.length
    BY <1>1, RangeFacts
  <1>5. pb = 1 => first.length = 0 /\ first.location > 0 /\ coalescing
    <2> SUFFICES ASSUME pb = 1 PROVE first.length = 0 /\ first.location > 0 /\ coalescing
      OBVIOUS
    <2>1. PICK n \in Nat : selection = <<RangeMake(n + 1, 0)>>
      BY DEF Input
    <2> DEFINE m == n + 1
               caret == RangeMake(m, 0)
    <2>2. m \in Nat /\ m > 0
      OBVIOUS
    <2>3. here = <<caret>>
      BY <2>1 DEF Here
    <2> HIDE DEF m
    <2>4. caret \in HFRange /\ caret.location = m /\ caret.length = 0
      BY <2>2, RangeMakeIs
    <2> HIDE DEF caret
    <2>5. all = <<caret>>
      BY <2>3, <2>4, OneOrganized
    <2>6. first = caret
      BY <2>5
    <2>7. coalescing
      BY DEF Input
    <2> QED BY <2>2, <2>4, <2>6, <2>7
  <1> HIDE DEF all, others, e, first
  <1>6. point \in Nat /\ point + pb = first.location
    BY <1>3, <1>4, <1>5
  <1> HIDE DEF point
  <1>7. /\ RangeMake(point, pb) \in HFRange /\ RangeMake(point, pb).location = point
        /\ RangeMake(point, pb).length = pb /\ MaxRange(RangeMake(point, pb)) <= Len(e.text)
    <2>1. pb \in Nat
      BY <1>3
    <2> HIDE DEF pb
    <2>2. /\ RangeMake(point, pb) \in HFRange /\ RangeMake(point, pb).location = point
          /\ RangeMake(point, pb).length = pb /\ MaxRange(RangeMake(point, pb)) = point + pb
      BY <1>6, <2>1, RangeMakeIs
    <2>3. Len(e.text) \in Nat
      BY <1>1, LenProperties DEF Editor, Text
    <2>4. point + pb <= Len(e.text)
      BY <1>1, <1>4, <1>6, <2>3
    <2> QED BY <2>2, <2>4
  <1>8. /\ started \in Editor /\ started.text = e.text /\ started.done
        /\ started.group = <<>> => e.group = <<>> /\ (started.coalescer # None => coalescer # None)
        /\ Len(started.undo) = Len(undo)
    <2>1. CASE pb = 0
      <3>1. started = e
        BY <1>7, <2>1 DEF CoalesceReplacing
      <3> QED BY <1>1, <3>1
    <2>2. CASE pb = 1
      <3>1. RangeMake(point, pb).length > 0 /\ 0 \in Nat
        BY <1>7, <2>2
      <3> DEFINE s == RangeMake(point, pb)
      <3> HIDE DEF s, started
      <3>2. IsTyped(CoalesceReplacing(e, s, 0), e, s.location, s.location + 0)
        BY <1>1, <1>7, <3>1, ReplacingTyped DEF s
      <3>3. IsTyped(started, e, s.location, s.location + 0)
        BY <3>2 DEF s, started
      <3> QED BY <1>1, <3>3 DEF IsTyped
    <2> QED BY <1>3, <2>1, <2>2
  <1> HIDE DEF started
  <1>9. /\ begun \in Editor /\ begun.text = e.text /\ begun.done
        /\ begun.group = <<>> /\ begun.coalescer # None => coalescer # None
        /\ Len(begun.undo) = Len(undo)
        /\ ~ coalescing => begun.coalescer = None
    BY <1>8, EndIs
  <1> HIDE DEF begun
  <1> DEFINE s == RangeMake(point, first.length)
             typed == CoalesceReplacing(begun, s, l)
  <1>10. /\ s \in HFRange /\ s.location = point /\ s.length = first.length
         /\ MaxRange(s) <= Len(begun.text)
    <2> DEFINE n == first.length
    <2>1. n \in Nat
      BY <1>4
    <2>2. Len(begun.text) \in Nat
      BY <1>9, LenProperties DEF Editor, Text
    <2>3. point + n <= Len(begun.text)
      <3>1. point <= first.location
        BY <1>3, <1>4, <1>6
      <3> QED BY <1>1, <1>4, <1>6, <1>9, <2>2, <3>1
    <2> HIDE DEF n
    <2>4. /\ RangeMake(point, n) \in HFRange /\ RangeMake(point, n).location = point
          /\ RangeMake(point, n).length = n /\ MaxRange(RangeMake(point, n)) = point + n
      BY <1>6, <2>1, RangeMakeIs
    <2> QED BY <2>3, <2>4 DEF n
  <1> HIDE DEF s
  <1>11. l > 0 \/ first.length > 0 => IsTyped(typed, begun, point, point + l)
    <2> SUFFICES ASSUME l > 0 \/ first.length > 0 PROVE IsTyped(typed, begun, point, point + l)
      OBVIOUS
    <2> HIDE DEF l
    <2>1. IsTyped(typed, begun, s.location, s.location + l)
      BY <1>3, <1>9, <1>10, ReplacingTyped
    <2> QED BY <1>10, <2>1
  <1>12. ~ (l > 0 \/ first.length > 0) => typed = begun
    <2> SUFFICES ASSUME ~ (l > 0 \/ first.length > 0) PROVE typed = begun
      OBVIOUS
    <2>1. l = 0 /\ s.length = 0
      BY <1>3, <1>4, <1>10
    <2> HIDE DEF l
    <2> QED BY <2>1 DEF CoalesceReplacing
  <1> HIDE DEF typed
  <1>13. /\ typed \in Editor /\ typed.text = e.text /\ typed.done
         /\ typed.group = <<>> /\ typed.coalescer # None => coalescer # None
         /\ Len(typed.undo) = Len(undo)
    <2>1. IsTyped(typed, begun, point, point + l) \/ typed = begun
      BY <1>11, <1>12
    <2> QED BY <1>9, <2>1 DEF IsTyped
  <1>14. coalesced = IF coalescing THEN typed ELSE endTypingUndoCoalescing(typed)
    BY DEF typed, s
  <1>15. ~ coalescing => /\ coalesced \in Editor /\ Linked(coalesced) /\ coalesced.coalescer = None
                         /\ coalesced.text = typed.text /\ coalesced.done = typed.done
                         /\ coalesced.undo = typed.undo /\ coalesced.group = typed.group
    BY <1>13, <1>14, EndIs
  <1>16. coalescing => coalesced = typed /\ IsTyped(typed, begun, point, point + l) /\ l = 1
    BY <1>3, <1>11, <1>14
  <1> HIDE DEF coalesced
  <1>17. /\ coalesced \in Editor /\ coalesced.text = e.text /\ coalesced.done
         /\ Linked(coalesced)
         /\ coalesced.group = <<>> /\ coalesced.coalescer # None => coalescer # None
         /\ Len(coalesced.undo) = Len(undo)
         /\ coalesced.coalescer # None => coalesced.coalescer.action = point + l
         /\ coalescing => /\ coalesced.coalescer # None /\ coalesced.coalescer.anchor <= point
                          /\ coalesced.coalescer.action = point + 1
    <2>1. CASE coalescing
      BY <1>13, <1>16, <2>1 DEF IsTyped
    <2>2. CASE ~ coalescing
      BY <1>13, <1>15, <2>2
    <2> QED BY <2>1, <2>2
  <1>18. /\ r \in HFRange /\ r.location = point /\ MaxRange(r) <= Len(e.text)
    <2> DEFINE n == first.length + pb
    <2>1. n \in Nat /\ point + n = MaxRange(first)
      BY <1>3, <1>4, <1>6
    <2> HIDE DEF n
    <2>2. RangeMake(point, n) \in HFRange /\ RangeMake(point, n).location = point
          /\ MaxRange(RangeMake(point, n)) = point + n
      BY <1>6, <2>1, RangeMakeIs
    <2> QED BY <1>1, <2>1, <2>2 DEF n
  <1> HIDE DEF r
  <1>19. x \in Text /\ point + l <= Len(x) /\ Len(x) \in Nat
    <2>1. e.text \in Text
      BY <1>1 DEF Editor
    <2>2. x = Replaced(e.text, r, bytes)
      BY <1>17
    <2>3. RangeMake(point, l) \in HFRange /\ MaxRange(RangeMake(point, l)) <= Len(x) /\ x \in Text
      BY <1>3, <1>18, <2>1, <2>2, ReplacedBack
    <2>4. MaxRange(RangeMake(point, l)) = point + l
      BY <1>3, <1>6, RangeMakeIs
    <2>5. Len(x) \in Nat
      BY <2>3, LenProperties DEF Text
    <2> QED BY <2>3, <2>4, <2>5
  <1>20. u = [coalesced EXCEPT !.text = x, !.selection = <<RangeMake(point + l, 0)>>]
    BY <1>2, <1>17 DEF Editor
  <1> DEFINE sel == <<RangeMake(point + l, 0)>>
  <1>21. Usable(sel, Len(x)) /\ Strict(sel)
    <2> DEFINE k == point + l
               n == Len(x)
    <2>1. k \in Nat /\ n \in Nat /\ k <= n
      BY <1>3, <1>6, <1>19
    <2> HIDE DEF k, n
    <2>2. Usable(<<RangeMake(k, 0)>>, n) /\ Strict(<<RangeMake(k, 0)>>)
      BY <2>1, CursorUsable
    <2> QED BY <2>2 DEF k, n
  <1> HIDE DEF x, sel, u
  <1>22. sel \in Seq(HFRange)
    BY <1>21 DEF Usable
  <1>23. /\ u \in Editor /\ u.text = x /\ u.selection = sel /\ u.coalescer = coalesced.coalescer
         /\ u.undo = coalesced.undo /\ u.group = coalesced.group
    BY <1>17, <1>19, <1>20, <1>22 DEF Editor, sel
  <1>24. Linked(u)
    BY <1>17, <1>23 DEF Linked
  <1>25. u.coalescer # None => u.coalescer.action <= Len(u.text)
    BY <1>17, <1>19, <1>23
  <1>26. Result(u)
    BY <1>17, <1>21, <1>23, <1>24, <1>25 DEF Result
  <1>27. coalescing => u.selection = <<RangeMake(point + 1, 0)>>
    BY <1>16, <1>23 DEF sel
  <1>28. selection[1].location - previousBytes = point
    BY <1>1 DEF point
  <1> QED BY <1>6, <1>17, <1>23, <1>26, <1>27, <1>28 DEF u

\* Overwriting past the end is refused.  Else it removes what it covers from
\* the selection.
LEMMA OverwriteIs ==
  ASSUME Inv, editMode = "Overwrite",
         NEW bytes, NEW previousBytes, NEW coalescing, Input(bytes, previousBytes, coalescing),
         Len(bytes) > 0
  PROVE  LET u == overwriteModeCore(Here, bytes, previousBytes, coalescing)
             r == RangeMake(selection[1].location - previousBytes, Len(bytes))
         IN  /\ ~ Within(r, text) => u = Here
             /\ Within(r, text) =>
                  /\ Result(u)
                  /\ MaxRange(r) = (selection[1].location - previousBytes) + Len(bytes)
                  /\ coalescing =>
                        /\ u.coalescer # None /\ u.coalescer.action = MaxRange(r)
                        /\ Len(u.selection) = 1 /\ u.selection[1].length = 0
                             => u.selection[1].location = MaxRange(r)
                  /\ Saves(coalescer) => Saves(u.coalescer)
  <1> DEFINE point == selection[1].location - previousBytes
             l == Len(bytes)
             r == RangeMake(point, l)
             End(e) == IF coalescing THEN e ELSE endTypingUndoCoalescing(e)
             begun == End(Here)
             typed == CoalesceOverwriting(begun, r)
             coalesced == End(typed)
             u == overwriteModeCore(Here, bytes, previousBytes, coalescing)
             x == Replaced(text, r, bytes)
             q == removeRangeFromSelection(selection, r, MaxRange(r))
  <1>1. /\ Here \in Editor /\ Here.text = text /\ Here.selection = selection /\ Here.undo = undo
        /\ Here.coalescer = coalescer /\ Here.group = <<>> /\ Here.done /\ Linked(Here)
    BY HereIs DEF Here, Result
  <1>2. bytes \in Text /\ previousBytes \in {0, 1} /\ l \in Nat /\ l > 0 /\ coalescing \in BOOLEAN
    BY LenProperties DEF Input, Text
  <1>3. /\ text \in Text /\ Usable(selection, Len(text)) /\ Len(text) \in Nat
        /\ selection[1].location \in Nat
    <2>1. /\ text \in Text /\ Usable(selection, Len(text)) /\ Len(text) \in Nat
      BY LenProperties DEF Inv, TypeInv, Text
    <2>2. selection[1] \in HFRange
      <3>1. selection \in Seq(HFRange) /\ selection # <<>>
        BY <2>1 DEF Usable
      <3>2. 1 \in 1 .. Len(selection)
        BY <3>1, SeqFacts
      <3> QED BY <3>1, <3>2, SeqFacts
    <2> QED BY <2>1, <2>2, RangeFacts
  <1>4. ~ Within(r, text) => u = Here
    <2> HIDE DEF begun, typed, coalesced
    <2>1. r = RangeMake(Here.selection[1].location - previousBytes, Len(bytes))
      BY <1>1
    <2> HIDE DEF r
    <2> QED BY <1>1, <2>1 DEF overwriteModeCore
  <1> SUFFICES ASSUME Within(r, text)
               PROVE  /\ Result(u)
                      /\ MaxRange(r) = point + l
                      /\ coalescing =>
                            /\ u.coalescer # None /\ u.coalescer.action = MaxRange(r)
                            /\ Len(u.selection) = 1 /\ u.selection[1].length = 0
                                 => u.selection[1].location = MaxRange(r)
                      /\ Saves(coalescer) => Saves(u.coalescer)
    BY <1>4
  <1>5. u = [coalesced EXCEPT !.text = Replaced(@, r, bytes),
                              !.selection = removeRangeFromSelection(@, r, MaxRange(r))]
    <2> DEFINE h == Here.selection[1].location
    <2>1. u = LET s == RangeMake(h - previousBytes, Len(bytes))
              IN  IF ~ Within(s, Here.text) THEN Here
                  ELSE [End(CoalesceOverwriting(End(Here), s)) EXCEPT
                         !.text = Replaced(@, s, bytes),
                         !.selection = removeRangeFromSelection(@, s, MaxRange(s))]
      BY DEF overwriteModeCore
    <2>2. h = selection[1].location
      BY <1>1
    <2> HIDE DEF h, u
    <2> QED BY <1>1, <2>1, <2>2
  <1> HIDE DEF u
  <1>6. /\ r \in HFRange /\ r.length = l /\ MaxRange(r) = point + l /\ MaxRange(r) <= Len(text)
        /\ r.location = point /\ MaxRange(r) \in Nat /\ r.length > 0
    <2>1. point >= 0 /\ MaxRange(r) <= Len(text)
      BY DEF Within, RangeMake
    <2>2. point \in Int
      BY <1>2, <1>3
    <2>3. point \in Nat
      BY <2>1, <2>2
    <2> HIDE DEF point, l
    <2>4. r \in HFRange /\ r.length = l /\ r.location = point /\ MaxRange(r) = point + l
      BY <1>2, <2>3, RangeMakeIs
    <2> QED BY <1>2, <2>1, <2>3, <2>4
  <1> HIDE DEF r, point, l
  <1>7. /\ begun \in Editor /\ begun.text = text /\ begun.selection = selection /\ begun.undo = undo
        /\ begun.group = <<>> /\ begun.done
        /\ begun.coalescer = coalescer \/ begun.coalescer = None
    BY <1>1, <1>2, EndIs
  <1> HIDE DEF begun
  <1>8. begun.coalescer # None => begun.coalescer.anchor < begun.coalescer.action
    BY <1>7 DEF Inv, ModeInv
  <1>9. /\ IsTyped(typed, begun, r.location, MaxRange(r))
        /\ Saves(begun.coalescer) => Saves(typed.coalescer)
    <2>1. /\ IsTyped(typed, begun, r.location, MaxRange(r))
          /\ \/ begun.coalescer = None
             \/ Len(begun.coalescer.deleted) = begun.coalescer.action - begun.coalescer.anchor
             => Len(typed.coalescer.deleted) = typed.coalescer.action - typed.coalescer.anchor
      BY <1>6, <1>7, <1>8, OverwritingTyped
    <2> QED BY <2>1 DEF Saves
  <1> HIDE DEF typed
  <1>10. /\ typed \in Editor /\ Linked(typed) /\ typed.text = text /\ typed.selection = selection
         /\ typed.done /\ typed.coalescer # None /\ typed.coalescer \in TypingOperation
         /\ typed.coalescer.action = MaxRange(r) /\ typed.coalescer.anchor <= r.location
         /\ typed.group = <<>> => coalescer # None
         /\ Len(typed.undo) = Len(undo)
         /\ Saves(coalescer) => Saves(typed.coalescer)
    <2>1. Saves(None)
      BY DEF Saves
    <2> QED BY <1>7, <1>9, <2>1 DEF IsTyped
  <1>11. /\ coalesced \in Editor /\ Linked(coalesced)
         /\ coalesced.text = text /\ coalesced.selection = selection
         /\ coalesced.undo = typed.undo /\ coalesced.group = typed.group
         /\ coalesced.coalescer = IF coalescing THEN typed.coalescer ELSE None
    BY <1>2, <1>10, EndIs
  <1> HIDE DEF coalesced
  <1>12. u = [coalesced EXCEPT !.text = x, !.selection = q]
    BY <1>5, <1>11 DEF Editor
  <1>13. x \in Text /\ Len(x) = Len(text)
    <2>1. x \in Text /\ Len(x) = Len(text) - r.length + Len(bytes)
      BY <1>2, <1>3, <1>6, ReplacedIs
    <2> QED BY <1>2, <1>3, <1>6, <2>1 DEF l
  <1>14. /\ Usable(q, Len(text))
         /\ Len(q) = 1 /\ q[1].length = 0 => q[1].location = MaxRange(r)
    <2> DEFINE n == Len(text)
               c == MaxRange(r)
    <2>1. n \in Nat /\ c \in Nat /\ c <= n /\ Usable(selection, n)
      BY <1>3, <1>6
    <2> HIDE DEF n, c
    <2>2. /\ Usable(removeRangeFromSelection(selection, r, c), n)
          /\ Len(removeRangeFromSelection(selection, r, c)) = 1
             /\ removeRangeFromSelection(selection, r, c)[1].length = 0
               => removeRangeFromSelection(selection, r, c)[1].location = c
      BY <1>6, <2>1, RemoveUsable
    <2> QED BY <2>2 DEF n, c
  <1> HIDE DEF x, q
  <1>15. q \in Seq(HFRange)
    BY <1>14 DEF Usable
  <1>16. /\ u \in Editor /\ u.text = x /\ u.selection = q /\ u.coalescer = coalesced.coalescer
         /\ u.undo = coalesced.undo /\ u.group = coalesced.group
    BY <1>11, <1>12, <1>13, <1>15 DEF Editor
  <1>17. Linked(u)
    BY <1>11, <1>16 DEF Linked
  <1>18. u.coalescer # None => /\ coalescing /\ u.coalescer = typed.coalescer
                               /\ u.coalescer.action <= Len(u.text)
                               /\ u.coalescer.anchor < u.coalescer.action
    <2> SUFFICES ASSUME u.coalescer # None
                 PROVE  /\ coalescing /\ u.coalescer = typed.coalescer
                        /\ u.coalescer.action <= Len(u.text)
                        /\ u.coalescer.anchor < u.coalescer.action
      OBVIOUS
    <2>1. coalescing /\ u.coalescer = typed.coalescer
      BY <1>2, <1>11, <1>16
    <2>2. r.location < MaxRange(r) /\ r.location \in Nat
      BY <1>6, RangeFacts
    <2>3. typed.coalescer.anchor \in Nat
      BY <1>10, TypingFacts
    <2> QED BY <1>6, <1>10, <1>13, <1>16, <2>1, <2>2, <2>3
  <1>19. Result(u)
    BY <1>10, <1>11, <1>13, <1>14, <1>16, <1>17, <1>18 DEF Result
  <1>20. Saves(coalescer) => Saves(u.coalescer)
    <2>1. Saves(None)
      BY DEF Saves
    <2> QED BY <1>2, <1>10, <1>11, <1>16, <2>1
  <1>21. coalescing => /\ u.coalescer # None /\ u.coalescer.action = MaxRange(r)
                       /\ Len(u.selection) = 1 /\ u.selection[1].length = 0
                            => u.selection[1].location = MaxRange(r)
    BY <1>10, <1>11, <1>14, <1>16
  <1> QED BY <1>6, <1>19, <1>20, <1>21


\* Deleting the selection.
LEMMA DeletionIs ==
  ASSUME Inv
  PROVE  LET rs == organizeAndMergeRanges(selection)
             u == commandDeleteRanges(Here, rs)
         IN  /\ Result(u)
             /\ u.coalescer = None
             /\ Filled(selection) = {} => /\ u.text = text /\ u.selection = selection
                                          /\ u.undo = undo /\ u.group = <<>>
  <1> DEFINE rs == organizeAndMergeRanges(selection)
             ended == endTypingUndoCoalescing(Here)
             c == RegisterCondemnedRanges(ended, rs)
             x == DeleteRanges(text, rs)
             cursor == <<RangeMake(rs[1].location, 0)>>
             u == commandDeleteRanges(Here, rs)
  <1>1. /\ text \in Text /\ Usable(selection, Len(text)) /\ selection \in Seq(HFRange)
        /\ Ordered(selection) /\ EndBy(selection, Len(text)) /\ selection # <<>>
        /\ OneEmpty(selection) /\ Len(text) \in Nat
    BY LenProperties DEF Inv, TypeInv, Usable, Text
  <1>2. /\ Usable(rs, Len(text)) /\ rs[1].location = selection[1].location
        /\ \A k \in 1 .. Len(rs) : Sourced(rs[k], selection, Len(selection), k > 1)
    <2> DEFINE n == Len(text)
    <2>1. n \in Nat /\ EndBy(selection, n)
      BY <1>1
    <2> HIDE DEF n
    <2>2. /\ Usable(rs, n) /\ rs[1].location = selection[1].location
          /\ \A k \in 1 .. Len(rs) : Sourced(rs[k], selection, Len(selection), k > 1)
      BY <1>1, <2>1, OrganizedUsable
    <2> QED BY <2>2 DEF n
  <1>3. u = IF NotEmpty(rs) = <<>> THEN c
            ELSE [c EXCEPT !.text = DeleteRanges(@, rs), !.selection = cursor]
    <2> HIDE DEF rs
    <2> QED BY DEF commandDeleteRanges
  <1> HIDE DEF rs, u
  <1>4. rs \in Seq(HFRange) /\ Ordered(rs) /\ EndBy(rs, Len(text)) /\ rs # <<>>
    BY <1>2 DEF Usable
  <1>5. /\ ended \in Editor /\ ended.text = text /\ ended.selection = selection
        /\ ended.coalescer = None /\ ended.undo = undo /\ ended.group = <<>>
    <2>1. /\ Here \in Editor /\ Here.text = text /\ Here.selection = selection
          /\ Here.undo = undo /\ Here.group = <<>>
      BY HereIs DEF Here, Result
    <2> QED BY <2>1, EndIs
  <1> HIDE DEF ended
  <1>6. /\ c \in Editor /\ c.text = text /\ c.selection = selection
        /\ c.coalescer = None /\ c.undo = undo
        /\ NotEmpty(rs) = <<>> => c.group = <<>>
    BY <1>4, <1>5, CondemnedIs
  <1> HIDE DEF c
  <1>7. rs[1] \in HFRange /\ MaxRange(rs[1]) <= Len(text)
    <2>1. 1 \in 1 .. Len(rs) /\ DOMAIN rs = 1 .. Len(rs) /\ rs[1] \in HFRange
      BY <1>4, SeqFacts
    <2> QED BY <1>4, <2>1 DEF EndBy
  <1>8. rs[1].location \in Nat /\ rs[1].location <= Len(text)
        /\ \A i \in DOMAIN rs : rs[1].location <= rs[i].location
    <2>1. rs[1].location \in Nat /\ rs[1].location <= MaxRange(rs[1]) /\ MaxRange(rs[1]) \in Nat
      BY <1>7, RangeFacts
    <2>2. ASSUME NEW i \in DOMAIN rs PROVE rs[1].location <= rs[i].location
      <3>1. DOMAIN rs = 1 .. Len(rs) /\ Len(rs) \in Nat /\ rs[i] \in HFRange
        BY <1>4, SeqFacts
      <3>2. rs[i].location \in Nat
        BY <3>1, RangeFacts
      <3>3. CASE i = 1
        BY <2>1, <3>3
      <3>4. CASE i # 1
        <4>1. 1 \in DOMAIN rs /\ 1 < i
          BY <3>1, <3>4
        <4>2. MaxRange(rs[1]) <= rs[i].location
          BY <1>4, <4>1 DEF Ordered
        <4> QED BY <2>1, <3>2, <4>2
      <3> QED BY <3>3, <3>4
    <2> QED BY <1>1, <1>7, <2>1, <2>2
  <1>9. x \in Text /\ Usable(cursor, Len(x)) /\ Strict(cursor)
    <2> DEFINE b == rs[1].location
    <2>1. b \in Nat /\ b <= Len(text) /\ \A i \in DOMAIN rs : b <= rs[i].location
      BY <1>8
    <2> HIDE DEF b
    <2>2. x \in Text /\ b <= Len(x)
      BY <1>1, <1>4, <2>1, DeletedBegins DEF Begins
    <2> DEFINE n == Len(x)
    <2>3. n \in Nat
      BY <2>2, LenProperties DEF Text
    <2>4. b <= n
      BY <2>2
    <2> HIDE DEF n, x
    <2>5. Usable(<<RangeMake(b, 0)>>, n) /\ Strict(<<RangeMake(b, 0)>>)
      BY <2>1, <2>3, <2>4, CursorUsable
    <2> QED BY <2>2, <2>5 DEF b, n
  <1> HIDE DEF cursor
  <1>10. CASE NotEmpty(rs) = <<>>
    <2>1. u = c
      BY <1>3, <1>10
    <2>2. Linked(c)
      BY <1>6 DEF Linked
    <2>3. Result(c)
      BY <1>1, <1>6, <2>2 DEF Result
    <2> QED BY <1>6, <1>10, <2>1, <2>3 DEF u, rs
  <1>11. CASE NotEmpty(rs) # <<>>
    <2>1. u = [c EXCEPT !.text = x, !.selection = cursor]
      BY <1>3, <1>6, <1>11 DEF Editor
    <2>2. cursor \in Seq(HFRange)
      BY <1>9 DEF Usable
    <2> HIDE DEF x
    <2>3. /\ u \in Editor /\ u.text = x /\ u.selection = cursor /\ u.coalescer = None
          /\ u.undo = undo
      BY <1>6, <1>9, <2>1, <2>2 DEF Editor
    <2>4. Linked(u)
      BY <2>3 DEF Linked
    <2>5. Result(u)
      BY <1>9, <2>3, <2>4 DEF Result
    <2>6. Filled(selection) # {}
      <3>1. NotEmpty(rs) \in Seq(HFRange)
            /\ \A k \in DOMAIN NotEmpty(rs) :
                  NotEmpty(rs)[k].length > 0 /\ \E i \in DOMAIN rs : NotEmpty(rs)[k] = rs[i]
        BY <1>4, NotEmptyIs
      <3> DEFINE q == NotEmpty(rs)
      <3> HIDE DEF q
      <3>2. 1 \in DOMAIN q
        BY <1>11, <3>1, SeqFacts DEF q
      <3>3. PICK k \in DOMAIN rs : rs[k].length > 0
        BY <3>1, <3>2 DEF q
      <3>4. k \in 1 .. Len(rs)
        BY <1>4, SeqFacts
      <3>5. PICK w \in 1 .. Len(selection) : selection[w].length > 0
        BY <1>2, <3>3, <3>4 DEF Sourced
      <3>6. w \in DOMAIN selection
        BY <1>1, SeqFacts
      <3> QED BY <3>5, <3>6 DEF Filled
    <2> QED BY <2>3, <2>5, <2>6 DEF u, rs
  <1> QED BY <1>10, <1>11

\* Deleting the byte beside the caret.
LEMMA ByteDeletionIs ==
  ASSUME Inv, NEW r, r.length = 1, r = RangeMake(r.location, r.length),
         r.location \in Int, Within(r, text), editMode = "Insert"
  PROVE  Result([CoalesceReplacing(Here, r, 0)
                    EXCEPT !.text = Replaced(@, r, <<>>),
                           !.selection = <<RangeMake(r.location, 0)>>])
  <1> DEFINE typed == CoalesceReplacing(Here, r, 0)
             x == Replaced(text, r, <<>>)
             n == Len(x)
             cursor == <<RangeMake(r.location, 0)>>
             u == [typed EXCEPT !.text = Replaced(@, r, <<>>), !.selection = cursor]
  <1>1. /\ Here \in Editor /\ Here.text = text /\ Here.selection = selection /\ Here.undo = undo
        /\ Here.coalescer = coalescer /\ Here.group = <<>>
    BY HereIs DEF Here, Result
  <1>2. text \in Text /\ Len(text) \in Nat
    BY LenProperties DEF Inv, TypeInv, Text
  <1>3. r \in HFRange /\ r.location \in Nat /\ MaxRange(r) <= Len(text)
    <2>1. r.location >= 0 /\ MaxRange(r) <= Len(text)
      BY DEF Within
    <2>2. r.location \in Nat
      BY <2>1
    <2>3. RangeMake(r.location, 1) \in HFRange
      <3>1. 1 \in Nat
        OBVIOUS
      <3> QED BY <2>2, <3>1, RangeMakeIs
    <2>4. r = RangeMake(r.location, 1)
      BY Zenon
    <2> QED BY <2>1, <2>2, <2>3, <2>4
  <1>4. IsTyped(typed, Here, r.location, r.location + 0)
    <2>1. 0 \in Nat /\ r.length > 0
      OBVIOUS
    <2> QED BY <1>1, <1>3, <2>1, ReplacingTyped
  <1>5. /\ typed \in Editor /\ Linked(typed) /\ typed.text = text
        /\ typed.coalescer # None /\ typed.coalescer.action = r.location
        /\ typed.group = <<>> => coalescer # None
        /\ Len(typed.undo) = Len(undo)
    BY <1>1, <1>3, <1>4 DEF IsTyped
  <1> HIDE DEF typed
  <1>6. u = [typed EXCEPT !.text = x, !.selection = cursor]
    BY <1>5 DEF Editor
  <1>7. x \in Text /\ n \in Nat /\ r.location <= n
    <2>1. <<>> \in Text /\ Len(<<>>) = 0
      BY DEF Text
    <2>2. x \in Text /\ n = Len(text) - r.length + 0
      BY <1>2, <1>3, <2>1, ReplacedIs
    <2>3. MaxRange(r) = r.location + r.length
      BY DEF MaxRange
    <2> QED BY <1>2, <1>3, <2>2, <2>3
  <1> HIDE DEF x, n, u
  <1>8. Usable(cursor, n) /\ Strict(cursor)
    BY <1>3, <1>7, CursorUsable
  <1> HIDE DEF cursor
  <1>9. cursor \in Seq(HFRange)
    BY <1>8 DEF Usable
  <1>10. /\ u \in Editor /\ u.text = x /\ u.selection = cursor /\ u.coalescer = typed.coalescer
         /\ u.undo = typed.undo /\ u.group = typed.group
    BY <1>5, <1>6, <1>7, <1>9 DEF Editor
  <1>11. Linked(u)
    BY <1>5, <1>10 DEF Linked
  <1>12. Result(u)
    BY <1>5, <1>7, <1>8, <1>10, <1>11 DEF Result, n
  <1> QED BY <1>12 DEF u, cursor, typed

\* Replace All puts in all of the text at once.
LEMMA ReplacementIs ==
  ASSUME Inv, NEW bytes \in Text
  PROVE  LET o == Inserting(<<bytes>>, <<RangeMake(0, Len(text))>>, "Preserve")
             u == commandInsertByteArrays(Here, o)
         IN  u.done => Result(u) /\ u.coalescer = None
  <1> DEFINE n == Len(text)
             r == RangeMake(0, n)
             o == Inserting(<<bytes>>, <<r>>, "Preserve")
             u == commandInsertByteArrays(Here, o)
  <1>1. n \in Nat
    BY LenProperties DEF Inv, TypeInv, Text
  <1> HIDE DEF n
  <1>2. r \in HFRange
    BY <1>1, RangeMakeIs
  <1> HIDE DEF r
  <1>3. <<bytes>> \in Seq(Text) /\ <<r>> \in Seq(HFRange) /\ Len(<<bytes>>) = 1
        /\ Len(<<r>>) = 1 /\ <<r>> # <<>>
    BY <1>2
  <1>4. o \in RangesOperation
    BY <1>3 DEF Inserting, RangesOperation
  <1> HIDE DEF o
  <1>5. Here \in UsableEditor /\ Here.done /\ Here.undo = undo
    BY HereIs DEF Here
  <1>6. PerformedFrom(u, Here) /\ (u.done => u.coalescer = None)
    BY <1>4, <1>5, RangesPerformed
  <1> HIDE DEF u
  <1>7. u.done => /\ u \in Editor /\ Usable(u.selection, Len(u.text)) /\ u.coalescer = None
                  /\ u.undo = undo
    BY <1>5, <1>6 DEF PerformedFrom, UsableEditor
  <1>8. u.done => Result(u)
    BY <1>7 DEF Result, Linked
  <1> QED BY <1>7, <1>8 DEF u, o, r, n


\* What a step keeps.  What has been typed over is saved, and what is open can
\* be undone, as long as no save forgets a string of typing.
Keeps ==
    /\ Inv'
    /\ OpenIsUndoable => OpenIsUndoable'
    /\ OverwritingSavesWhatItCovers => OverwritingSavesWhatItCovers'

\* Overwriting saves what it covers if the coalescer of the result does.
LEMMA SavesIs ==
  ASSUME NEW e, editMode' = editMode, coalescer' = e.coalescer,
         editMode = "Overwrite" /\ Saves(coalescer) => Saves(e.coalescer)
  PROVE  OverwritingSavesWhatItCovers => OverwritingSavesWhatItCovers'
  <1>1. OverwritingSavesWhatItCovers <=> (editMode = "Overwrite" => Saves(coalescer))
    BY DEF OverwritingSavesWhatItCovers, Saves
  <1>2. OverwritingSavesWhatItCovers' <=> (editMode' = "Overwrite" => Saves(coalescer'))
    BY DEF OverwritingSavesWhatItCovers, Saves
  <1> QED BY <1>1, <1>2

\* An event after which no digit is pending.
LEMMA ForgettingKeeps ==
  ASSUME Inv, NEW e, Result(e), Become(e), ForgetDigit,
         editMode = "Overwrite" /\ Saves(coalescer) => Saves(e.coalescer)
  PROVE  Keeps
  <1>1. /\ text' \in Text /\ Usable(selection, Len(text))' /\ editMode' = editMode
        /\ (coalescer \in TypingOperation \cup {None})'
        /\ (coalescer # None => coalescer.action <= Len(text))'
        /\ (undo \in Seq(Group))' /\ (redo \in Seq(Group))'
        /\ LastEdit' /\ ModeInv'
        /\ coalescer' = e.coalescer
        /\ OpenIsUndoable => OpenIsUndoable'
    BY BecomeKeeps
  <1>2. editMode' \in {"Insert", "Overwrite", "ReadOnly"}
    BY <1>1 DEF Inv, TypeInv
  <1>3. omitted' = NotOmitted
    BY DEF ForgetDigit
  <1>4. TypeInv'
    BY <1>1, <1>2, <1>3 DEF TypeInv
  <1>5. SecondDigitCompletesFirst'
    BY <1>3 DEF SecondDigitCompletesFirst, insertionShouldDeleteLastNybble
  <1>6. OverwritingSavesWhatItCovers => OverwritingSavesWhatItCovers'
    BY <1>1, SavesIs
  <1> QED BY <1>1, <1>4, <1>5, <1>6 DEF Keeps, Inv

\* An event that changes no bytes and not the selection.
LEMMA StayingKeeps ==
  ASSUME Inv, NEW e, Result(e), Become(e), UNCHANGED omitted,
         e.text = text, e.selection = selection, e.undo = undo, e.group = <<>>,
         editMode = "Overwrite" /\ Saves(coalescer) => Saves(e.coalescer)
  PROVE  Keeps
  <1>1. /\ text' \in Text /\ Usable(selection, Len(text))' /\ editMode' = editMode
        /\ (coalescer \in TypingOperation \cup {None})'
        /\ (coalescer # None => coalescer.action <= Len(text))'
        /\ (undo \in Seq(Group))' /\ (redo \in Seq(Group))'
        /\ LastEdit' /\ ModeInv'
        /\ text' = e.text /\ selection' = e.selection /\ coalescer' = e.coalescer
        /\ undo' = IF e.group = <<>> THEN e.undo ELSE Append(e.undo, e.group)
        /\ OpenIsUndoable => OpenIsUndoable'
    BY BecomeKeeps
  <1>2. text' = text /\ selection' = selection /\ undo' = undo /\ omitted' = omitted
    BY <1>1
  <1>3. editMode' \in {"Insert", "Overwrite", "ReadOnly"}
        /\ (omitted' = NotOmitted \/ omitted' \in 0 .. (Len(text') - 1))
    BY <1>1, <1>2 DEF Inv, TypeInv
  <1>4. TypeInv'
    BY <1>1, <1>3 DEF TypeInv
  <1>5. SecondDigitCompletesFirst'
    BY <1>2 DEF Inv, SecondDigitCompletesFirst, insertionShouldDeleteLastNybble
  <1>6. OverwritingSavesWhatItCovers => OverwritingSavesWhatItCovers'
    BY <1>1, SavesIs
  <1> QED BY <1>1, <1>4, <1>5, <1>6 DEF Keeps, Inv

\* An event after which the digit before the selection is pending.
LEMMA PendingKeeps ==
  ASSUME Inv, NEW e, Result(e), Become(e), omitted' = e.selection[1].location - 1,
         e.coalescer # None,
         \A k \in Nat : e.selection = <<RangeMake(k, 0)>>
                            => e.coalescer.action = k /\ e.coalescer.anchor < k,
         editMode = "Overwrite" /\ Saves(coalescer) => Saves(e.coalescer)
  PROVE  Keeps
  <1>1. /\ text' \in Text /\ Usable(selection, Len(text))' /\ editMode' = editMode
        /\ (coalescer \in TypingOperation \cup {None})'
        /\ (coalescer # None => coalescer.action <= Len(text))'
        /\ (undo \in Seq(Group))' /\ (redo \in Seq(Group))'
        /\ LastEdit' /\ ModeInv'
        /\ text' = e.text /\ selection' = e.selection /\ coalescer' = e.coalescer
        /\ OpenIsUndoable => OpenIsUndoable'
    BY BecomeKeeps
  <1>2. editMode' \in {"Insert", "Overwrite", "ReadOnly"}
    BY <1>1 DEF Inv, TypeInv
  <1> DEFINE first == e.selection[1]
  <1>3. first \in HFRange /\ MaxRange(first) <= Len(text') /\ Len(text') \in Nat
    <2>1. Usable(selection', Len(text')) /\ selection' = e.selection
      BY <1>1
    <2>2. e.selection \in Seq(HFRange) /\ e.selection # <<>> /\ EndBy(e.selection, Len(text'))
      BY <2>1 DEF Usable
    <2>3. 1 \in 1 .. Len(e.selection) /\ DOMAIN e.selection = 1 .. Len(e.selection) /\ first \in HFRange
      BY <2>2, SeqFacts
    <2>4. Len(text') \in Nat
      BY <1>1, LenProperties DEF Text
    <2> QED BY <2>2, <2>3, <2>4 DEF EndBy
  <1>4. first.location \in Nat /\ first.location <= Len(text')
    BY <1>3, RangeFacts
  <1>5. omitted' = first.location - 1
    OBVIOUS
  <1> HIDE DEF first
  <1>6. omitted' = NotOmitted \/ omitted' \in 0 .. (Len(text') - 1)
    <2> DEFINE n == Len(text')
               a == first.location
    <2>1. n \in Nat /\ a \in Nat /\ a <= n /\ omitted' = a - 1
      BY <1>3, <1>4, <1>5
    <2> HIDE DEF n, a
    <2>2. a - 1 = -1 \/ a - 1 \in 0 .. n - 1
      <3> HIDE <1>5
      <3>1. CASE a = 0
        BY <3>1
      <3>2. CASE a # 0
        <4>1. a - 1 \in Int /\ 0 <= a - 1 /\ a - 1 <= n - 1 /\ n - 1 \in Int
          BY <2>1, <3>2
        <4> QED BY <4>1
      <3> QED BY <3>1, <3>2
    <2> QED BY <2>1, <2>2 DEF NotOmitted, n
  <1>7. TypeInv'
    BY <1>1, <1>2, <1>6 DEF TypeInv
  <1>8. SecondDigitCompletesFirst'
    <2> SUFFICES ASSUME selection' = <<RangeMake(omitted' + 1, 0)>>, undo' # <<>>
                 PROVE  LET operation == Last(Last(undo'))
                        IN  /\ operation.kind = "typing"
                            /\ operation.anchor <= omitted'
                            /\ operation.action = omitted' + 1
      BY DEF SecondDigitCompletesFirst, insertionShouldDeleteLastNybble
    <2> DEFINE k == omitted' + 1
    <2>1. k \in Nat /\ k = first.location
      BY <1>4, <1>5
    <2>2. e.selection = <<RangeMake(k, 0)>>
      BY <1>1
    <2> HIDE DEF k
    <2>3. e.coalescer.action = k /\ e.coalescer.anchor < k
      BY <2>1, <2>2
    <2>4. e.coalescer \in TypingOperation
      BY <1>1
    <2>5. Last(Last(undo')) = e.coalescer
      BY <1>1 DEF LastEdit
    <2>6. e.coalescer.kind = "typing" /\ e.coalescer.anchor \in Nat
      BY <2>4, TypingFacts
    <2>7. omitted' = k - 1
      BY <1>4, <1>5, <2>1
    <2> HIDE <1>5
    <2> QED BY <2>1, <2>3, <2>5, <2>6, <2>7
  <1>9. OverwritingSavesWhatItCovers => OverwritingSavesWhatItCovers'
    BY <1>1, SavesIs
  <1> QED BY <1>1, <1>7, <1>8, <1>9 DEF Keeps, Inv

\* The editor as it is.
LEMMA RefusedKeeps ==
  ASSUME Inv, Become(Here), UNCHANGED omitted \/ ForgetDigit
  PROVE  Keeps
  <1>1. Result(Here)
    BY HereIs
  <1>2. /\ Here.text = text /\ Here.selection = selection /\ Here.undo = undo
        /\ Here.group = <<>> /\ Here.coalescer = coalescer
    BY DEF Here
  <1> DEFINE e == Here
  <1> HIDE DEF e
  <1>3. /\ Result(e) /\ Become(e) /\ e.text = text /\ e.selection = selection /\ e.undo = undo
        /\ e.group = <<>> /\ e.coalescer = coalescer
    BY <1>1, <1>2 DEF e
  <1>4. CASE UNCHANGED omitted
    BY <1>3, <1>4, StayingKeeps
  <1>5. CASE ForgetDigit
    BY <1>3, <1>5, ForgettingKeeps
  <1> QED BY <1>4, <1>5


\* What a command puts in.
LEMMA InputKeeps ==
  ASSUME Inv, NEW bytes, NEW previousBytes, NEW coalescing,
         Input(bytes, previousBytes, coalescing), editMode = "Overwrite" => Len(bytes) > 0,
         Become(insertByteArray(bytes, previousBytes, coalescing)),
         IF Accepts(Len(bytes), previousBytes)
         THEN \/ ForgetDigit
              \/ coalescing /\ omitted' = selection'[1].location - 1
         ELSE UNCHANGED omitted \/ ForgetDigit
  PROVE  Keeps
  <1> DEFINE u == insertByteArray(bytes, previousBytes, coalescing)
  <1>1. selection' = u.selection
    BY DEF Become
  <1>2. CASE editMode # "Overwrite"
    <2> DEFINE v == insertionModeCore(Here, bytes, previousBytes, coalescing)
               point == selection[1].location - previousBytes
    <2>1. u = v /\ Accepts(Len(bytes), previousBytes)
      BY <1>2 DEF insertByteArray, Accepts
    <2>2. /\ Result(v)
          /\ coalescing => /\ point \in Nat
                           /\ v.selection = <<RangeMake(point + 1, 0)>>
                           /\ v.coalescer # None
                           /\ v.coalescer.action = point + 1 /\ v.coalescer.anchor <= point
      BY <1>2, InsertionIs
    <2>3. CASE ForgetDigit
      <3> HIDE DEF u, v
      <3> QED BY <1>2, <2>1, <2>2, <2>3, ForgettingKeeps DEF u
    <2>4. CASE coalescing /\ omitted' = selection'[1].location - 1
      <3> HIDE DEF u, v, point
      <3>1. /\ point \in Nat /\ v.selection = <<RangeMake(point + 1, 0)>>
            /\ v.coalescer # None
            /\ v.coalescer.action = point + 1 /\ v.coalescer.anchor <= point
        BY <2>2, <2>4
      <3>2. v.coalescer.anchor \in Nat
        <4>1. v.coalescer \in TypingOperation
          BY <2>2, <3>1 DEF Result, Editor
        <4> QED BY <4>1, TypingFacts
      <3>3. ASSUME NEW k \in Nat, v.selection = <<RangeMake(k, 0)>>
            PROVE  v.coalescer.action = k /\ v.coalescer.anchor < k
        <4>1. RangeMake(k, 0) = RangeMake(point + 1, 0)
          BY <3>1, <3>3
        <4>2. k = point + 1
          BY <4>1 DEF RangeMake
        <4> QED BY <3>1, <3>2, <4>2
      <3>4. omitted' = v.selection[1].location - 1
        BY <1>1, <2>1, <2>4
      <3>5. Become(v)
        BY <2>1 DEF u
      <3>6. editMode = "Overwrite" /\ Saves(coalescer) => Saves(v.coalescer)
        BY <1>2
      <3> QED BY <2>2, <3>1, <3>3, <3>4, <3>5, <3>6, PendingKeeps
    <2> QED BY <2>1, <2>3, <2>4
  <1>3. CASE editMode = "Overwrite"
    <2> DEFINE v == overwriteModeCore(Here, bytes, previousBytes, coalescing)
               point == selection[1].location - previousBytes
               l == Len(bytes)
               r == RangeMake(point, l)
    <2>1. u = v /\ (Accepts(l, previousBytes) <=> Within(r, text))
      BY <1>3 DEF insertByteArray, Accepts
    <2>2. /\ ~ Within(r, text) => v = Here
          /\ Within(r, text) =>
               /\ Result(v) /\ MaxRange(r) = point + l
               /\ coalescing =>
                     /\ v.coalescer # None /\ v.coalescer.action = MaxRange(r)
                     /\ Len(v.selection) = 1 /\ v.selection[1].length = 0
                          => v.selection[1].location = MaxRange(r)
               /\ Saves(coalescer) => Saves(v.coalescer)
      BY <1>3, OverwriteIs
    <2> HIDE DEF u, v, point, r
    <2>3. CASE ~ Within(r, text)
      <3>1. Become(Here) /\ (UNCHANGED omitted \/ ForgetDigit)
        BY <2>1, <2>2, <2>3 DEF u
      <3> QED BY <3>1, RefusedKeeps
    <2>4. CASE Within(r, text) /\ ForgetDigit
      BY <2>1, <2>2, <2>4, ForgettingKeeps DEF u
    <2>5. CASE Within(r, text) /\ coalescing /\ omitted' = selection'[1].location - 1
      <3>1. /\ Result(v) /\ v.coalescer # None /\ v.coalescer.action = MaxRange(r)
            /\ Len(v.selection) = 1 /\ v.selection[1].length = 0
                          => v.selection[1].location = MaxRange(r)
            /\ Saves(coalescer) => Saves(v.coalescer)
        BY <2>2, <2>5
      <3>2. v.coalescer.anchor < v.coalescer.action
        BY <1>3, <3>1 DEF Result
      <3>3. ASSUME NEW k \in Nat, v.selection = <<RangeMake(k, 0)>>
            PROVE  v.coalescer.action = k /\ v.coalescer.anchor < k
        <4>1. Len(v.selection) = 1 /\ v.selection[1].length = 0 /\ v.selection[1].location = k
          BY <3>3 DEF RangeMake
        <4> QED BY <3>1, <3>2, <4>1
      <3>4. omitted' = v.selection[1].location - 1
        BY <1>1, <2>1, <2>5
      <3>5. Become(v)
        BY <2>1 DEF u
      <3> QED BY <3>1, <3>3, <3>4, <3>5, PendingKeeps
    <2> QED BY <2>1, <2>3, <2>4, <2>5 DEF l
  <1> QED BY <1>2, <1>3

\* A digit.
LEMMA DigitKeeps ==
  ASSUME Inv, NEW byte \in Typed, typeDigit(byte)
  PROVE  Keeps
  <1> DEFINE second == insertionShouldDeleteLastNybble
             previousBytes == IF second THEN 1 ELSE 0
             bytes == <<byte>>
  <1>1. /\ Become(insertByteArray(bytes, previousBytes, TRUE))
        /\ omitted' = IF ~second /\ Accepts(1, previousBytes)
                      THEN selection'[1].location - 1 ELSE NotOmitted
    BY DEF typeDigit
  <1>2. bytes \in Text /\ Len(bytes) = 1
    BY ControllerUndoAssumption DEF Text
  <1>3. Input(bytes, previousBytes, TRUE)
    <2>1. ASSUME second PROVE \E n \in Nat : selection = <<RangeMake(n + 1, 0)>>
      <3>1. omitted \in 0 .. (Len(text) - 1) /\ selection = <<RangeMake(omitted + 1, 0)>>
        BY <2>1 DEF insertionShouldDeleteLastNybble, Inv, TypeInv
      <3>2. omitted \in Nat
        BY <3>1
      <3> QED BY <3>1, <3>2
    <2> HIDE DEF bytes, second
    <2> QED BY <1>2, <2>1 DEF Input
  <1>4. IF Accepts(1, previousBytes)
        THEN ForgetDigit \/ omitted' = selection'[1].location - 1
        ELSE ForgetDigit
    BY <1>1 DEF ForgetDigit
  <1> HIDE DEF bytes, second, previousBytes
  <1>5. Len(bytes) > 0 /\ Len(bytes) = 1
    BY <1>2
  <1>6. IF Accepts(Len(bytes), previousBytes)
        THEN ForgetDigit \/ omitted' = selection'[1].location - 1
        ELSE ForgetDigit
    BY <1>4, <1>5
  <1> QED BY <1>1, <1>3, <1>5, <1>6, InputKeeps

\* A character.
LEMMA CharacterKeeps ==
  ASSUME Inv, NEW byte \in Typed, typeCharacter(byte)
  PROVE  Keeps
  <1> DEFINE bytes == <<byte>>
  <1>1. /\ Become(insertByteArray(bytes, 0, TRUE))
        /\ IF Accepts(1, 0) THEN ForgetDigit ELSE UNCHANGED omitted
    BY DEF typeCharacter
  <1>2. bytes \in Text /\ Len(bytes) = 1
    BY ControllerUndoAssumption DEF Text
  <1> HIDE DEF bytes
  <1>3. Input(bytes, 0, TRUE)
    BY <1>2 DEF Input
  <1>4. Len(bytes) > 0 /\ Len(bytes) = 1
    BY <1>2
  <1>5. IF Accepts(Len(bytes), 0) THEN ForgetDigit ELSE UNCHANGED omitted
    BY <1>1, <1>4
  <1> QED BY <1>1, <1>3, <1>4, <1>5, InputKeeps

\* Pasting.
LEMMA PasteKeeps ==
  ASSUME Inv, NEW bytes \in Pasted, paste(bytes)
  PROVE  Keeps
  <1>1. /\ Become(insertByteArray(bytes, 0, FALSE))
        /\ IF Accepts(Len(bytes), 0) THEN ForgetDigit ELSE UNCHANGED omitted
        /\ editMode = "Overwrite" => bytes # <<>>
    BY DEF paste
  <1>2. bytes \in Text
    BY ControllerUndoAssumption DEF Text
  <1>3. Input(bytes, 0, FALSE)
    BY <1>2 DEF Input
  <1>4. editMode = "Overwrite" => Len(bytes) > 0
    BY <1>1, <1>2, SeqFacts DEF Text
  <1> QED BY <1>1, <1>3, <1>4, InputKeeps

\* Deleting the selection.
LEMMA SelectionDeletedKeeps ==
  ASSUME Inv, deleteSelection
  PROVE  Keeps
  <1> DEFINE u == commandDeleteRanges(Here, organizeAndMergeRanges(selection))
  <1>1. Become(u) /\ (IF Filled(selection) # {} THEN ForgetDigit ELSE UNCHANGED omitted)
    BY DEF deleteSelection
  <1>2. /\ Result(u) /\ u.coalescer = None
        /\ Filled(selection) = {} => /\ u.text = text /\ u.selection = selection
                                     /\ u.undo = undo /\ u.group = <<>>
    BY DeletionIs
  <1> HIDE DEF u
  <1>3. Saves(u.coalescer)
    BY <1>2 DEF Saves
  <1>4. CASE Filled(selection) # {}
    BY <1>1, <1>2, <1>3, <1>4, ForgettingKeeps
  <1>5. CASE Filled(selection) = {}
    BY <1>1, <1>2, <1>3, <1>5, StayingKeeps
  <1> QED BY <1>4, <1>5

\* Deleting beside the caret.
LEMMA DirectionKeeps ==
  ASSUME Inv, NEW left \in BOOLEAN, deleteDirection(left)
  PROVE  Keeps
  <1> DEFINE first == selection[1].location
             r == RangeMake(IF left THEN first - 1 ELSE first, 1)
             u == [CoalesceReplacing(Here, r, 0)
                      EXCEPT !.text = Replaced(@, r, <<>>),
                             !.selection = <<RangeMake(r.location, 0)>>]
  <1>1. CASE selection # <<RangeMake(first, 0)>>
    BY <1>1, SelectionDeletedKeeps DEF deleteDirection
  <1>2. CASE selection = <<RangeMake(first, 0)>>
    <2>1. editMode = "Insert" /\ Within(r, text) /\ Become(u) /\ ForgetDigit
      BY <1>2 DEF deleteDirection
    <2>2. first \in Nat
      <3>1. selection \in Seq(HFRange) /\ selection # <<>>
        BY DEF Inv, TypeInv, Usable
      <3>2. selection[1] \in HFRange
        BY <3>1, SeqFacts
      <3> QED BY <3>2, RangeFacts
    <2> HIDE DEF first, u
    <2>3. r.location \in Int /\ r.length = 1 /\ r = RangeMake(r.location, r.length)
      BY <2>2 DEF RangeMake
    <2> HIDE DEF r
    <2>4. Result(u)
      BY <2>1, <2>3, ByteDeletionIs DEF u
    <2> QED BY <2>1, <2>4, ForgettingKeeps
  <1> QED BY <1>1, <1>2

\* Replace All.
LEMMA ReplaceKeeps ==
  ASSUME Inv, NEW bytes \in Replacing, replaceByteArray(bytes)
  PROVE  Keeps
  <1> DEFINE u == commandInsertByteArrays(Here,
                    Inserting(<<bytes>>, <<RangeMake(0, Len(text))>>, "Preserve"))
  <1>1. Become(u) /\ ForgetDigit
    BY DEF replaceByteArray
  <1>2. bytes \in Text
    BY ControllerUndoAssumption DEF Text
  <1>3. u.done => Result(u) /\ u.coalescer = None
    BY <1>2, ReplacementIs
  <1> HIDE DEF u
  <1>4. u.done
    BY <1>1 DEF Become
  <1> QED BY <1>1, <1>3, <1>4, ForgettingKeeps DEF Saves


\* A save that forgets the history.
LEMMA ForgetHistoryKeeps ==
  ASSUME Inv, removeAllUndoOperations
  PROVE  Inv' /\ (~ ForgetsWhileTyping => Keeps)
  <1>1. /\ coalescer = None \/ ForgetsWhileTyping
        /\ undo' = <<>> /\ redo' = <<>>
        /\ coalescer' = IF coalescer = None THEN None ELSE [coalescer EXCEPT !.deleted = <<>>]
        /\ text' = text /\ selection' = selection /\ editMode' = editMode /\ omitted' = omitted
    BY DEF removeAllUndoOperations
  <1>2. coalescer # None =>
            /\ coalescer' \in TypingOperation /\ coalescer # None
            /\ coalescer'.action = coalescer.action /\ coalescer'.anchor = coalescer.anchor
    <2> SUFFICES ASSUME coalescer # None
                 PROVE  /\ coalescer' \in TypingOperation
                        /\ coalescer'.action = coalescer.action
                        /\ coalescer'.anchor = coalescer.anchor
      OBVIOUS
    <2>1. coalescer \in TypingOperation /\ <<>> \in Text
      BY DEF Inv, TypeInv, Text
    <2>2. coalescer' = [coalescer EXCEPT !.deleted = <<>>]
      BY <1>1
    <2> HIDE <1>1
    <2> QED BY <2>1, <2>2 DEF TypingOperation
  <1>3. /\ undo' \in Seq(Group) /\ redo' \in Seq(Group)
    <2>1. <<>> \in Seq(Group)
      OBVIOUS
    <2> QED BY <1>1, <2>1
  <1>4. TypeInv'
    BY <1>1, <1>2, <1>3 DEF Inv, TypeInv
  <1>5. LastEdit'
    BY <1>1 DEF LastEdit
  <1>6. ModeInv'
    BY <1>1, <1>2 DEF Inv, ModeInv
  <1>7. SecondDigitCompletesFirst'
    BY <1>1 DEF SecondDigitCompletesFirst
  <1>8. Inv'
    BY <1>4, <1>5, <1>6, <1>7 DEF Inv
  <1>9. ~ ForgetsWhileTyping => coalescer' = None
    BY <1>1
  <1> QED BY <1>8, <1>9 DEF Keeps, OpenIsUndoable, OverwritingSavesWhatItCovers

\* Undoing and redoing end the string of typing.
LEMMA PerformedKeeps ==
  ASSUME Inv, NEW group \in Group, NEW redoing \in BOOLEAN,
         NEW e \in UsableEditor, e.group = <<>>, e.coalescer = None,
         LET u == PerformGroup(e, group, redoing)
         IN  /\ u.done /\ text' = u.text /\ selection' = u.selection
             /\ coalescer' = u.coalescer
             /\ u.group \in Group => undo' \in Seq(Group) /\ redo' \in Seq(Group),
         ForgetDigit, UNCHANGED editMode
  PROVE  Keeps
  <1> DEFINE u == PerformGroup(e, group, redoing)
  <1>1. /\ u \in Editor
        /\ u.done => /\ Usable(u.selection, Len(u.text))
                     /\ u.coalescer = None /\ u.undo = e.undo /\ u.group \in Group
    BY GroupPerformedIs
  <1>2. /\ u.done /\ text' = u.text /\ selection' = u.selection
        /\ coalescer' = u.coalescer
        /\ u.group \in Group => undo' \in Seq(Group) /\ redo' \in Seq(Group)
    OBVIOUS
  <1> HIDE DEF u
  <1>3. text' \in Text
    BY <1>1, <1>2 DEF Editor
  <1>4. coalescer' = None
    BY <1>1, <1>2
  <1>5. editMode' = editMode /\ omitted' = NotOmitted
    BY DEF ForgetDigit
  <1>6. TypeInv'
    BY <1>1, <1>2, <1>3, <1>4, <1>5 DEF Inv, TypeInv
  <1>7. LastEdit' /\ ModeInv' /\ SecondDigitCompletesFirst'
    BY <1>4, <1>5 DEF LastEdit, ModeInv, SecondDigitCompletesFirst, insertionShouldDeleteLastNybble
  <1> QED BY <1>4, <1>6, <1>7 DEF Keeps, Inv, OpenIsUndoable, OverwritingSavesWhatItCovers

\* A stack without its last element, and with one more.
LEMMA StackIs ==
  ASSUME NEW s \in Seq(Group), NEW t \in Seq(Group), s # <<>>
  PROVE  /\ Last(s) \in Group /\ Front(s) \in Seq(Group)
         /\ \A g \in Group : Append(t, g) \in Seq(Group)
  <1>1. Last(s) \in Group
    BY LastIs
  <1>2. Front(s) \in Seq(Group)
    <2> DEFINE m == Len(s)
    <2>1. m \in Nat /\ m > 0 /\ \A i \in 1 .. m : s[i] \in Group
      BY SeqFacts
    <2>2. 1 \in Int /\ m - 1 \in Int /\ \A i \in 1 .. m - 1 : s[i] \in Group
      BY <2>1
    <2>3. SubSeq(s, 1, m - 1) \in Seq(Group)
      <3> HIDE DEF m
      <3> QED BY <2>2, SubSeqProperties
    <2> QED BY <2>3 DEF Front
  <1>3. \A g \in Group : Append(t, g) \in Seq(Group)
    BY AppendProperties
  <1> QED BY <1>1, <1>2, <1>3

\* Undoing.
LEMMA UndoKeeps ==
  ASSUME Inv, undoChanges
  PROVE  Keeps
  <1> DEFINE e == endTypingUndoCoalescing(Here)
             u == PerformGroup(e, Last(undo), FALSE)
  <1>1. /\ undo # <<>> /\ u.done /\ text' = u.text /\ selection' = u.selection
        /\ coalescer' = u.coalescer /\ undo' = Front(undo) /\ redo' = Append(redo, u.group)
        /\ ForgetDigit /\ UNCHANGED editMode
    BY DEF undoChanges
  <1>2. undo \in Seq(Group) /\ redo \in Seq(Group)
    BY DEF Inv, TypeInv
  <1>3. Last(undo) \in Group /\ (u.group \in Group => undo' \in Seq(Group) /\ redo' \in Seq(Group))
    BY <1>1, <1>2, StackIs
  <1>4. e \in UsableEditor /\ e.group = <<>> /\ e.coalescer = None
    <2>1. Here \in Editor /\ Usable(Here.selection, Len(Here.text)) /\ Here.group = <<>>
      BY HereIs DEF Here, Result
    <2> QED BY <2>1, EndIs DEF UsableEditor
  <1> HIDE DEF e
  <1> QED BY <1>1, <1>3, <1>4, PerformedKeeps

\* Redoing.
LEMMA RedoKeeps ==
  ASSUME Inv, redoChanges
  PROVE  Keeps
  <1> DEFINE e == Here
             u == PerformGroup(e, Last(redo), TRUE)
  <1>1. /\ redo # <<>> /\ u.done /\ text' = u.text /\ selection' = u.selection
        /\ coalescer' = u.coalescer /\ undo' = Append(undo, u.group) /\ redo' = Front(redo)
        /\ ForgetDigit /\ UNCHANGED editMode
    BY DEF redoChanges
  <1>2. undo \in Seq(Group) /\ redo \in Seq(Group)
    BY DEF Inv, TypeInv
  <1>3. Last(redo) \in Group /\ (u.group \in Group => undo' \in Seq(Group) /\ redo' \in Seq(Group))
    BY <1>1, <1>2, StackIs
  <1>4. e \in UsableEditor /\ e.group = <<>> /\ e.coalescer = None
    <2>1. coalescer = None
      BY <1>1 DEF Inv, LastEdit
    <2> QED BY <2>1, HereIs DEF Here
  <1> HIDE DEF e
  <1> QED BY <1>1, <1>3, <1>4, PerformedKeeps

\* The ranges are in ascending order if each one is before the next one.
LEMMA AscendingIs ==
  ASSUME NEW rs \in Seq(HFRange)
  PROVE  rangesAreInAscendingOrder(rs) <=> Ordered(rs)
  <1> DEFINE n == Len(rs)
             T == {j \in 0 .. n : \A i \in 1 .. n : i < j => MaxRange(rs[i]) <= rs[j].location}
  <1>1. n \in Nat /\ DOMAIN rs = 1 .. n /\ \A i \in 1 .. n : rs[i] \in HFRange
    BY SeqFacts
  <1>2. rangesAreInAscendingOrder(rs) <=> \A i \in 1 .. n - 1 : MaxRange(rs[i]) <= rs[i + 1].location
    BY DEF rangesAreInAscendingOrder
  <1> HIDE DEF n
  <1>3. ASSUME Ordered(rs) PROVE rangesAreInAscendingOrder(rs)
    <2>1. ASSUME NEW i \in 1 .. n - 1 PROVE MaxRange(rs[i]) <= rs[i + 1].location
      <3>1. i \in 1 .. n /\ i + 1 \in 1 .. n /\ i < i + 1
        BY <1>1
      <3> QED BY <1>1, <1>3, <3>1 DEF Ordered
    <2> QED BY <1>2, <2>1
  <1>4. ASSUME rangesAreInAscendingOrder(rs) PROVE Ordered(rs)
    <2>1. 0 \in T
      BY <1>1
    <2>2. ASSUME NEW j \in 1 .. n, j - 1 \in T PROVE j \in T
      <3> SUFFICES ASSUME NEW i \in 1 .. n, i < j PROVE MaxRange(rs[i]) <= rs[j].location
        BY <1>1
      <3> DEFINE p == j - 1
      <3>1. p \in 1 .. n - 1 /\ p \in 1 .. n /\ p + 1 = j /\ i <= p
        BY <1>1
      <3>2. i < p => MaxRange(rs[i]) <= rs[p].location
        BY <2>2
      <3> HIDE DEF p
      <3>3. MaxRange(rs[p]) <= rs[j].location
        BY <1>2, <1>4, <3>1
      <3>4. /\ MaxRange(rs[i]) \in Nat /\ rs[p].location \in Nat /\ MaxRange(rs[p]) \in Nat
            /\ rs[p].location <= MaxRange(rs[p]) /\ rs[j].location \in Nat
        BY <1>1, <3>1, RangeFacts
      <3>5. i = p \/ i < p
        BY <3>1
      <3> QED BY <3>2, <3>3, <3>4, <3>5
    <2>3. \A j \in 0 .. n : j \in T
      <3> HIDE DEF T
      <3> QED BY <1>1, <2>1, <2>2, UpTo
    <2>4. \A j \in 1 .. n : j \in 0 .. n
      BY <1>1
    <2> QED BY <1>1, <2>3, <2>4 DEF Ordered
  <1> QED BY <1>3, <1>4

\* Selecting.
LEMMA SelectKeeps ==
  ASSUME Inv, NEW rs \in Selections, setSelectedContentsRanges(rs)
  PROVE  Keeps
  <1>1. /\ \A i \in DOMAIN rs : Within(rs[i], text)
        /\ selection' = rs /\ omitted' = NotOmitted
        /\ text' = text /\ editMode' = editMode /\ coalescer' = coalescer
        /\ undo' = undo /\ redo' = redo
    BY DEF setSelectedContentsRanges, ForgetDigit
  <1>2. /\ rs \in Seq(HFRange) /\ rs # <<>> /\ rangesAreInAscendingOrder(rs) /\ Strict(rs)
    BY ControllerUndoAssumption DEF HFRange, Strict
  <1> DEFINE n == Len(rs)
  <1>3. n \in Nat /\ DOMAIN rs = 1 .. n /\ \A i \in 1 .. n : rs[i] \in HFRange
    BY <1>2, SeqFacts
  <1>4. EndBy(rs, Len(text))
    BY <1>1, <1>2, <1>3, WithinIs DEF EndBy
  <1>5. OneEmpty(rs)
    <2> SUFFICES ASSUME NEW i \in DOMAIN rs, NEW j \in DOMAIN rs,
                        rs[i].length = 0, rs[j].length = 0
                 PROVE  i = j
      BY DEF OneEmpty
    <2>1. ~ n > 1
      BY <1>2 DEF Strict
    <2> HIDE DEF n
    <2> QED BY <1>3, <2>1
  <1>6. Ordered(rs)
    BY <1>2, AscendingIs
  <1>7. Usable(rs, Len(text))
    BY <1>2, <1>4, <1>5, <1>6 DEF Usable
  <1>8. TypeInv'
    BY <1>1, <1>7 DEF Inv, TypeInv
  <1>9. LastEdit' /\ ModeInv'
    BY <1>1, <1>2 DEF Inv, LastEdit, ModeInv
  <1>10. SecondDigitCompletesFirst'
    BY <1>1 DEF SecondDigitCompletesFirst, insertionShouldDeleteLastNybble
  <1> QED BY <1>1, <1>8, <1>9, <1>10 DEF Keeps, Inv, OpenIsUndoable, OverwritingSavesWhatItCovers

\* Another mode ends the string of typing.
LEMMA ModeKeeps ==
  ASSUME Inv, NEW mode \in EditModes, setEditMode(mode)
  PROVE  Keeps
  <1>1. /\ editMode' = mode /\ coalescer' = None /\ text' = text /\ selection' = selection
        /\ undo' = undo /\ redo' = redo /\ omitted' = omitted
    BY DEF setEditMode
  <1>2. mode \in {"Insert", "Overwrite", "ReadOnly"}
    BY ControllerUndoAssumption
  <1>3. TypeInv'
    BY <1>1, <1>2 DEF Inv, TypeInv
  <1>4. LastEdit' /\ ModeInv'
    BY <1>1 DEF LastEdit, ModeInv
  <1>5. SecondDigitCompletesFirst'
    BY <1>1 DEF Inv, SecondDigitCompletesFirst, insertionShouldDeleteLastNybble
  <1> QED BY <1>1, <1>3, <1>4, <1>5 DEF Keeps, Inv, OpenIsUndoable, OverwritingSavesWhatItCovers


-----------------------------------------------------------------------------
(* Theorems: the selection, the string of typing and the digits *)

\* At first.
LEMMA InitKeeps ==
  ASSUME Init
  PROVE  Inv /\ OpenIsUndoable /\ OverwritingSavesWhatItCovers
  <1>1. /\ text \in Texts /\ selection = <<RangeMake(0, 0)>> /\ editMode = "Insert"
        /\ coalescer = None /\ undo = <<>> /\ redo = <<>> /\ omitted = NotOmitted
    BY DEF Init
  <1>2. text \in Text
    BY <1>1, ControllerUndoAssumption DEF Text
  <1>3. Usable(selection, Len(text))
    <2>1. Len(text) \in Nat
      BY <1>2, LenProperties DEF Text
    <2> DEFINE n == Len(text)
    <2>2. n \in Nat /\ 0 \in Nat /\ 0 <= n
      BY <2>1
    <2> HIDE DEF n
    <2>3. Usable(<<RangeMake(0, 0)>>, n)
      BY <2>2, CursorUsable
    <2> QED BY <1>1, <2>3 DEF n
  <1>4. <<>> \in Seq(Group)
    OBVIOUS
  <1>5. TypeInv
    BY <1>1, <1>2, <1>3, <1>4 DEF TypeInv
  <1>6. LastEdit /\ ModeInv /\ SecondDigitCompletesFirst
    BY <1>1 DEF LastEdit, ModeInv, SecondDigitCompletesFirst
  <1> QED BY <1>1, <1>5, <1>6 DEF Inv, OpenIsUndoable, OverwritingSavesWhatItCovers

\* At every step.
LEMMA NextKeeps ==
  ASSUME Inv, [Next]_vars
  PROVE  Inv' /\ (~ ForgetsWhileTyping => Keeps)
  <1>1. ASSUME NEW rs \in Selections, setSelectedContentsRanges(rs) PROVE Keeps
    BY <1>1, SelectKeeps
  <1>2. ASSUME NEW mode \in EditModes, setEditMode(mode) PROVE Keeps
    BY <1>2, ModeKeeps
  <1>3. ASSUME NEW byte \in Typed, typeDigit(byte) PROVE Keeps
    BY <1>3, DigitKeeps
  <1>4. ASSUME NEW byte \in Typed, typeCharacter(byte) PROVE Keeps
    BY <1>4, CharacterKeeps
  <1>5. ASSUME NEW bytes \in Pasted, paste(bytes) PROVE Keeps
    BY <1>5, PasteKeeps
  <1>6. ASSUME deleteSelection PROVE Keeps
    BY <1>6, SelectionDeletedKeeps
  <1>7. ASSUME NEW left \in BOOLEAN, deleteDirection(left) PROVE Keeps
    BY <1>7, DirectionKeeps
  <1>8. ASSUME NEW bytes \in Replacing, replaceByteArray(bytes) PROVE Keeps
    BY <1>8, ReplaceKeeps
  <1>9. ASSUME removeAllUndoOperations PROVE Inv' /\ (~ ForgetsWhileTyping => Keeps)
    BY <1>9, ForgetHistoryKeeps
  <1>10. ASSUME undoChanges PROVE Keeps
    BY <1>10, UndoKeeps
  <1>11. ASSUME redoChanges PROVE Keeps
    BY <1>11, RedoKeeps
  <1>12. ASSUME UNCHANGED vars PROVE Keeps
    <2>1. /\ text' = text /\ selection' = selection /\ editMode' = editMode
          /\ coalescer' = coalescer /\ undo' = undo /\ redo' = redo /\ omitted' = omitted
      BY <1>12 DEF vars
    <2> QED BY <2>1 DEF Keeps, Inv, TypeInv, LastEdit, ModeInv, SecondDigitCompletesFirst,
                        insertionShouldDeleteLastNybble, OpenIsUndoable,
                        OverwritingSavesWhatItCovers
  <1>13. Keeps => Inv'
    BY DEF Keeps
  <1> QED BY <1>1, <1>2, <1>3, <1>4, <1>5, <1>6, <1>7, <1>8, <1>9, <1>10, <1>11, <1>12,
             <1>13 DEF Next

\* What the invariant says of the selection.
LEMMA InvSelection ==
  ASSUME Inv
  PROVE  SelectionIsUsable
  <1>1. /\ selection \in Seq(HFRange) /\ selection # <<>> /\ Ordered(selection)
        /\ EndBy(selection, Len(text))
    BY DEF Inv, TypeInv, Usable
  <1>2. ASSUME NEW i \in DOMAIN selection PROVE Within(selection[i], text)
    <2>1. selection[i] \in HFRange
      BY <1>1, SeqFacts
    <2> QED BY <1>1, <2>1, WithinIs DEF EndBy
  <1> QED BY <1>1, <1>2, AscendingIs DEF SelectionIsUsable

\* And of the types.
LEMMA InvType ==
  ASSUME Inv
  PROVE  TypeOK
  <1>1. coalescer # None => /\ coalescer.kind = "typing" /\ 0 <= coalescer.anchor
                            /\ coalescer.anchor <= coalescer.action
                            /\ coalescer.action <= Len(text)
    <2> SUFFICES ASSUME coalescer # None
                 PROVE  /\ coalescer.kind = "typing" /\ 0 <= coalescer.anchor
                        /\ coalescer.anchor <= coalescer.action
                        /\ coalescer.action <= Len(text)
      OBVIOUS
    <2>1. coalescer \in TypingOperation /\ coalescer.action <= Len(text)
      BY DEF Inv, TypeInv
    <2> QED BY <2>1, TypingFacts
  <1>2. ASSUME NEW s \in Seq(Group), NEW i \in DOMAIN s PROVE s[i] # <<>>
    BY <1>2, SeqFacts DEF Group
  <1>3. undo \in Seq(Group) /\ redo \in Seq(Group)
    BY DEF Inv, TypeInv
  <1> QED BY <1>1, <1>2, <1>3 DEF Inv, TypeInv, TypeOK, Text

\* The inductive invariant: the types, the selection in order with at most
\* one empty range, the coalescer as the last operation, what a string of
\* typing has left selected, and the pending digit.
THEOREM Invariant == Spec => []Inv
  <1>1. Init => Inv
    BY InitKeeps
  <1>2. Inv /\ [Next]_vars => Inv'
    BY NextKeeps
  <1> QED BY <1>1, <1>2, PTL DEF Spec

\* The variables keep their types and a string of typing ends where it begins
\* or after it, inside the text (HFControllerCoalescedUndo.m).
THEOREM TypeCorrect == Spec => []TypeOK
  <1>1. Inv => TypeOK
    BY InvType
  <1> QED BY <1>1, Invariant, PTL

\* After any commands there is a selection, inside the text and in ascending
\* order (_ensureSelectionIsValid).
THEOREM SelectionStaysUsable == Spec => []SelectionIsUsable
  <1>1. Inv => SelectionIsUsable
    BY InvSelection
  <1> QED BY <1>1, Invariant, PTL

\* Typing goes on only in the operation that would be undone next, and only
\* if nothing can be redone.
THEOREM TypingStaysLastEdit == Spec => []TypingIsLastEdit
  <1>1. Inv => TypingIsLastEdit
    BY DEF Inv, LastEdit, TypingIsLastEdit
  <1> QED BY <1>1, Invariant, PTL

\* A second digit completes the first one, in every edit mode and however the
\* selection was left (insertionShouldDeleteLastNybble).
THEOREM DigitsPair == Spec => []SecondDigitCompletesFirst
  <1>1. Inv => SecondDigitCompletesFirst
    BY DEF Inv
  <1> QED BY <1>1, Invariant, PTL

\* If no save forgets the history during typing, overwriting has saved the
\* bytes it covers (the assertion of overwriteDataInRange:withByteArray:), and
\* a string of typing can be undone.
THEOREM OverwritingSaves ==
  ASSUME ~ ForgetsWhileTyping
  PROVE  Spec => [](OverwritingSavesWhatItCovers /\ OpenIsUndoable)
  <1> DEFINE J == Inv /\ OpenIsUndoable /\ OverwritingSavesWhatItCovers
  <1>1. Init => J
    BY InitKeeps
  <1>2. J /\ [Next]_vars => J'
    <2> SUFFICES ASSUME J, [Next]_vars PROVE J'
      OBVIOUS
    <2> QED BY NextKeeps DEF Keeps
  <1>3. J => OverwritingSavesWhatItCovers /\ OpenIsUndoable
    OBVIOUS
  <1> QED BY <1>1, <1>2, <1>3, PTL DEF Spec


-----------------------------------------------------------------------------
(* The history: operations that replace one range *)

Single(o) == o \in Operation /\ (o.kind = "ranges" => Len(o.ranges) = 1)

\* The range that is replaced, and what it becomes.
Where(o) == IF o.kind = "typing" THEN Between(o.anchor, o.action) ELSE o.ranges[1]
What(o) == IF o.kind = "typing" THEN o.deleted ELSE o.arrays[1]

\* o makes u of t.
Leads(o, t, u) ==
    /\ Single(o) /\ t \in Text /\ MaxRange(Where(o)) <= Len(t)
    /\ u = Replaced(t, Where(o), What(o))

\* The two kinds of operations.
LEMMA SingleIs ==
  ASSUME NEW o, Single(o)
  PROVE  /\ Where(o) \in HFRange /\ What(o) \in Text
         /\ \/ /\ o \in TypingOperation /\ o.kind = "typing"
               /\ Where(o) = Between(o.anchor, o.action) /\ What(o) = o.deleted
               /\ MaxRange(Where(o)) = o.action
            \/ /\ o \in RangesOperation /\ o.kind = "ranges"
               /\ Len(o.ranges) = 1 /\ Len(o.arrays) = 1
               /\ Where(o) = o.ranges[1] /\ What(o) = o.arrays[1]
  <1>1. CASE o \in TypingOperation
    <2>1. o.kind = "typing" /\ o.anchor \in Nat /\ o.action \in Nat /\ o.anchor <= o.action
          /\ o.deleted \in Text
      BY <1>1, TypingFacts
    <2>2. Where(o) = Between(o.anchor, o.action) /\ What(o) = o.deleted
      BY <2>1 DEF Where, What
    <2>3. Where(o) \in HFRange /\ MaxRange(Where(o)) = o.action
      BY <2>1, <2>2, BetweenIs
    <2> QED BY <1>1, <2>1, <2>2, <2>3
  <1>2. CASE o \in RangesOperation
    <2>1. /\ o.kind = "ranges" /\ o.ranges \in Seq(HFRange) /\ o.arrays \in Seq(Text)
          /\ Len(o.arrays) = Len(o.ranges)
      BY <1>2 DEF RangesOperation
    <2>2. Len(o.ranges) = 1
      BY <2>1 DEF Single
    <2>3. Where(o) = o.ranges[1] /\ What(o) = o.arrays[1]
      BY <2>1 DEF Where, What
    <2>4. 1 \in 1 .. Len(o.ranges) /\ 1 \in 1 .. Len(o.arrays)
      BY <2>1, <2>2
    <2>5. o.ranges[1] \in HFRange /\ o.arrays[1] \in Text
      BY <2>1, <2>4, SeqFacts
    <2> QED BY <1>2, <2>1, <2>2, <2>3, <2>5
  <1> QED BY <1>1, <1>2 DEF Single, Operation

\* The text that an operation makes.
LEMMA LeadsText ==
  ASSUME NEW o, NEW t, NEW u, Leads(o, t, u)
  PROVE  u \in Text
  <1>1. Where(o) \in HFRange /\ What(o) \in Text /\ t \in Text /\ MaxRange(Where(o)) <= Len(t)
    BY SingleIs DEF Leads
  <1>2. Replaced(t, Where(o), What(o)) \in Text
    BY <1>1, ReplacedIs
  <1> QED BY <1>2 DEF Leads

\* Inserting one array.
LEMMA OneInserted ==
  ASSUME NEW o \in RangesOperation, Len(o.ranges) = 1, NEW t \in Text
  PROVE  LET s == InsertArrays(t, o)
             r == o.ranges[1]
             b == o.arrays[1]
         IN  /\ s.done <=> MaxRange(r) <= Len(t)
             /\ s.done => /\ s.text = Replaced(t, r, b)
                          /\ s.arrays = <<BytesIn(t, r)>>
                          /\ s.ranges = <<RangeMake(r.location, Len(b))>>
  <1> DEFINE s == InsertArrays(t, o)
             r == o.ranges[1]
             b == o.arrays[1]
             base == InsertBase(t)
  <1>1. PICK f : Inserts(f, t, o) /\ s = f[Len(o.ranges)]
    BY InsertedBy
  <1>2. f[0] = base /\ f[1] = InsertArray(f[0], r, b) /\ s = f[1]
    <2>1. 1 \in 1 .. Len(o.ranges) /\ 1 - 1 = 0
      OBVIOUS
    <2> HIDE DEF s
    <2> QED BY <1>1, <2>1 DEF Inserts
  <1> HIDE DEF s
  <1>3. r \in HFRange /\ b \in Text
    <2>1. Single(o) /\ o.kind = "ranges"
      BY DEF Single, Operation, RangesOperation
    <2>2. TypingOperation \cap {x \in {o} : x.kind = "ranges"} = {}
      BY DEF TypingOperation
    <2> QED BY <2>1, <2>2, SingleIs
  <1>4. /\ base \in InsertState /\ base.text = t /\ base.arrays = <<>> /\ base.ranges = <<>>
        /\ base.done = TRUE
    BY DEF InsertBase, InsertState
  <1> HIDE DEF base, r, b
  <1>5. /\ s.done <=> base.done /\ MaxRange(r) <= Len(base.text)
        /\ s.done => /\ s.text = Replaced(base.text, r, b)
                     /\ s.arrays = Append(base.arrays, BytesIn(base.text, r))
                     /\ s.ranges = Append(base.ranges, RangeMake(r.location, Len(b)))
    <2>1. s = InsertArray(base, r, b)
      BY <1>2
    <2> DEFINE z == InsertArray(base, r, b)
    <2>2. /\ z.done <=> base.done /\ MaxRange(r) <= Len(base.text)
          /\ z.done => /\ z.text = Replaced(base.text, r, b)
                       /\ z.arrays = Append(base.arrays, BytesIn(base.text, r))
                       /\ z.ranges = Append(base.ranges, RangeMake(r.location, Len(b)))
      BY <1>3, <1>4, InsertArrayIs
    <2> HIDE DEF z
    <2>3. s = z
      BY <2>1 DEF z
    <2> QED BY <2>2, <2>3
  <1>6. \A x : Append(<<>>, x) = <<x>>
    OBVIOUS
  <1> QED BY <1>4, <1>5, <1>6 DEF s, r, b

\* What the properties say of an operation that leads from t to u.
LEMMA LeadsPerforms ==
  ASSUME NEW o, NEW t, NEW u, Leads(o, t, u)
  PROVE  Performed(t, o) = u
  <1>1. CASE o.kind = "typing"
    BY <1>1 DEF Performed, Leads, Where, What
  <1>2. CASE o.kind # "typing"
    <2>1. o \in RangesOperation /\ Len(o.ranges) = 1 /\ Where(o) = o.ranges[1]
          /\ What(o) = o.arrays[1]
      BY <1>2, SingleIs DEF Leads
    <2>2. t \in Text /\ MaxRange(o.ranges[1]) <= Len(t) /\ u = Replaced(t, o.ranges[1], o.arrays[1])
      BY <2>1 DEF Leads
    <2>3. InsertArrays(t, o).text = Replaced(t, o.ranges[1], o.arrays[1])
      BY <2>1, <2>2, OneInserted
    <2> QED BY <1>2, <2>2, <2>3 DEF Performed
  <1> QED BY <1>1, <1>2

\* Performing it registers what leads back.
LEMMA LeadsBack ==
  ASSUME NEW e \in UsableEditor, e.done, NEW o, NEW x, Leads(o, e.text, x),
         NEW redoing \in BOOLEAN
  PROVE  LET v == PerformOperation(e, o, redoing)
         IN  /\ v \in UsableEditor /\ v.done /\ v.text = x
             /\ \E p : Leads(p, x, e.text) /\ v.group = Append(e.group, p)
  <1> DEFINE v == PerformOperation(e, o, redoing)
             t == e.text
             r == Where(o)
             b == What(o)
             m == RangeMake(r.location, Len(b))
  <1>1. /\ r \in HFRange /\ b \in Text /\ t \in Text /\ MaxRange(r) <= Len(t)
        /\ x = Replaced(t, r, b)
    BY SingleIs DEF Leads
  <1>2. /\ m \in HFRange /\ MaxRange(m) <= Len(x) /\ x \in Text
        /\ Replaced(x, m, BytesIn(t, r)) = t
    BY <1>1, ReplacedBack
  <1>3. v \in UsableEditor
    <2>1. o \in Operation
      BY DEF Leads, Single
    <2> QED BY <2>1, OperationPerformed DEF PerformedFrom
  <1>4. CASE o \in TypingOperation /\ o.kind = "typing" /\ r = Between(o.anchor, o.action)
             /\ b = o.deleted /\ MaxRange(r) = o.action
    <2>1. v = performTypingUndo(e, o, redoing)
      BY <1>4 DEF PerformOperation
    <2> DEFINE p == invert(o, t)
    <2>2. /\ v.done <=> o.action <= Len(t)
          /\ v.done => /\ v.text = Replaced(t, Between(o.anchor, o.action), o.deleted)
                       /\ v.group = Append(e.group, p)
                       /\ p \in TypingOperation
      <3> HIDE DEF v
      <3> QED BY <1>4, <2>1, TypingPerformed
    <2> HIDE DEF v
    <2>3. v.done /\ v.text = x /\ v.group = Append(e.group, p) /\ p \in TypingOperation
      BY <1>1, <1>4, <2>2
    <2>4. Where(p) = m /\ What(p) = BytesIn(t, r)
      <3>1. o.anchor \in Nat /\ Len(o.deleted) \in Nat /\ r.location = o.anchor
        BY <1>4, TypingFacts, BetweenIs
      <3>2. /\ p.kind = "typing" /\ p.anchor = o.anchor /\ p.action = o.anchor + Len(o.deleted)
            /\ p.deleted = BytesIn(t, r)
        BY <1>4 DEF invert, Typing
      <3> HIDE DEF p
      <3>3. (o.anchor + Len(o.deleted)) - o.anchor = Len(o.deleted)
        BY <3>1
      <3>4. Where(p) = RangeMake(o.anchor, Len(o.deleted))
        BY <3>2, <3>3 DEF Where, Between
      <3>5. What(p) = BytesIn(t, r)
        BY <3>2 DEF What
      <3> QED BY <1>4, <3>1, <3>4, <3>5
    <2> HIDE DEF p
    <2>5. Single(p)
      BY <2>3, TypingFacts DEF Single
    <2>6. Leads(p, x, t)
      BY <1>2, <2>4, <2>5 DEF Leads
    <2> QED BY <1>3, <2>3, <2>6 DEF v
  <1>5. CASE o \in RangesOperation /\ o.kind = "ranges" /\ Len(o.ranges) = 1
             /\ r = o.ranges[1] /\ b = o.arrays[1]
    <2>1. v = commandInsertByteArrays(e, o)
      BY <1>5 DEF PerformOperation
    <2> DEFINE s == InsertArrays(t, o)
    <2>2. /\ v.done <=> s.done
          /\ v.done => /\ v.text = s.text
                       /\ \E select \in {"AfterResult", "Preserve"} :
                             /\ Inserting(s.arrays, s.ranges, select) \in RangesOperation
                             /\ v.group = Append(e.group, Inserting(s.arrays, s.ranges, select))
      <3> HIDE DEF v
      <3> QED BY <1>5, <2>1, RangesPerformed
    <2>3. /\ s.done /\ s.text = x /\ s.arrays = <<BytesIn(t, r)>> /\ s.ranges = <<m>>
      BY <1>1, <1>5, OneInserted
    <2> HIDE DEF v, s
    <2>4. PICK select \in {"AfterResult", "Preserve"} :
             /\ Inserting(s.arrays, s.ranges, select) \in RangesOperation
             /\ v.group = Append(e.group, Inserting(s.arrays, s.ranges, select))
      BY <2>2, <2>3
    <2> DEFINE p == Inserting(<<BytesIn(t, r)>>, <<m>>, select)
    <2>5. p \in RangesOperation /\ v.group = Append(e.group, p)
      BY <2>3, <2>4
    <2>6. p.kind = "ranges" /\ p.ranges = <<m>> /\ p.arrays = <<BytesIn(t, r)>>
      BY DEF Inserting
    <2> HIDE DEF p, m
    <2>7. Where(p) = m /\ What(p) = BytesIn(t, r) /\ Single(p)
      BY <2>5, <2>6 DEF Where, What, Single, Operation
    <2>8. Leads(p, x, t)
      BY <1>2, <2>7 DEF Leads
    <2> QED BY <1>3, <2>2, <2>3, <2>5, <2>8 DEF v
  <1>6. \/ /\ o \in TypingOperation /\ o.kind = "typing"
           /\ r = Between(o.anchor, o.action) /\ b = o.deleted
           /\ MaxRange(r) = o.action
        \/ /\ o \in RangesOperation /\ o.kind = "ranges"
           /\ Len(o.ranges) = 1 /\ Len(o.arrays) = 1
           /\ r = o.ranges[1] /\ b = o.arrays[1]
    BY SingleIs DEF Leads
  <1> HIDE DEF v, r, b
  <1> QED BY <1>4, <1>5, <1>6 DEF v


-----------------------------------------------------------------------------
(* Chains: what one thing after the other, the last one first, makes of a   *)
(* text.  A relation R holds <<x, t, u>> where x makes u of t.              *)

\* w holds the texts: all of s has been performed on t in w[0].
Chain(w, s, t, R) ==
    /\ w \in [0 .. Len(s) -> Text] /\ w[Len(s)] = t
    /\ \A i \in 0 .. Len(s) - 1 : <<s[i + 1], w[i + 1], w[i]>> \in R

\* The chain of nothing.
LEMMA ChainEmpty ==
  ASSUME NEW t \in Text, NEW R
  PROVE  Chain([i \in 0 .. 0 |-> t], <<>>, t, R)
  BY DEF Chain

\* A chain ends in texts, t among them.
LEMMA ChainTexts ==
  ASSUME NEW S, NEW s \in Seq(S), NEW t, NEW R, NEW w, Chain(w, s, t, R)
  PROVE  /\ t \in Text /\ Len(s) \in Nat
         /\ \A i \in 0 .. Len(s) : w[i] \in Text
  <1> DEFINE n == Len(s)
  <1>1. n \in Nat /\ n \in 0 .. n
    BY SeqFacts
  <1>2. w \in [0 .. n -> Text] /\ w[n] = t
    BY DEF Chain
  <1> HIDE DEF n
  <1>3. t \in Text /\ \A i \in 0 .. n : w[i] \in Text
    BY <1>1, <1>2
  <1> QED BY <1>1, <1>3 DEF n

\* The elements before the last one.
LEMMA FrontIs ==
  ASSUME NEW S, NEW s \in Seq(S), s # <<>>
  PROVE  /\ Front(s) \in Seq(S) /\ Len(Front(s)) = Len(s) - 1
         /\ \A i \in 1 .. Len(s) - 1 : Front(s)[i] = s[i]
  <1> DEFINE n == Len(s)
             m == n - 1
             q == SubSeq(s, 1, m)
  <1>1. n \in Nat /\ n > 0
    BY SeqFacts
  <1>2. m \in 0 .. n
    BY <1>1
  <1>3. q \in Seq(S) /\ Len(q) = m /\ \A i \in 1 .. m : q[i] = s[i]
    <2>1. m \in Int /\ \A i \in 1 .. m : s[i] \in S
      BY <1>1, SeqFacts
    <2> HIDE DEF m
    <2>2. /\ q \in Seq(S) /\ Len(q) = (IF 1 <= m THEN m - 1 + 1 ELSE 0)
          /\ \A i \in 1 .. m - 1 + 1 : q[i] = s[1 + i - 1]
      BY <2>1, SubSeqProperties
    <2> HIDE DEF q, n
    <2>3. m \in Nat
      BY <1>2
    <2> QED BY <2>2, <2>3
  <1>4. Front(s) = q
    BY DEF Front
  <1> HIDE DEF q
  <1> QED BY <1>3, <1>4

\* One more at the end.
LEMMA ChainAppend ==
  ASSUME NEW S, NEW s \in Seq(S), NEW t, NEW R, NEW w, Chain(w, s, t, R),
         NEW x \in S, NEW u \in Text, <<x, u, t>> \in R
  PROVE  \E v : /\ Chain(v, Append(s, x), u, R)
                /\ \A i \in 0 .. Len(s) : v[i] = w[i]
  <1> DEFINE n == Len(s)
             q == Append(s, x)
             v == [i \in 0 .. n + 1 |-> IF i = n + 1 THEN u ELSE w[i]]
  <1>1. n \in Nat /\ \A i \in 0 .. n : w[i] \in Text
    BY ChainTexts
  <1>2. Len(q) = n + 1 /\ q[n + 1] = x /\ \A i \in 1 .. n : q[i] = s[i]
    BY AppendProperties
  <1>3. w[n] = t /\ \A i \in 0 .. n - 1 : <<s[i + 1], w[i + 1], w[i]>> \in R
    BY DEF Chain
  <1> HIDE DEF n, q
  <1>4. /\ v \in [0 .. n + 1 -> Text] /\ v[n + 1] = u
        /\ \A i \in 0 .. n : v[i] = w[i]
    BY <1>1
  <1> HIDE DEF v
  <1>5. \A i \in 0 .. n : <<q[i + 1], v[i + 1], v[i]>> \in R
    <2> TAKE i \in 0 .. n
    <2>1. CASE i = n
      BY <1>1, <1>2, <1>3, <1>4, <2>1
    <2>2. CASE i # n
      <3>1. i \in 0 .. n - 1 /\ i + 1 \in 1 .. n /\ i + 1 \in 0 .. n
        BY <1>1, <2>2
      <3> QED BY <1>2, <1>3, <1>4, <3>1
    <2> QED BY <2>1, <2>2
  <1>6. (n + 1) - 1 = n
    BY <1>1
  <1>7. Chain(v, q, u, R)
    BY <1>2, <1>4, <1>5, <1>6 DEF Chain
  <1> QED BY <1>4, <1>7 DEF n, q

\* One less at the end.
LEMMA ChainFront ==
  ASSUME NEW S, NEW s \in Seq(S), s # <<>>, NEW t, NEW R, NEW w, Chain(w, s, t, R)
  PROVE  /\ <<Last(s), t, w[Len(s) - 1]>> \in R
         /\ w[Len(s) - 1] \in Text
         /\ \E v : /\ Chain(v, Front(s), w[Len(s) - 1], R)
                   /\ \A i \in 0 .. Len(s) - 1 : v[i] = w[i]
  <1> DEFINE n == Len(s)
             m == n - 1
             q == Front(s)
             v == [i \in 0 .. m |-> w[i]]
  <1>1. n \in Nat /\ n > 0 /\ \A i \in 0 .. n : w[i] \in Text
    BY ChainTexts, SeqFacts
  <1>2. Len(q) = m /\ \A i \in 1 .. m : q[i] = s[i]
    BY FrontIs
  <1>3. w[n] = t /\ \A i \in 0 .. n - 1 : <<s[i + 1], w[i + 1], w[i]>> \in R
    BY DEF Chain
  <1>4. Last(s) = s[n]
    BY DEF Last
  <1>5. /\ m \in Nat /\ m \in 0 .. n - 1 /\ m \in 0 .. n /\ m + 1 = n
        /\ \A i \in 0 .. m : i \in 0 .. n
        /\ \A i \in 0 .. m - 1 : i \in 0 .. n - 1 /\ i + 1 \in 1 .. m /\ i + 1 \in 0 .. m
                                 /\ i \in 0 .. m
    <2> HIDE DEF n
    <2> QED BY <1>1
  <1> HIDE DEF q, n
  <1>6. <<Last(s), t, w[m]>> \in R /\ w[m] \in Text
    <2>1. <<s[m + 1], w[m + 1], w[m]>> \in R
      BY <1>3, <1>5
    <2> HIDE DEF m
    <2> QED BY <1>1, <1>3, <1>4, <1>5, <2>1
  <1> HIDE DEF m
  <1>7. v \in [0 .. m -> Text] /\ v[m] = w[m] /\ \A i \in 0 .. m : v[i] = w[i]
    BY <1>1, <1>5
  <1> HIDE DEF v
  <1>8. \A i \in 0 .. m - 1 : <<q[i + 1], v[i + 1], v[i]>> \in R
    BY <1>2, <1>3, <1>5, <1>7
  <1>9. Chain(v, q, w[m], R)
    BY <1>2, <1>7, <1>8 DEF Chain
  <1> QED BY <1>6, <1>7, <1>9 DEF m, n, q

\* Another one at the end.
LEMMA ChainLast ==
  ASSUME NEW S, NEW s \in Seq(S), s # <<>>, NEW t, NEW R, NEW w, Chain(w, s, t, R),
         NEW x \in S, NEW u \in Text, <<x, u, w[Len(s) - 1]>> \in R
  PROVE  \E v : /\ Chain(v, ChangedLast(s, x), u, R)
                /\ \A i \in 0 .. Len(s) - 1 : v[i] = w[i]
  <1> DEFINE n == Len(s)
             q == ChangedLast(s, x)
             v == [i \in 0 .. n |-> IF i = n THEN u ELSE w[i]]
  <1>1. n \in Nat /\ n > 0 /\ \A i \in 0 .. n : w[i] \in Text
    BY ChainTexts, SeqFacts
  <1>2. Len(q) = n /\ q[n] = x /\ \A i \in 1 .. n - 1 : q[i] = s[i]
    BY ChangedLastIs
  <1>3. \A i \in 0 .. n - 1 : <<s[i + 1], w[i + 1], w[i]>> \in R
    BY DEF Chain
  <1>4. <<x, u, w[n - 1]>> \in R
    OBVIOUS
  <1> HIDE DEF n, q
  <1>5. v \in [0 .. n -> Text] /\ v[n] = u /\ \A i \in 0 .. n - 1 : v[i] = w[i]
    BY <1>1
  <1> HIDE DEF v
  <1>6. \A i \in 0 .. n - 1 : <<q[i + 1], v[i + 1], v[i]>> \in R
    <2> TAKE i \in 0 .. n - 1
    <2>1. CASE i = n - 1
      <3>1. i + 1 = n
        BY <1>1, <2>1
      <3> QED BY <1>2, <1>4, <1>5, <2>1, <3>1
    <2>2. CASE i # n - 1
      <3>1. i + 1 \in 1 .. n - 1 /\ i + 1 \in 0 .. n - 1
        BY <1>1, <2>2
      <3> QED BY <1>2, <1>3, <1>5, <3>1
    <2> QED BY <2>1, <2>2
  <1>7. Chain(v, q, u, R)
    BY <1>2, <1>5, <1>6 DEF Chain
  <1> QED BY <1>5, <1>7 DEF n, q

\* With one changed operation the other one of two elements of a stack.
LEMMA AppendedChanged ==
  ASSUME NEW S, NEW s \in Seq(S), NEW x \in S, NEW y \in S
  PROVE  ChangedLast(Append(s, x), y) = Append(s, y)
  <1> DEFINE n == Len(s)
             p == Append(s, x)
             q == ChangedLast(p, y)
             r == Append(s, y)
  <1>1. n \in Nat
    BY SeqFacts
  <1>2. p \in Seq(S) /\ Len(p) = n + 1 /\ \A i \in 1 .. n : p[i] = s[i]
    BY AppendProperties
  <1>3. r \in Seq(S) /\ Len(r) = n + 1 /\ r[n + 1] = y /\ \A i \in 1 .. n : r[i] = s[i]
    BY AppendProperties
  <1> HIDE DEF p, r, n
  <1>4. p # <<>>
    BY <1>1, <1>2, SeqFacts
  <1>5. /\ q \in Seq(S) /\ Len(q) = Len(p) /\ q[Len(p)] = y
        /\ \A i \in 1 .. Len(p) - 1 : q[i] = p[i]
    BY <1>2, <1>4, ChangedLastIs, ZenonT(60)
  <1> HIDE DEF q
  <1>6. Len(q) = n + 1 /\ q[n + 1] = y /\ \A i \in 1 .. n : q[i] = s[i]
    BY <1>1, <1>2, <1>5
  <1>7. Len(q) = Len(r) /\ \A i \in 1 .. Len(q) : q[i] = r[i]
    <2>1. \A i \in 1 .. n + 1 : i = n + 1 \/ i \in 1 .. n
      BY <1>1
    <2> QED BY <1>3, <1>6, <2>1
  <1>8. q = r
    BY <1>3, <1>5, <1>7, SeqEqual
  <1> QED BY <1>8 DEF p, q, r

OperationSteps == {p \in Operation \X Text \X Text : Leads(p[1], p[2], p[3])}

\* The operations of a group, the last one first, make u of t.
GroupLeads(group, t, u) ==
    /\ group \in Seq(Operation)
    /\ \E w : Chain(w, group, t, OperationSteps) /\ w[0] = u

GroupSteps == {p \in Seq(Operation) \X Text \X Text : GroupLeads(p[1], p[2], p[3])}

\* What leads is a step.
LEMMA OperationStepIs ==
  ASSUME NEW o, NEW t, NEW u
  PROVE  Leads(o, t, u) <=> <<o, t, u>> \in OperationSteps
  <1>1. Leads(o, t, u) => o \in Operation /\ t \in Text /\ u \in Text
    BY LeadsText DEF Leads, Single
  <1> QED BY <1>1 DEF OperationSteps

\* The texts of a group.
LEMMA GroupTexts ==
  ASSUME NEW group, NEW t, NEW u, GroupLeads(group, t, u)
  PROVE  group \in Seq(Operation) /\ t \in Text /\ u \in Text
  <1>1. PICK w : Chain(w, group, t, OperationSteps) /\ w[0] = u
    BY DEF GroupLeads
  <1>2. group \in Seq(Operation)
    BY DEF GroupLeads
  <1>3. t \in Text /\ Len(group) \in Nat /\ \A i \in 0 .. Len(group) : w[i] \in Text
    BY <1>1, <1>2, ChainTexts
  <1>4. 0 \in 0 .. Len(group)
    BY <1>3
  <1> QED BY <1>1, <1>2, <1>3, <1>4

\* A group that leads is a step.
LEMMA GroupStepIs ==
  ASSUME NEW group, NEW t, NEW u
  PROVE  GroupLeads(group, t, u) <=> <<group, t, u>> \in GroupSteps
  <1>1. GroupLeads(group, t, u) => group \in Seq(Operation) /\ t \in Text /\ u \in Text
    BY GroupTexts
  <1> QED BY <1>1 DEF GroupSteps

\* A group of nothing.
LEMMA GroupOfNothing ==
  ASSUME NEW t \in Text
  PROVE  GroupLeads(<<>>, t, t)
  <1> DEFINE w == [i \in 0 .. 0 |-> t]
  <1>1. Chain(w, <<>>, t, OperationSteps)
    BY ChainEmpty
  <1>2. w[0] = t
    OBVIOUS
  <1>3. <<>> \in Seq(Operation)
    OBVIOUS
  <1> HIDE DEF w
  <1> QED BY <1>1, <1>2, <1>3 DEF GroupLeads

\* An operation that is registered leads back to where the others begin.
LEMMA GroupAppend ==
  ASSUME NEW group, NEW t, NEW u, GroupLeads(group, t, u), NEW o, NEW x, Leads(o, x, t)
  PROVE  GroupLeads(Append(group, o), x, u)
  <1>1. PICK w : Chain(w, group, t, OperationSteps) /\ w[0] = u
    BY DEF GroupLeads
  <1>2. group \in Seq(Operation) /\ o \in Operation /\ x \in Text
    BY DEF GroupLeads, Leads, Single
  <1>3. <<o, x, t>> \in OperationSteps
    BY OperationStepIs
  <1>4. PICK v : /\ Chain(v, Append(group, o), x, OperationSteps)
                 /\ \A i \in 0 .. Len(group) : v[i] = w[i]
    BY <1>1, <1>2, <1>3, ChainAppend
  <1>5. 0 \in 0 .. Len(group)
    BY <1>2, SeqFacts
  <1>6. Append(group, o) \in Seq(Operation)
    BY <1>2, AppendProperties
  <1> QED BY <1>1, <1>4, <1>5, <1>6 DEF GroupLeads

\* An operation alone.
LEMMA GroupOfOne ==
  ASSUME NEW o, NEW t, NEW u, Leads(o, t, u)
  PROVE  GroupLeads(Append(<<>>, o), t, u)
  <1>1. GroupLeads(<<>>, u, u)
    BY LeadsText, GroupOfNothing
  <1> QED BY <1>1, GroupAppend

\* The last operation becomes another one that leads to the same text.
LEMMA GroupLast ==
  ASSUME NEW group, group # <<>>, NEW t, NEW u, GroupLeads(group, t, u),
         NEW o \in Operation, NEW x \in Text,
         \A s : Leads(Last(group), t, s) => Leads(o, x, s)
  PROVE  GroupLeads(ChangedLast(group, o), x, u)
  <1> DEFINE n == Len(group)
  <1>1. PICK w : Chain(w, group, t, OperationSteps) /\ w[0] = u
    BY DEF GroupLeads
  <1>2. group \in Seq(Operation)
    BY DEF GroupLeads
  <1>3. <<Last(group), t, w[n - 1]>> \in OperationSteps
    BY <1>1, <1>2, ChainFront
  <1>4. <<o, x, w[n - 1]>> \in OperationSteps
    BY <1>3, OperationStepIs
  <1>5. PICK v : /\ Chain(v, ChangedLast(group, o), x, OperationSteps)
                 /\ \A i \in 0 .. n - 1 : v[i] = w[i]
    BY <1>1, <1>2, <1>4, ChainLast
  <1>6. 0 \in 0 .. n - 1
    BY <1>2, SeqFacts
  <1>7. ChangedLast(group, o) \in Seq(Operation)
    BY <1>2, ChangedLastIs
  <1> QED BY <1>1, <1>5, <1>6, <1>7 DEF GroupLeads

\* What the properties say of a group that leads from t to u.
LEMMA GroupLeadsPerforms ==
  ASSUME NEW group, NEW t, NEW u, GroupLeads(group, t, u)
  PROVE  GroupPerformed(t, group) = u
  <1> DEFINE n == Len(group)
             performed[i \in 0 .. n] ==
                IF i = n THEN t ELSE Performed(performed[i + 1], group[i + 1])
             Equation(f) ==
                f = [i \in 0 .. n |-> IF i = n THEN t ELSE Performed(f[i + 1], group[i + 1])]
  <1>1. PICK w : Chain(w, group, t, OperationSteps) /\ w[0] = u
    BY DEF GroupLeads
  <1>2. group \in Seq(Operation) /\ n \in Nat /\ 0 \in 0 .. n /\ n \in 0 .. n
    BY SeqFacts DEF GroupLeads
  <1>3. /\ w \in [0 .. n -> Text] /\ w[n] = t
        /\ \A i \in 0 .. n - 1 : <<group[i + 1], w[i + 1], w[i]>> \in OperationSteps
    BY <1>1 DEF Chain
  <1>4. GroupPerformed(t, group) = performed[0]
    BY DEF GroupPerformed
  <1>5. performed = CHOOSE f : Equation(f)
    OBVIOUS
  <1> HIDE DEF performed, Equation
  <1>6. \A i \in 0 .. n - 1 : w[i] = Performed(w[i + 1], group[i + 1])
    BY <1>3, OperationStepIs, LeadsPerforms
  <1>7. Equation(w)
    <2>1. w = [i \in 0 .. n |-> w[i]]
      BY <1>3
    <2>2. \A i \in 0 .. n : i # n => i \in 0 .. n - 1
      <3> HIDE DEF n
      <3> QED BY <1>2
    <2>3. \A i \in 0 .. n : w[i] = IF i = n THEN t ELSE Performed(w[i + 1], group[i + 1])
      <3> HIDE DEF n
      <3> QED BY <1>3, <1>6, <2>2
    <2> HIDE DEF n
    <2> QED BY <2>1, <2>3 DEF Equation
  <1>8. Equation(performed)
    BY <1>5, <1>7
  <1>9. performed[n] = w[n]
    <2> HIDE DEF n
    <2> QED BY <1>2, <1>3, <1>8 DEF Equation
  <1>10. \A i \in 0 .. n - 1 : performed[i + 1] = w[i + 1] => performed[i] = w[i]
    <2>1. \A i \in 0 .. n - 1 : i \in 0 .. n /\ i # n
      <3> HIDE DEF n
      <3> QED BY <1>2
    <2> HIDE DEF n
    <2> QED BY <1>6, <1>8, <2>1 DEF Equation
  <1>11. \A i \in 0 .. n : performed[i] = w[i]
    <2> HIDE DEF n
    <2> QED BY <1>2, <1>9, <1>10, SameDownFrom
  <1> QED BY <1>1, <1>2, <1>4, <1>11

\* Performing a group makes its text, and what it registers leads back, and
\* on to wherever what was registered before leads.
LEMMA GroupLeadsBack ==
  ASSUME NEW e \in UsableEditor, e.done,
         NEW group, NEW x, GroupLeads(group, e.text, x), NEW redoing \in BOOLEAN
  PROVE  LET v == PerformGroup(e, group, redoing)
         IN  /\ v \in UsableEditor /\ v.done /\ v.text = x
             /\ \A u : GroupLeads(e.group, e.text, u) => GroupLeads(v.group, x, u)
  <1> DEFINE n == Len(group)
             t == e.text
  <1>1. PICK w : Chain(w, group, t, OperationSteps) /\ w[0] = x
    BY DEF GroupLeads
  <1>2. group \in Seq(Operation) /\ n \in Nat /\ 0 \in 0 .. n /\ n \in 0 .. n
    BY SeqFacts DEF GroupLeads
  <1>3. /\ w \in [0 .. n -> Text] /\ w[n] = t
        /\ \A i \in 0 .. n - 1 : <<group[i + 1], w[i + 1], w[i]>> \in OperationSteps
    BY <1>1 DEF Chain
  <1>4. PICK f : Performs(f, e, group, redoing) /\ PerformGroup(e, group, redoing) = f[0]
    BY <1>2, GroupPerformedBy
  <1>5. /\ f \in [0 .. n -> UsableEditor] /\ f[n] = e
        /\ \A i \in 0 .. n - 1 : f[i] = PerformOperation(f[i + 1], group[i + 1], redoing)
    BY <1>4 DEF Performs
  <1> DEFINE Good(i) == /\ f[i].done /\ f[i].text = w[i] /\ f[i] \in UsableEditor
                        /\ \A u : GroupLeads(e.group, t, u) => GroupLeads(f[i].group, w[i], u)
             T == {i \in 0 .. n : Good(i)}
  <1>6. Good(n)
    <2> HIDE DEF n, t
    <2>1. e.text = t
      BY DEF t
    <2> QED BY <1>3, <1>5, <2>1
  <1>7. \A i \in 0 .. n - 1 : Good(i + 1) => Good(i)
    <2> SUFFICES ASSUME NEW i \in 0 .. n - 1, Good(i + 1) PROVE Good(i)
      OBVIOUS
    <2> DEFINE a == f[i + 1]
               b == f[i]
               o == group[i + 1]
               p == w[i + 1]
               q == w[i]
    <2>1. a \in UsableEditor /\ a.done /\ a.text = p
          /\ \A u : GroupLeads(e.group, t, u) => GroupLeads(a.group, p, u)
      OBVIOUS
    <2>2. Leads(o, p, q)
      BY <1>3, OperationStepIs
    <2>3. b = PerformOperation(a, o, redoing)
      BY <1>5
    <2> HIDE DEF a, b, o, p, q, n
    <2> DEFINE z == PerformOperation(a, o, redoing)
    <2>4. /\ z \in UsableEditor /\ z.done /\ z.text = q
          /\ \E y : Leads(y, q, a.text) /\ z.group = Append(a.group, y)
      <3>1. a \in UsableEditor /\ a.done /\ Leads(o, a.text, q)
        BY <2>1, <2>2
      <3> QED BY <3>1, LeadsBack, ZenonT(60)
    <2> HIDE DEF z
    <2>5. \A u : GroupLeads(e.group, t, u) => GroupLeads(z.group, q, u)
      BY <2>1, <2>4, GroupAppend
    <2>6. b = z
      BY <2>3 DEF z
    <2> QED BY <2>4, <2>5, <2>6 DEF b, q
  <1> HIDE DEF Good
  <1>8. \A i \in 0 .. n : i \in T
    <2>1. n \in T
      BY <1>2, <1>6
    <2>2. \A i \in 0 .. n - 1 : i + 1 \in T => i \in T
      <3>1. \A i \in 0 .. n - 1 : i \in 0 .. n
        <4> HIDE DEF n
        <4> QED BY <1>2
      <3> HIDE DEF n
      <3> QED BY <1>7, <3>1
    <2> HIDE DEF T, n
    <2> QED BY <1>2, <2>1, <2>2, DownFrom
  <1>9. Good(0)
    BY <1>2, <1>8
  <1> QED BY <1>1, <1>4, <1>9 DEF Good

\* The texts that undoing or redoing a stack gives back, from t on.
TextsFrom(t, stack) ==
    LET after[i \in 0 .. Len(stack)] ==
            IF i = Len(stack) THEN t ELSE GroupPerformed(after[i + 1], stack[i + 1])
    IN  [i \in DOMAIN stack |-> after[i - 1]]

\* The first n texts of a chain.
TextsBefore(w, n) == [i \in 1 .. n |-> w[i - 1]]

\* They are those of its chain.
LEMMA TextsAre ==
  ASSUME NEW stack \in Seq(Group), NEW t, NEW w, Chain(w, stack, t, GroupSteps)
  PROVE  TextsFrom(t, stack) = TextsBefore(w, Len(stack))
  <1> DEFINE n == Len(stack)
             after[i \in 0 .. n] ==
                IF i = n THEN t ELSE GroupPerformed(after[i + 1], stack[i + 1])
             Equation(f) ==
                f = [i \in 0 .. n |-> IF i = n THEN t ELSE GroupPerformed(f[i + 1], stack[i + 1])]
  <1>1. n \in Nat /\ 0 \in 0 .. n /\ n \in 0 .. n /\ DOMAIN stack = 1 .. n
    BY SeqFacts
  <1>2. /\ w \in [0 .. n -> Text] /\ w[n] = t
        /\ \A i \in 0 .. n - 1 : <<stack[i + 1], w[i + 1], w[i]>> \in GroupSteps
    BY DEF Chain
  <1>3. TextsFrom(t, stack) = [i \in DOMAIN stack |-> after[i - 1]]
    BY DEF TextsFrom
  <1>4. after = CHOOSE f : Equation(f)
    OBVIOUS
  <1> HIDE DEF after, Equation
  <1>5. \A i \in 0 .. n - 1 : w[i] = GroupPerformed(w[i + 1], stack[i + 1])
    BY <1>2, GroupStepIs, GroupLeadsPerforms
  <1>6. Equation(w)
    <2>1. w = [i \in 0 .. n |-> w[i]]
      BY <1>2
    <2>2. \A i \in 0 .. n : i # n => i \in 0 .. n - 1
      <3> HIDE DEF n
      <3> QED BY <1>1
    <2>3. \A i \in 0 .. n : w[i] = IF i = n THEN t ELSE GroupPerformed(w[i + 1], stack[i + 1])
      <3> HIDE DEF n
      <3> QED BY <1>2, <1>5, <2>2
    <2> HIDE DEF n
    <2> QED BY <2>1, <2>3 DEF Equation
  <1>7. Equation(after)
    BY <1>4, <1>6
  <1>8. after[n] = w[n]
    <2> HIDE DEF n
    <2> QED BY <1>1, <1>2, <1>7 DEF Equation
  <1>9. \A i \in 0 .. n - 1 : after[i + 1] = w[i + 1] => after[i] = w[i]
    <2>1. \A i \in 0 .. n - 1 : i \in 0 .. n /\ i # n
      <3> HIDE DEF n
      <3> QED BY <1>1
    <2> HIDE DEF n
    <2> QED BY <1>5, <1>7, <2>1 DEF Equation
  <1>10. \A i \in 0 .. n : after[i] = w[i]
    <2>1. n \in Nat
      BY <1>1
    <2> HIDE DEF n
    <2> QED BY <1>8, <1>9, <2>1, SameDownFrom
  <1>11. \A i \in 1 .. n : i - 1 \in 0 .. n
    <2> HIDE DEF n
    <2> QED BY <1>1
  <1> HIDE DEF n
  <1> QED BY <1>1, <1>3, <1>10, <1>11 DEF TextsBefore, n

\* Texts that two chains share.
LEMMA SameTexts ==
  ASSUME NEW n \in Nat, NEW v, NEW w, \A i \in 0 .. n - 1 : v[i] = w[i]
  PROVE  TextsBefore(v, n) = TextsBefore(w, n)
  <1>1. \A i \in 1 .. n : i - 1 \in 0 .. n - 1
    OBVIOUS
  <1> QED BY <1>1 DEF TextsBefore

\* One text more, or less.
LEMMA MoreTexts ==
  ASSUME NEW n \in Nat, NEW w, \A i \in 0 .. n : w[i] \in Text
  PROVE  /\ TextsBefore(w, n) \in Seq(Text) /\ Len(TextsBefore(w, n)) = n
         /\ TextsBefore(w, n + 1) # <<>>
         /\ TextsBefore(w, n + 1) = Append(TextsBefore(w, n), w[n])
         /\ TextsBefore(w, n) = SubSeq(TextsBefore(w, n + 1), 1, Len(TextsBefore(w, n + 1)) - 1)
         /\ w[n] = TextsBefore(w, n + 1)[Len(TextsBefore(w, n + 1))]
  <1> DEFINE a == TextsBefore(w, n)
             b == TextsBefore(w, n + 1)
             c == Append(a, w[n])
             d == SubSeq(b, 1, n)
  <1>1. a \in Seq(Text) /\ Len(a) = n /\ \A i \in 1 .. n : a[i] = w[i - 1]
    <2>1. \A i \in 1 .. n : i - 1 \in 0 .. n
      OBVIOUS
    <2>2. a \in [1 .. n -> Text] /\ \A i \in 1 .. n : a[i] = w[i - 1]
      BY <2>1 DEF TextsBefore
    <2> HIDE DEF a
    <2>3. DOMAIN a = 1 .. n
      BY <2>2
    <2>4. a \in Seq(Text)
      BY <2>2, SeqDef
    <2> QED BY <2>2, <2>3, <2>4, LenProperties
  <1>2. b \in Seq(Text) /\ Len(b) = n + 1 /\ \A i \in 1 .. n + 1 : b[i] = w[i - 1]
    <2>1. \A i \in 1 .. n + 1 : i - 1 \in 0 .. n
      OBVIOUS
    <2>2. b \in [1 .. n + 1 -> Text] /\ \A i \in 1 .. n + 1 : b[i] = w[i - 1]
      BY <2>1 DEF TextsBefore
    <2> HIDE DEF b
    <2>3. DOMAIN b = 1 .. n + 1
      BY <2>2
    <2>4. b \in Seq(Text)
      BY <2>2, SeqDef
    <2> QED BY <2>2, <2>3, <2>4, LenProperties
  <1> HIDE DEF a, b
  <1>3. /\ c \in Seq(Text) /\ Len(c) = n + 1 /\ c[n + 1] = w[n]
        /\ \A i \in 1 .. n : c[i] = a[i]
    BY <1>1, AppendProperties
  <1>4. d \in Seq(Text) /\ Len(d) = n /\ \A i \in 1 .. n : d[i] = b[i]
    <2>1. \A i \in 1 .. n : b[i] \in Text
      BY <1>2, SeqFacts
    <2>2. /\ d \in Seq(Text) /\ Len(d) = (IF 1 <= n THEN n - 1 + 1 ELSE 0)
          /\ \A i \in 1 .. n - 1 + 1 : d[i] = b[1 + i - 1]
      BY <2>1, SubSeqProperties
    <2> HIDE DEF d
    <2> QED BY <2>2
  <1> HIDE DEF c, d
  <1>5. b = c
    <2>1. \A i \in 1 .. n + 1 : b[i] = c[i]
      <3> TAKE i \in 1 .. n + 1
      <3>1. b[i] = w[i - 1]
        BY <1>2
      <3>2. CASE i = n + 1
        <4>1. i - 1 = n
          BY <3>2
        <4> QED BY <1>3, <3>1, <3>2, <4>1
      <3>3. CASE i # n + 1
        <4>1. i \in 1 .. n
          BY <3>3
        <4> QED BY <1>1, <1>3, <3>1, <4>1
      <3> QED BY <3>2, <3>3
    <2> QED BY <1>2, <1>3, <2>1, SeqEqual
  <1>6. a = d
    <2>1. \A i \in 1 .. n : a[i] = d[i]
      <3> TAKE i \in 1 .. n
      <3>1. i \in 1 .. n + 1
        OBVIOUS
      <3> QED BY <1>1, <1>2, <1>4, <3>1
    <2> QED BY <1>1, <1>4, <2>1, SeqEqual
  <1>7. b # <<>>
    BY <1>2, SeqFacts
  <1>8. b[n + 1] = w[n] /\ Len(b) - 1 = n
    BY <1>2, <1>3, <1>5
  <1>9. c = Append(a, w[n]) /\ d = SubSeq(b, 1, n)
    BY DEF c, d
  <1> HIDE DEF c, d
  <1>10. b = Append(a, w[n]) /\ a = SubSeq(b, 1, Len(b) - 1) /\ w[n] = b[Len(b)]
    BY <1>2, <1>5, <1>6, <1>8, <1>9
  <1> QED BY <1>1, <1>7, <1>10 DEF a, b

\* No assertion fails when a whole stack is undone or redone.
LEMMA StackApplies ==
  ASSUME NEW here \in UsableEditor, here.done,
         NEW stack \in Seq(Group), NEW w, Chain(w, stack, here.text, GroupSteps),
         NEW redoing \in BOOLEAN
  PROVE  LET applied[i \in 0 .. Len(stack)] ==
                    IF i = Len(stack) THEN here
                    ELSE PerformGroup(applied[i + 1], stack[i + 1], redoing)
         IN  applied[0].done
  <1> DEFINE n == Len(stack)
             S == {v \in UsableEditor : v.done}
             Do(x, i) == PerformGroup(x, stack[i], redoing)
             applied[i \in 0 .. n] ==
                IF i = n THEN here ELSE PerformGroup(applied[i + 1], stack[i + 1], redoing)
             Equation(f) ==
                f = [i \in 0 .. n |->
                        IF i = n THEN here ELSE PerformGroup(f[i + 1], stack[i + 1], redoing)]
             U == UNION {{PerformGroup(v, stack[i], redoing) : v \in UsableEditor} : i \in 1 .. n}
             A == UsableEditor \cup U
  <1>1. n \in Nat /\ 0 \in 0 .. n /\ n \in 0 .. n /\ \A i \in 1 .. n : stack[i] \in Group
    BY SeqFacts
  <1>2. applied = CHOOSE f : Equation(f)
    OBVIOUS
  <1>3. /\ w \in [0 .. n -> Text] /\ w[n] = here.text
        /\ \A i \in 0 .. n - 1 : <<stack[i + 1], w[i + 1], w[i]>> \in GroupSteps
    BY DEF Chain
  <1> DEFINE step == [i \in 1 .. n |-> [x \in A |-> IF x \in UsableEditor THEN Do(x, i) ELSE x]]
  <1>4. /\ step \in [1 .. n -> [A -> A]]
        /\ \A i \in 1 .. n : \A x \in UsableEditor : step[i][x] = Do(x, i)
    <2>1. \A i \in 1 .. n : \A x \in UsableEditor : Do(x, i) \in A
      OBVIOUS
    <2>2. UsableEditor \subseteq A
      OBVIOUS
    <2> HIDE DEF n, Do, A
    <2> QED BY <2>1, <2>2
  <1>5. here \in A
    OBVIOUS
  <1> HIDE DEF applied, step, Equation, A
  <1>6. PICK f : IteratedBack(f, n, A, here, step)
    <2> HIDE DEF n
    <2> QED BY <1>1, <1>4, <1>5, IteratesBack
  <1>7. /\ f \in [0 .. n -> A] /\ f[n] = here
        /\ \A i \in 0 .. n - 1 : f[i] = step[i + 1][f[i + 1]]
    BY <1>6 DEF IteratedBack
  <1>8. \A i \in 0 .. n - 1 : i + 1 \in 0 .. n /\ i \in 0 .. n /\ i + 1 \in 1 .. n /\ i # n
    <2> HIDE DEF n
    <2> QED BY <1>1
  <1> DEFINE Good(i) == f[i] \in S /\ f[i].text = w[i]
             T == {i \in 0 .. n : Good(i)}
  <1>9. Good(n)
    <2> HIDE DEF n
    <2> QED BY <1>3, <1>7
  <1>10. \A i \in 0 .. n - 1 : Good(i + 1) => Good(i) /\ f[i] = Do(f[i + 1], i + 1)
    <2> SUFFICES ASSUME NEW i \in 0 .. n - 1, Good(i + 1)
                 PROVE  Good(i) /\ f[i] = Do(f[i + 1], i + 1)
      OBVIOUS
    <2> DEFINE a == f[i + 1]
               g == stack[i + 1]
               q == w[i]
    <2>1. a \in UsableEditor /\ a.done /\ a.text = w[i + 1]
      OBVIOUS
    <2>2. f[i] = Do(a, i + 1)
      BY <1>4, <1>7, <1>8, <2>1
    <2>3. GroupLeads(g, a.text, q)
      BY <1>3, <2>1, GroupStepIs
    <2> HIDE DEF a, g, q, n, Do
    <2> DEFINE z == PerformGroup(a, g, redoing)
    <2>4. z \in UsableEditor /\ z.done /\ z.text = q
      <3>1. a \in UsableEditor /\ a.done /\ GroupLeads(g, a.text, q)
        BY <2>1, <2>3
      <3> QED BY <3>1, GroupLeadsBack, ZenonT(60)
    <2> HIDE DEF z
    <2>5. f[i] = z
      BY <2>2 DEF z, g, Do
    <2> QED BY <2>2, <2>4, <2>5 DEF a, q
  <1> HIDE DEF Good
  <1>11. \A i \in 0 .. n : i \in T
    <2>1. n \in T
      BY <1>1, <1>9
    <2>2. \A i \in 0 .. n - 1 : i + 1 \in T => i \in T
      <3> HIDE DEF n
      <3> QED BY <1>8, <1>10
    <2> HIDE DEF T, n
    <2> QED BY <1>1, <2>1, <2>2, DownFrom
  <1>12. \A i \in 0 .. n - 1 : f[i] = Do(f[i + 1], i + 1)
    <2> HIDE DEF n, Do
    <2> QED BY <1>8, <1>10, <1>11
  <1>13. Equation(f)
    <2>1. f = [i \in 0 .. n |-> f[i]]
      BY <1>7
    <2>2. \A i \in 0 .. n : i # n => i \in 0 .. n - 1
      <3> HIDE DEF n
      <3> QED BY <1>1
    <2>3. \A i \in 0 .. n : f[i] = IF i = n THEN here
                ELSE PerformGroup(f[i + 1], stack[i + 1], redoing)
      <3> HIDE DEF n
      <3> QED BY <1>7, <1>12, <2>2
    <2> HIDE DEF n
    <2> QED BY <2>1, <2>3 DEF Equation
  <1>14. Equation(applied)
    BY <1>2, <1>13
  <1>15. \A i \in 0 .. n : applied[i] = f[i]
    <2>1. applied[n] = f[n]
      <3> HIDE DEF n
      <3> QED BY <1>1, <1>7, <1>14 DEF Equation
    <2>2. \A i \in 0 .. n - 1 : applied[i + 1] = f[i + 1] => applied[i] = f[i]
      <3> HIDE DEF n
      <3> QED BY <1>8, <1>12, <1>14 DEF Equation
    <2> HIDE DEF n
    <2> QED BY <1>1, <2>1, <2>2, SameDownFrom
  <1>16. Good(0)
    BY <1>1, <1>11
  <1>17. applied[0].done
    BY <1>1, <1>15, <1>16 DEF Good
  <1> QED BY <1>17 DEF applied

-----------------------------------------------------------------------------
(* The history during an event                                              *)

\* What can be undone, if the event ends here.
Stack(e) == IF e.group = <<>> THEN e.undo ELSE Append(e.undo, e.group)

\* It leads from t through the texts before the event, those in w, and what
\* the event has registered leads to the text that it started with.
During(e, t, w, start) ==
    \E v : /\ Chain(v, Stack(e), t, GroupSteps)
           /\ \A i \in 0 .. Len(e.undo) - 1 : v[i] = w[i]
           /\ e.group # <<>> => v[Len(e.undo)] = start

\* Only the history is looked at.
LEMMA DuringSame ==
  ASSUME NEW e, NEW u, u.undo = e.undo, u.group = e.group,
         NEW t, NEW w, NEW start, During(e, t, w, start)
  PROVE  During(u, t, w, start)
  <1>1. Stack(u) = Stack(e)
    BY DEF Stack
  <1> QED BY <1>1 DEF During

\* The last operation of a stack becomes another one that leads to the same
\* text.
LEMMA StackLast ==
  ASSUME NEW q \in Seq(Group), q # <<>>, NEW t, NEW v, Chain(v, q, t, GroupSteps),
         NEW o \in Operation, NEW x \in Text,
         \A s : Leads(Last(Last(q)), t, s) => Leads(o, x, s)
  PROVE  \E z : /\ Chain(z, ChangedLast(q, ChangedLast(Last(q), o)), x, GroupSteps)
                /\ \A i \in 0 .. Len(q) - 1 : z[i] = v[i]
  <1> DEFINE g == Last(q)
             h == ChangedLast(g, o)
             s == v[Len(q) - 1]
  <1>1. g \in Seq(Operation) /\ g # <<>>
    BY LastIs DEF Group
  <1>2. GroupLeads(g, t, s)
    <2>1. <<Last(q), t, v[Len(q) - 1]>> \in GroupSteps
      BY ChainFront
    <2> QED BY <2>1, GroupStepIs
  <1>3. \A y : Leads(Last(g), t, y) => Leads(o, x, y)
    OBVIOUS
  <1> HIDE DEF g
  <1>4. GroupLeads(h, x, s)
    <2> HIDE DEF s
    <2> QED BY <1>1, <1>2, <1>3, GroupLast
  <1>5. h \in Group
    BY <1>1, ChangedLastIs DEF Group
  <1> HIDE DEF h
  <1>6. <<h, x, v[Len(q) - 1]>> \in GroupSteps
    BY <1>4, GroupStepIs
  <1>7. \E z : /\ Chain(z, ChangedLast(q, h), x, GroupSteps)
               /\ \A i \in 0 .. Len(q) - 1 : z[i] = v[i]
    BY <1>5, <1>6, ChainLast
  <1> QED BY <1>7 DEF h, g

\* What has been registered by the event leads to where it started.
LEMMA RegisteredLeads ==
  ASSUME NEW e \in Editor, e.group # <<>>, NEW t, NEW v, Chain(v, Stack(e), t, GroupSteps)
  PROVE  /\ Stack(e) = Append(e.undo, e.group) /\ Stack(e) \in Seq(Group) /\ Stack(e) # <<>>
         /\ Len(Stack(e)) = Len(e.undo) + 1 /\ Last(Stack(e)) = e.group
         /\ e.group \in Group /\ e.undo \in Seq(Group) /\ Len(e.undo) \in Nat
         /\ GroupLeads(e.group, t, v[Len(e.undo)])
  <1> DEFINE n == Len(e.undo)
             q == Append(e.undo, e.group)
  <1>1. e.undo \in Seq(Group) /\ e.group \in Group /\ n \in Nat
    BY SeqFacts DEF Editor, Group
  <1>2. Stack(e) = q
    BY DEF Stack
  <1>3. q \in Seq(Group) /\ q # <<>> /\ Len(q) = n + 1 /\ q[n + 1] = e.group
    BY <1>1, AppendProperties
  <1> HIDE DEF q
  <1>4. Last(q) = e.group
    BY <1>3 DEF Last
  <1>5. <<Last(q), t, v[Len(q) - 1]>> \in GroupSteps
    BY <1>2, <1>3, ChainFront
  <1>6. Len(q) - 1 = n
    BY <1>1, <1>3
  <1>7. GroupLeads(e.group, t, v[n])
    BY <1>4, <1>5, <1>6, GroupStepIs
  <1> QED BY <1>1, <1>2, <1>3, <1>4, <1>7 DEF q

\* Typing that goes on changes the operation it is, and nothing before it.
LEMMA DuringCoalesced ==
  ASSUME NEW e \in Editor, Linked(e), e.coalescer \in TypingOperation,
         NEW t, NEW w, NEW start, During(e, t, w, start),
         NEW c \in TypingOperation, NEW x \in Text,
         \A s : Leads(e.coalescer, t, s) => Leads(c, x, s)
  PROVE  During(Coalesce(e, c), x, w, start)
  <1> DEFINE u == Coalesce(e, c)
             n == Len(e.undo)
  <1>1. Coalesced(u, e, c)
    BY CoalesceIs
  <1>2. PICK v : /\ Chain(v, Stack(e), t, GroupSteps)
                 /\ \A i \in 0 .. n - 1 : v[i] = w[i]
                 /\ e.group # <<>> => v[n] = start
    BY DEF During
  <1>3. e.undo \in Seq(Group) /\ n \in Nat /\ c \in Operation /\ e.coalescer # None
    BY TypingFacts, SeqFacts DEF Editor
  <1> HIDE DEF u
  <1>4. CASE e.group # <<>>
    <2> DEFINE q == Stack(e)
               h == ChangedLast(e.group, c)
    <2>1. /\ q = Append(e.undo, e.group) /\ q \in Seq(Group) /\ q # <<>> /\ Len(q) = n + 1
          /\ Last(q) = e.group /\ e.group \in Group
      BY <1>2, <1>4, RegisteredLeads
    <2>2. Last(Last(q)) = e.coalescer
      BY <1>3, <1>4, <2>1 DEF Linked
    <2>3. \A s : Leads(Last(Last(q)), t, s) => Leads(c, x, s)
      BY <2>2
    <2>4. Chain(v, q, t, GroupSteps)
      BY <1>2
    <2> HIDE DEF q
    <2>5. PICK z : /\ Chain(z, ChangedLast(q, ChangedLast(Last(q), c)), x, GroupSteps)
                   /\ \A i \in 0 .. Len(q) - 1 : z[i] = v[i]
      <3>1. q \in Seq(Group) /\ q # <<>> /\ c \in Operation
        BY <1>3, <2>1
      <3> QED BY <2>3, <2>4, <3>1, StackLast
    <2>6. h \in Group
      <3>1. e.group \in Seq(Operation) /\ e.group # <<>>
        BY <2>1 DEF Group
      <3> QED BY <1>3, <3>1, ChangedLastIs, ZenonT(60) DEF Group
    <2>7. ChangedLast(q, h) = Append(e.undo, h)
      BY <1>3, <2>1, <2>6, AppendedChanged
    <2>8. u.undo = e.undo /\ u.group = h
      BY <1>1, <1>4 DEF Coalesced
    <2>9. Stack(u) = Append(e.undo, h) /\ u.group # <<>>
      BY <2>6, <2>8 DEF Stack, Group
    <2>10. Chain(z, Stack(u), x, GroupSteps)
      BY <2>1, <2>5, <2>7, <2>9
    <2>11. \A i \in 0 .. n : z[i] = v[i]
      <3>1. Len(q) - 1 = n
        BY <1>3, <2>1
      <3> QED BY <2>5, <3>1
    <2>12. (\A i \in 0 .. n - 1 : z[i] = w[i]) /\ z[n] = start
      <3>1. n \in 0 .. n /\ \A i \in 0 .. n - 1 : i \in 0 .. n
        BY <1>3
      <3> HIDE DEF n
      <3> QED BY <1>2, <1>4, <2>11, <3>1
    <2> QED BY <2>8, <2>10, <2>12 DEF During, u
  <1>5. CASE e.group = <<>> /\ e.undo # <<>>
    <2> DEFINE q == e.undo
    <2>1. q \in Seq(Group) /\ q # <<>> /\ Chain(v, q, t, GroupSteps)
      BY <1>2, <1>3, <1>5 DEF Stack
    <2>2. Last(Last(q)) = e.coalescer
      BY <1>3, <1>5 DEF Linked
    <2>3. \A s : Leads(Last(Last(q)), t, s) => Leads(c, x, s)
      BY <2>2
    <2> HIDE DEF q
    <2>4. PICK z : /\ Chain(z, ChangedLast(q, ChangedLast(Last(q), c)), x, GroupSteps)
                   /\ \A i \in 0 .. Len(q) - 1 : z[i] = v[i]
      BY <1>3, <2>1, <2>3, StackLast
    <2>5. /\ u.undo = ChangedLast(e.undo, ChangedLast(Last(e.undo), c)) /\ u.group = <<>>
      BY <1>1, <1>5 DEF Coalesced
    <2>6. u.undo = ChangedLast(q, ChangedLast(Last(q), c)) /\ Stack(u) = u.undo
      BY <2>5 DEF Stack, q
    <2>7. Len(u.undo) = n
      <3>1. Last(q) \in Seq(Operation) /\ Last(q) # <<>>
        BY <2>1, LastIs DEF Group
      <3>2. ChangedLast(Last(q), c) \in Group
        BY <1>3, <3>1, ChangedLastIs DEF Group
      <3> QED BY <2>1, <2>6, <3>2, ChangedLastIs DEF q
    <2>8. \A i \in 0 .. n - 1 : z[i] = w[i]
      BY <1>2, <2>4 DEF q
    <2> QED BY <2>4, <2>5, <2>6, <2>7, <2>8 DEF During, u
  <1>6. CASE e.group = <<>> /\ e.undo = <<>>
    <2>1. u.group = <<>> /\ u.undo = <<>> /\ Stack(u) = <<>>
      BY <1>1, <1>6 DEF Coalesced, Stack
    <2> DEFINE z == [i \in 0 .. 0 |-> x]
    <2>2. Chain(z, <<>>, x, GroupSteps)
      BY ChainEmpty
    <2> HIDE DEF z
    <2>3. \A i \in 0 .. Len(u.undo) - 1 : z[i] = w[i]
      BY <2>1
    <2> QED BY <2>1, <2>2, <2>3 DEF During, u
  <1> QED BY <1>4, <1>5, <1>6

\* What is registered is performed before what the event has registered.
LEMMA DuringRegistered ==
  ASSUME NEW e \in Editor, NEW t, NEW w, NEW start, During(e, t, w, start),
         e.group = <<>> => t = start,
         NEW o, NEW x, Leads(o, x, t),
         NEW u, u.undo = e.undo, u.group = Append(e.group, o)
  PROVE  During(u, x, w, start)
  <1> DEFINE n == Len(e.undo)
             h == Append(e.group, o)
  <1>1. PICK v : /\ Chain(v, Stack(e), t, GroupSteps)
                 /\ \A i \in 0 .. n - 1 : v[i] = w[i]
                 /\ e.group # <<>> => v[n] = start
    BY DEF During
  <1>2. e.undo \in Seq(Group) /\ n \in Nat /\ o \in Operation /\ e.group \in Seq(Operation)
        /\ x \in Text
    BY SeqFacts DEF Editor, Leads, Single
  <1>3. h \in Group
    BY <1>2, AppendProperties, SMTT(60) DEF Group
  <1>4. Stack(u) = Append(e.undo, h) /\ u.group # <<>>
    BY <1>3 DEF Stack, Group
  <1>5. GroupLeads(h, x, start) /\ \E z : /\ Chain(z, Append(e.undo, h), x, GroupSteps)
                                          /\ \A i \in 0 .. n : z[i] = v[i]
    <2>1. CASE e.group = <<>>
      <3>1. Chain(v, e.undo, t, GroupSteps)
        BY <1>1, <2>1 DEF Stack
      <3>2. GroupLeads(h, x, t)
        BY <2>1, GroupOfOne
      <3>3. <<h, x, t>> \in GroupSteps
        BY <3>2, GroupStepIs
      <3> HIDE DEF h
      <3>4. \E z : /\ Chain(z, Append(e.undo, h), x, GroupSteps)
                   /\ \A i \in 0 .. n : z[i] = v[i]
        BY <1>2, <1>3, <3>1, <3>3, ChainAppend
      <3> QED BY <2>1, <3>2, <3>4
    <2>2. CASE e.group # <<>>
      <3> DEFINE q == Stack(e)
      <3>1. /\ q = Append(e.undo, e.group) /\ q \in Seq(Group) /\ q # <<>> /\ Len(q) = n + 1
            /\ e.group \in Group /\ GroupLeads(e.group, t, v[n])
        BY <1>1, <2>2, RegisteredLeads
      <3>2. GroupLeads(h, x, v[n])
        <4> DEFINE s == v[n]
        <4>1. GroupLeads(e.group, t, s)
          BY <3>1
        <4> HIDE DEF s
        <4>2. GroupLeads(h, x, s)
          BY <4>1, GroupAppend
        <4> QED BY <4>2 DEF s
      <3>3. Chain(v, q, t, GroupSteps)
        BY <1>1
      <3> HIDE DEF h, q
      <3>4. Len(q) - 1 = n
        BY <1>2, <3>1
      <3>5. <<h, x, v[Len(q) - 1]>> \in GroupSteps
        BY <3>2, <3>4, GroupStepIs
      <3>6. \E z : /\ Chain(z, ChangedLast(q, h), x, GroupSteps)
                   /\ \A i \in 0 .. Len(q) - 1 : z[i] = v[i]
        <4>1. q \in Seq(Group) /\ q # <<>> /\ x \in Text
          BY <1>2, <3>1
        <4> QED BY <1>3, <3>3, <3>5, <4>1, ChainLast
      <3>7. ChangedLast(q, h) = Append(e.undo, h)
        BY <1>2, <1>3, <3>1, AppendedChanged
      <3> QED BY <1>1, <2>2, <3>2, <3>4, <3>6, <3>7
    <2> QED BY <2>1, <2>2
  <1>6. PICK z : /\ Chain(z, Append(e.undo, h), x, GroupSteps)
                 /\ \A i \in 0 .. n : z[i] = v[i]
    BY <1>5
  <1>7. z[n] = start
    <2>1. n \in 0 .. n
      BY <1>2
    <2>2. CASE e.group # <<>>
      BY <1>1, <1>6, <2>1, <2>2
    <2>3. CASE e.group = <<>>
      <3>1. Chain(v, e.undo, t, GroupSteps)
        BY <1>1, <2>3 DEF Stack
      <3>2. v[n] = t
        BY <3>1 DEF Chain
      <3> QED BY <1>6, <2>1, <2>3, <3>2
    <2> QED BY <2>2, <2>3
  <1>8. \A i \in 0 .. n - 1 : z[i] = w[i]
    <2>1. \A i \in 0 .. n - 1 : i \in 0 .. n
      BY <1>2
    <2> HIDE DEF n
    <2> QED BY <1>1, <1>6, <2>1
  <1> QED BY <1>4, <1>6, <1>7, <1>8 DEF During

\* Typing leads to what is put back at its place.
LEMMA TypingLeads ==
  ASSUME NEW c \in TypingOperation, NEW t, NEW s
  PROVE  Leads(c, t, s) <=> /\ t \in Text /\ c.action <= Len(t)
                            /\ s = Splice(t, c.anchor, c.action - c.anchor, c.deleted)
  <1> DEFINE a == c.anchor
             n == c.action
             r == Between(a, n)
  <1>1. a \in Nat /\ n \in Nat /\ a <= n /\ c.deleted \in Text /\ c.kind = "typing" /\ c \in Operation
    BY TypingFacts
  <1>2. Where(c) = r /\ What(c) = c.deleted /\ Single(c)
    BY <1>1 DEF Where, What, Single
  <1>3. r \in HFRange /\ r.location = a /\ MaxRange(r) = n /\ r.length = n - a
    BY <1>1, BetweenIs
  <1> HIDE DEF r, a, n
  <1>4. t \in Text /\ n <= Len(t) => Replaced(t, r, c.deleted) = Splice(t, a, n - a, c.deleted)
    <2> SUFFICES ASSUME t \in Text, n <= Len(t)
                 PROVE  Replaced(t, r, c.deleted) = Splice(t, a, n - a, c.deleted)
      OBVIOUS
    <2>1. Replaced(t, r, c.deleted) = Splice(t, r.location, r.length, c.deleted)
      BY <1>1, <1>3, ReplacedIs
    <2> QED BY <1>3, <2>1
  <1> QED BY <1>2, <1>3, <1>4 DEF Leads, a, n

\* When r, which meets the action point, becomes b, typing that has saved what
\* is lost on both sides leads to the same text as before.
LEMMA TypingGoesOn ==
  ASSUME NEW c \in TypingOperation, NEW t \in Text, c.action <= Len(t),
         NEW r \in HFRange, MaxRange(r) <= Len(t),
         r.location <= c.action, c.action <= MaxRange(r), NEW b \in Text,
         NEW d \in TypingOperation, d.action = r.location + Len(b),
         d.anchor <= c.anchor, d.anchor <= r.location,
         d.anchor = c.anchor \/ d.anchor = r.location,
         Lengthened(d.deleted, t, d.anchor, c.anchor - d.anchor, c.deleted, c.action,
               MaxRange(r) - c.action)
  PROVE  \A s : Leads(c, t, s) => Leads(d, Replaced(t, r, b), s)
  <1> DEFINE a == c.anchor
             n == c.action
             p == r.location
             l == r.length
             a1 == d.anchor
             x == Replaced(t, r, b)
  <1>1. /\ a \in Nat /\ n \in Nat /\ a <= n /\ c.deleted \in Text
        /\ a1 \in Nat /\ d.deleted \in Text
    BY TypingFacts
  <1>2. p \in Nat /\ l \in Nat /\ MaxRange(r) = p + l /\ Len(b) \in Nat /\ Len(t) \in Nat
    BY RangeFacts, LenProperties DEF Text
  <1>3. x = Splice(t, p, l, b) /\ x \in Text /\ Len(x) = Len(t) - l + Len(b)
    BY ReplacedIs
  <1> HIDE DEF a, n, p, l, a1, x
  <1>4. /\ p <= n /\ n <= p + l /\ p + l <= Len(t) /\ n <= Len(t)
        /\ d.action = p + Len(b) /\ a1 <= a /\ a1 <= p /\ (a1 = a \/ a1 = p)
        /\ Lengthened(d.deleted, t, a1, a - a1, c.deleted, n, (p + l) - n)
    BY <1>2 DEF a, n, p, a1
  <1>5. Splice(Splice(t, p, l, b), a1, (p + Len(b)) - a1, d.deleted) = Splice(t, a, n - a, c.deleted)
    <2> DEFINE h == c.deleted
               e == d.deleted
    <2>1. t \in Seq(Bytes) /\ h \in Seq(Bytes) /\ b \in Seq(Bytes) /\ e \in Seq(Bytes)
      BY <1>1 DEF Text
    <2>2. a \in Nat /\ n \in Nat /\ a <= n /\ n <= Len(t) /\ p \in Nat /\ l \in Nat
      BY <1>1, <1>2, <1>4
    <2>3. p <= n /\ n <= p + l /\ p + l <= Len(t) /\ a1 \in Nat /\ a1 <= a /\ a1 <= p
      BY <1>1, <1>4
    <2>4. (a1 = a \/ a1 = p) /\ Lengthened(e, t, a1, a - a1, h, n, (p + l) - n)
      BY <1>4
    <2> HIDE DEF h, e
    <2>5. Splice(Splice(t, p, l, b), a1, (p + Len(b)) - a1, e) = Splice(t, a, n - a, h)
      BY <2>1, <2>2, <2>3, <2>4, SpliceGoesOn
    <2> QED BY <2>5 DEF h, e
  <1>6. d.action <= Len(x)
    BY <1>2, <1>3, <1>4
  <1> SUFFICES ASSUME NEW s, Leads(c, t, s) PROVE Leads(d, x, s)
    BY DEF x
  <1>7. s = Splice(t, a, n - a, c.deleted)
    BY TypingLeads DEF a, n
  <1>8. s = Splice(x, d.anchor, d.action - d.anchor, d.deleted)
    BY <1>3, <1>4, <1>5, <1>7 DEF a1
  <1> QED BY <1>3, <1>6, <1>8, TypingLeads

\* Typing behind the action point.
LEMMA AppendingGoesOn ==
  ASSUME NEW c \in TypingOperation, NEW t \in Text, c.action <= Len(t), NEW b \in Text,
         NEW d \in TypingOperation, d.anchor = c.anchor, d.deleted = c.deleted,
         d.action = c.action + Len(b),
         NEW r \in HFRange, r.location = c.action, r.length = 0
  PROVE  \A s : Leads(c, t, s) => Leads(d, Replaced(t, r, b), s)
  <1>1. /\ c.anchor \in Nat /\ c.action \in Nat /\ c.anchor <= c.action /\ Len(c.deleted) \in Nat
    BY TypingFacts
  <1>2. MaxRange(r) = c.action
    BY RangeFacts
  <1>3. Lengthened(d.deleted, t, d.anchor, c.anchor - d.anchor, c.deleted, c.action,
              MaxRange(r) - c.action)
    <2>1. c.anchor - d.anchor = 0 /\ MaxRange(r) - c.action = 0
      BY <1>1, <1>2
    <2>2. Lengthened(c.deleted, t, c.anchor, 0, c.deleted, c.action, 0)
      BY <1>1 DEF Lengthened
    <2> QED BY <2>1, <2>2
  <1>4. /\ MaxRange(r) <= Len(t) /\ r.location <= c.action /\ c.action <= MaxRange(r)
        /\ d.action = r.location + Len(b)
        /\ d.anchor <= c.anchor /\ d.anchor <= r.location /\ d.anchor = c.anchor
    BY <1>1, <1>2
  <1> QED BY <1>3, <1>4, TypingGoesOn

\* Deleting before the action point, of this string of typing and of what was
\* there before.
LEMMA DeletingGoesOn ==
  ASSUME NEW c \in TypingOperation, NEW t \in Text, c.action <= Len(t),
         NEW r \in HFRange, MaxRange(r) = c.action
  PROVE  \A s : Leads(c, t, s) => Leads(deleteData(c, r.length, t), Replaced(t, r, <<>>), s)
  <1> DEFINE a == c.anchor
             n == c.action
             p == r.location
             d == deleteData(c, r.length, t)
             h == c.deleted
             g == BytesIn(t, Between(p, a))
  <1>1. a \in Nat /\ n \in Nat /\ a <= n /\ h \in Text /\ Len(h) \in Nat
    BY TypingFacts
  <1>2. p \in Nat /\ r.length \in Nat /\ n = p + r.length /\ p <= n /\ n - r.length = p
        /\ r.length <= n
    BY RangeFacts
  <1>3. /\ d \in TypingOperation /\ d.action = p /\ d.anchor <= p
        /\ \/ a <= p /\ d.anchor = a /\ d.deleted = h
           \/ p < a /\ d.anchor = p /\ d.deleted = g \o h
    <2>1. LET point == c.action - r.length
          IN  /\ d \in TypingOperation /\ d.action = point /\ d.anchor <= point
              /\ \/ /\ c.anchor <= point
                    /\ d.anchor = c.anchor /\ d.deleted = c.deleted
                 \/ /\ point < c.anchor /\ d.anchor = point
                    /\ d.deleted = BytesIn(t, Between(point, c.anchor)) \o c.deleted
      <3>1. r.length \in Nat /\ r.length <= c.action
        BY <1>2
      <3> QED BY <3>1, DeleteDataIs
    <2> HIDE DEF d
    <2> QED BY <1>2, <2>1
  <1> HIDE DEF a, n, p, d, h, g
  <1>4. Lengthened(d.deleted, t, d.anchor, a - d.anchor, h, n, 0)
    <2>1. CASE a <= p /\ d.anchor = a /\ d.deleted = h
      <3>1. a - d.anchor = 0
        BY <1>1, <2>1
      <3>2. Lengthened(h, t, a, 0, h, n, 0)
        BY <1>1 DEF Lengthened
      <3> QED BY <2>1, <3>1, <3>2
    <2>2. CASE p < a /\ d.anchor = p /\ d.deleted = g \o h
      <3> DEFINE k == a - p
                 e == g \o h
      <3>1. k \in Nat /\ p + k = a /\ p <= a /\ a <= Len(t) /\ Len(t) \in Nat
        <4>1. n <= Len(t) /\ Len(t) \in Nat
          BY LenProperties DEF n, Text
        <4> QED BY <1>1, <1>2, <2>2, <4>1
      <3>2. g \in Text /\ Len(g) = k /\ \A j \in 1 .. k : g[j] = t[p + j]
        <4> DEFINE s == Between(p, a)
        <4>1. s \in HFRange /\ s.location = p /\ MaxRange(s) = a /\ s.length = k
          BY <1>1, <1>2, <3>1, BetweenIs
        <4> HIDE DEF s
        <4>2. BytesIn(t, s) = Part(t, p, k)
          <5>1. <<>> \in Text
            BY DEF Text
          <5>2. BytesIn(t, s) = Part(t, s.location, s.length)
            BY <3>1, <4>1, <5>1, ReplacedIs
          <5> QED BY <4>1, <5>2
        <4>3. Part(t, p, k) \in Seq(Bytes) /\ Len(Part(t, p, k)) = k
              /\ \A j \in 1 .. k : Part(t, p, k)[j] = t[p + j]
          <5>1. t \in Seq(Bytes) /\ p + k <= Len(t)
            BY <3>1 DEF Text
          <5> HIDE DEF k
          <5> QED BY <1>2, <3>1, <5>1, PartIs
        <4>4. g = Part(t, p, k)
          BY <4>2 DEF g, s
        <4> QED BY <4>3, <4>4 DEF Text
      <3> HIDE DEF k
      <3>3. /\ Len(e) = k + Len(h)
            /\ \A j \in 1 .. k : e[j] = g[j]
            /\ \A j \in 1 .. Len(h) : e[k + j] = h[j]
        <4>1. g \in Seq(Bytes) /\ h \in Seq(Bytes) /\ Len(g) = k
          BY <1>1, <3>2 DEF Text
        <4>2. /\ Len(e) = Len(g) + Len(h)
              /\ \A i \in 1 .. Len(g) + Len(h) : e[i] = IF i <= Len(g) THEN g[i] ELSE h[i - Len(g)]
          BY <4>1, ConcatProperties
        <4> HIDE DEF e
        <4>3. \A j \in 1 .. k : e[j] = g[j]
          BY <1>1, <3>1, <4>1, <4>2
        <4>4. \A j \in 1 .. Len(h) : e[k + j] = h[j]
          <5> TAKE j \in 1 .. Len(h)
          <5>1. k + j \in 1 .. k + Len(h) /\ ~ (k + j <= k) /\ (k + j) - k = j
            BY <1>1, <3>1
          <5> QED BY <4>1, <4>2, <5>1
        <4> QED BY <4>1, <4>2, <4>3, <4>4
      <3> HIDE DEF e
      <3>4. Lengthened(e, t, p, k, h, n, 0)
        BY <1>1, <3>1, <3>2, <3>3 DEF Lengthened
      <3>5. a - d.anchor = k
        BY <2>2 DEF k
      <3> QED BY <2>2, <3>4, <3>5 DEF e
    <2> QED BY <1>3, <2>1, <2>2
  <1>5. MaxRange(r) - n = 0 /\ MaxRange(r) <= Len(t)
    BY <1>1 DEF n
  <1>6. <<>> \in Text /\ Len(<<>>) = 0
    BY DEF Text
  <1>7. /\ d \in TypingOperation /\ d.action = r.location + Len(<<>>)
        /\ d.anchor <= c.anchor /\ d.anchor <= r.location
        /\ d.anchor = c.anchor \/ d.anchor = r.location
        /\ r.location <= c.action /\ c.action <= MaxRange(r)
    <2>1. MaxRange(r) = n
      BY DEF n
    <2>2. /\ d.action = p + 0 /\ d.anchor <= a /\ p <= n /\ n <= n
      BY <1>1, <1>2, <1>3
    <2> QED BY <1>3, <1>6, <2>1, <2>2 DEF a, n, p
  <1>8. Lengthened(d.deleted, t, d.anchor, c.anchor - d.anchor, c.deleted, c.action,
              MaxRange(r) - c.action)
    BY <1>4, <1>5 DEF a, n, h
  <1>9. \A s : Leads(c, t, s) => Leads(d, Replaced(t, r, <<>>), s)
    BY <1>5, <1>6, <1>7, <1>8, TypingGoesOn
  <1> QED BY <1>9 DEF d

\* Overwriting from the action point, or from the byte before it.
LEMMA OverwritingGoesOn ==
  ASSUME NEW c \in TypingOperation, NEW t \in Text, c.action <= Len(t),
         NEW r \in HFRange, MaxRange(r) <= Len(t),
         c.anchor <= r.location, r.location <= c.action, c.action <= MaxRange(r),
         NEW b \in Text, Len(b) = r.length
  PROVE  \A s : Leads(c, t, s) => Leads(overwriteData(c, r, t), Replaced(t, r, b), s)
  <1> DEFINE a == c.anchor
             n == c.action
             m == MaxRange(r)
             d == overwriteData(c, r, t)
             h == c.deleted
             g == BytesIn(t, Between(n, m))
  <1>1. /\ a \in Nat /\ n \in Nat /\ a <= n /\ h \in Text /\ Len(h) \in Nat /\ Len(t) \in Nat
    BY TypingFacts, LenProperties DEF Text
  <1>2. m \in Nat /\ m = r.location + r.length
    BY RangeFacts
  <1>3. /\ d \in TypingOperation /\ d.action = m /\ d.anchor = a
        /\ \/ m = n /\ d.deleted = h
           \/ n < m /\ d.deleted = h \o g
    <2>1. /\ d \in TypingOperation /\ d.action = MaxRange(r) /\ d.anchor = c.anchor
          /\ \/ MaxRange(r) = c.action /\ d.deleted = c.deleted
             \/ /\ c.action < MaxRange(r)
                /\ d.deleted = c.deleted \o BytesIn(t, Between(c.action, MaxRange(r)))
      BY OverwriteDataIs
    <2> HIDE DEF d
    <2> QED BY <2>1
  <1>4. n <= m /\ m <= Len(t)
    OBVIOUS
  <1> HIDE DEF a, n, m, d, h, g
  <1> DEFINE k == m - n
  <1>5. k \in Nat /\ n + k = m
    BY <1>1, <1>2, <1>4
  <1>6. Lengthened(d.deleted, t, a, 0, h, n, k)
    <2>1. CASE m = n /\ d.deleted = h
      <3>1. k = 0
        BY <1>1, <2>1
      <3>2. Lengthened(h, t, a, 0, h, n, 0)
        BY <1>1 DEF Lengthened
      <3> QED BY <2>1, <3>1, <3>2
    <2>2. CASE n < m /\ d.deleted = h \o g
      <3> DEFINE e == h \o g
      <3>1. g \in Text /\ Len(g) = k /\ \A j \in 1 .. k : g[j] = t[n + j]
        <4> DEFINE s == Between(n, m)
        <4>1. s \in HFRange /\ s.location = n /\ MaxRange(s) = m /\ s.length = k
          BY <1>1, <1>2, <1>4, BetweenIs
        <4> HIDE DEF s
        <4>2. BytesIn(t, s) = Part(t, n, k)
          <5>1. <<>> \in Text
            BY DEF Text
          <5>2. BytesIn(t, s) = Part(t, s.location, s.length)
            BY <1>4, <4>1, <5>1, ReplacedIs
          <5> QED BY <4>1, <5>2
        <4>3. Part(t, n, k) \in Seq(Bytes) /\ Len(Part(t, n, k)) = k
              /\ \A j \in 1 .. k : Part(t, n, k)[j] = t[n + j]
          <5>1. t \in Seq(Bytes) /\ n + k <= Len(t)
            BY <1>4, <1>5 DEF Text
          <5> HIDE DEF k
          <5> QED BY <1>1, <1>5, <5>1, PartIs
        <4>4. g = Part(t, n, k)
          BY <4>2 DEF g, s
        <4> QED BY <4>3, <4>4 DEF Text
      <3> HIDE DEF k
      <3>2. h \in Seq(Bytes) /\ g \in Seq(Bytes)
        BY <1>1, <3>1 DEF Text
      <3>3. /\ Len(e) = Len(h) + Len(g)
            /\ \A i \in 1 .. Len(h) + Len(g) : e[i] = IF i <= Len(h) THEN h[i] ELSE g[i - Len(h)]
        BY <3>2, ConcatProperties
      <3> HIDE DEF e
      <3>4. \A j \in 1 .. Len(h) : e[0 + j] = h[j]
        BY <1>1, <1>5, <3>1, <3>3
      <3>5. \A j \in 1 .. k : e[0 + Len(h) + j] = t[n + j]
        <4> TAKE j \in 1 .. k
        <4>1. /\ 0 + Len(h) + j \in 1 .. Len(h) + k /\ ~ (0 + Len(h) + j <= Len(h))
              /\ (0 + Len(h) + j) - Len(h) = j
          BY <1>1, <1>5
        <4> QED BY <3>1, <3>3, <4>1
      <3>6. Len(e) = 0 + Len(h) + k
        BY <1>1, <1>5, <3>1, <3>3
      <3>7. Lengthened(e, t, a, 0, h, n, k)
        BY <3>4, <3>5, <3>6 DEF Lengthened
      <3> QED BY <2>2, <3>7 DEF e
    <2> QED BY <1>3, <2>1, <2>2
  <1>7. Lengthened(d.deleted, t, d.anchor, c.anchor - d.anchor, c.deleted, c.action,
              MaxRange(r) - c.action)
    <2>1. a - d.anchor = 0
      BY <1>1, <1>3
    <2> QED BY <1>3, <1>6, <2>1 DEF a, n, m, h, k
  <1>8. /\ d \in TypingOperation /\ d.action = r.location + Len(b)
        /\ d.anchor <= c.anchor /\ d.anchor <= r.location /\ d.anchor = c.anchor
    BY <1>1, <1>2, <1>3 DEF a
  <1>9. \A s : Leads(c, t, s) => Leads(d, Replaced(t, r, b), s)
    BY <1>7, <1>8, TypingGoesOn
  <1> QED BY <1>9 DEF d

\* Typing that begins leads to the text it begins with.
LEMMA FreshLeads ==
  ASSUME NEW t \in Text, NEW r \in HFRange, MaxRange(r) <= Len(t), NEW b \in Text
  PROVE  LET c == Typing(r.location, r.location + Len(b), BytesIn(t, r))
         IN  c \in TypingOperation /\ Leads(c, Replaced(t, r, b), t)
  <1> DEFINE a == r.location
             n == Len(b)
             p == BytesIn(t, r)
             c == Typing(a, a + n, p)
             m == RangeMake(a, n)
             x == Replaced(t, r, b)
  <1>1. a \in Nat /\ n \in Nat /\ p \in Text
    BY RangeFacts, LenProperties, ReplacedIs DEF Text
  <1>2. m \in HFRange /\ MaxRange(m) <= Len(x) /\ x \in Text /\ Replaced(x, m, p) = t
    BY ReplacedBack
  <1> HIDE DEF x, p, a, n
  <1>3. a + n \in Nat /\ a <= a + n /\ (a + n) - a = n
    BY <1>1
  <1>4. c \in TypingOperation /\ c.anchor = a /\ c.action = a + n /\ c.deleted = p
    BY <1>1, <1>3, TypingIs
  <1> HIDE DEF c
  <1>5. c.kind = "typing" /\ c \in Operation
    BY <1>4, TypingFacts
  <1>6. Where(c) = m /\ What(c) = p
    BY <1>3, <1>4, <1>5 DEF Where, What, Between
  <1>7. Single(c)
    BY <1>5 DEF Single
  <1> HIDE DEF m
  <1>8. Leads(c, x, t)
    BY <1>2, <1>6, <1>7 DEF Leads
  <1> QED BY <1>4, <1>8 DEF c, x, p, a, n

\* Replacing a range of the text: the string of typing goes on or begins.
LEMMA ReplacingDuring ==
  ASSUME NEW e \in Editor,
         NEW r \in HFRange, MaxRange(r) <= Len(e.text), NEW b \in Text,
         Linked(e) \/ (b # <<>> /\ r.length > 0),
         NEW w, NEW start, During(e, e.text, w, start), e.group = <<>> => e.text = start
  PROVE  LET u == CoalesceReplacing(e, r, Len(b))
             x == Replaced(e.text, r, b)
         IN  During(u, x, w, start) /\ (u.group = <<>> /\ e.coalescer = None => x = e.text)
  <1> DEFINE c == e.coalescer
             t == e.text
             length == Len(b)
             a == r.location
             n == r.length
             x == Replaced(t, r, b)
             u == CoalesceReplacing(e, r, length)
             fresh == Typing(a, a + length, BytesIn(t, r))
  <1>1. t \in Text /\ (c # None => c \in TypingOperation)
    BY DEF Editor
  <1>2. /\ a \in Nat /\ n \in Nat /\ MaxRange(r) = a + n /\ length \in Nat
        /\ (b # <<>> => length > 0)
    BY RangeFacts, SeqFacts DEF Text
  <1>3. x \in Text
    BY <1>1, ReplacedIs
  <1>4. CASE length = 0 /\ n = 0
    <2>1. u = e
      BY <1>4 DEF CoalesceReplacing
    <2>2. x = t
      <3>1. b = <<>>
        BY <1>4 DEF Text
      <3>2. Spliced(x, t, a, n, b, Bytes)
        BY <1>1, ReplacedIs
      <3> HIDE DEF x, a, n
      <3>3. Len(x) = Len(t) /\ \A i \in 1 .. Len(t) : x[i] = t[i]
        <4>1. Len(t) \in Nat
          BY <1>1, LenProperties DEF Text
        <4> QED BY <1>2, <1>4, <3>1, <3>2, <4>1 DEF Spliced
      <3>4. x \in Seq(Bytes) /\ t \in Seq(Bytes)
        BY <1>1, <1>3 DEF Text
      <3> HIDE DEF t
      <3> QED BY <3>3, <3>4, SeqEqual
    <2> HIDE DEF x
    <2> QED BY <2>1, <2>2 DEF x
  <1>5. CASE length > 0 /\ n = 0 /\ canCoalesceAppend(c, r)
    <2> DEFINE d == [c EXCEPT !.action = @ + length]
    <2>1. c # None /\ c.action = a /\ c \in TypingOperation
      BY <1>1, <1>5 DEF canCoalesceAppend
    <2>2. u = Coalesce(e, d)
      BY <1>2, <1>5, <2>1 DEF CoalesceReplacing
    <2>3. Linked(e)
      BY <1>2, <1>5
    <2>4. d \in TypingOperation /\ d.action = c.action + length /\ d.anchor = c.anchor
          /\ d.deleted = c.deleted
      BY <1>2, <2>1, AppendedIs
    <2> HIDE DEF d, u
    <2>5. \A s : Leads(c, t, s) => Leads(d, x, s)
      <3>1. c.action <= Len(t)
        BY <1>2, <1>5, <2>1
      <3>2. r.location = c.action /\ r.length = 0
        BY <1>5, <2>1
      <3> HIDE DEF c, t, a, n
      <3>3. \A s : Leads(c, t, s) => Leads(d, Replaced(t, r, b), s)
        BY <1>1, <2>1, <2>4, <3>1, <3>2, AppendingGoesOn
      <3> QED BY <3>3
    <2>6. During(Coalesce(e, d), x, w, start)
      <3>1. e.coalescer \in TypingOperation /\ \A s : Leads(e.coalescer, e.text, s) => Leads(d, x, s)
        BY <2>1, <2>5
      <3> HIDE DEF x, c, t
      <3> QED BY <1>3, <2>3, <2>4, <3>1, DuringCoalesced
    <2>7. During(u, x, w, start)
      BY <2>2, <2>6
    <2> QED BY <2>1, <2>7 DEF u, x, c
  <1>6. CASE ~ (length > 0 /\ n = 0 /\ canCoalesceAppend(c, r)) /\ length = 0 /\ n > 0
             /\ canCoalesceDelete(c, r)
    <2> DEFINE d == deleteData(c, n, t)
    <2>1. c # None /\ MaxRange(r) = c.action /\ c \in TypingOperation
      BY <1>1, <1>6 DEF canCoalesceDelete
    <2>2. ~ (length = 0 /\ n = 0)
      BY <1>2, <1>6
    <2>3. u = Coalesce(e, d)
      BY <1>6, <2>2 DEF CoalesceReplacing
    <2>4. Linked(e) /\ b = <<>>
      <3>1. b = <<>>
        BY <1>6 DEF Text
      <3> QED BY <3>1
    <2>5. c.action <= Len(t)
      BY <2>1
    <2>6. d \in TypingOperation
      <3>1. n \in Nat /\ n <= c.action
        BY <1>2, <2>1, TypingFacts
      <3> HIDE DEF c, n, t
      <3> QED BY <1>1, <2>1, <2>5, <3>1, DeleteDataIs
    <2>7. \A s : Leads(c, t, s) => Leads(d, x, s)
      <3> HIDE DEF c, t
      <3>1. \A s : Leads(c, t, s) => Leads(deleteData(c, r.length, t), Replaced(t, r, <<>>), s)
        BY <1>1, <2>1, <2>5, DeletingGoesOn
      <3> QED BY <2>4, <3>1
    <2> HIDE DEF d, u
    <2>8. During(Coalesce(e, d), x, w, start)
      <3>1. e.coalescer \in TypingOperation /\ \A s : Leads(e.coalescer, e.text, s) => Leads(d, x, s)
        BY <2>1, <2>7
      <3> HIDE DEF x, c, t
      <3> QED BY <1>3, <2>4, <2>6, <3>1, DuringCoalesced
    <2>9. During(u, x, w, start)
      BY <2>3, <2>8
    <2> QED BY <2>1, <2>9 DEF u, x, c
  <1>7. CASE /\ ~ (length = 0 /\ n = 0)
             /\ ~ (length > 0 /\ n = 0 /\ canCoalesceAppend(c, r))
             /\ ~ (length = 0 /\ canCoalesceDelete(c, r))
    <2>1. u = beginNewUndoCoalescing(e, fresh)
      BY <1>7 DEF CoalesceReplacing
    <2>2. fresh \in TypingOperation /\ Leads(fresh, x, t)
      BY <1>1, FreshLeads
    <2> HIDE DEF fresh, u, x
    <2>3. Begun(u, e, fresh)
      BY <2>1, <2>2, BeginIs
    <2>4. u.undo = e.undo /\ u.group = Append(e.group, fresh)
      BY <2>3 DEF Begun
    <2>5. During(e, t, w, start) /\ (e.group = <<>> => t = start)
      OBVIOUS
    <2> HIDE DEF t
    <2>6. During(u, x, w, start)
      BY <2>2, <2>4, <2>5, DuringRegistered
    <2>7. u.group # <<>>
      BY <2>3 DEF Begun
    <2> QED BY <2>6, <2>7 DEF u, x, t
  <1>8. /\ length = 0 \/ length > 0
        /\ n = 0 \/ n > 0
        /\ ~ (length = 0 /\ length > 0)
        /\ ~ (n = 0 /\ n > 0)
    BY <1>2
  <1> HIDE DEF u, x, c, n, length
  <1> QED BY <1>4, <1>5, <1>6, <1>7, <1>8

\* Typing right behind the action point.
LEMMA AppendingDuring ==
  ASSUME NEW e \in Editor, Linked(e), e.coalescer # None, NEW t \in Text,
         e.coalescer.action <= Len(t),
         NEW r \in HFRange, r.length = 0, r.location = e.coalescer.action,
         NEW b \in Text, b # <<>>,
         NEW w, NEW start, During(e, t, w, start)
  PROVE  During(CoalesceReplacing(e, r, Len(b)), Replaced(t, r, b), w, start)
  <1> DEFINE c == e.coalescer
             length == Len(b)
             x == Replaced(t, r, b)
             u == CoalesceReplacing(e, r, length)
             d == [c EXCEPT !.action = @ + length]
  <1>1. c \in TypingOperation
    BY DEF Editor
  <1>2. length \in Nat /\ length > 0
    BY SeqFacts DEF Text
  <1>3. u = Coalesce(e, d)
    <2>1. canCoalesceAppend(c, r)
      BY DEF canCoalesceAppend
    <2> QED BY <1>2, <2>1 DEF CoalesceReplacing
  <1>4. /\ d \in TypingOperation /\ d.action = c.action + length /\ d.anchor = c.anchor
        /\ d.deleted = c.deleted
    BY <1>1, <1>2, AppendedIs
  <1> HIDE DEF d, u
  <1>5. \A s : Leads(c, t, s) => Leads(d, x, s)
    <2>1. c.action <= Len(t) /\ r.location = c.action
      OBVIOUS
    <2> HIDE DEF c
    <2> QED BY <1>1, <1>4, <2>1, AppendingGoesOn
  <1>6. x \in Text
    <2>1. MaxRange(r) <= Len(t)
      BY RangeFacts
    <2> QED BY <2>1, ReplacedIs
  <1> HIDE DEF x
  <1>7. During(Coalesce(e, d), x, w, start)
    BY <1>1, <1>4, <1>5, <1>6, DuringCoalesced
  <1> QED BY <1>3, <1>7 DEF u, x

\* Overwriting a range of the text.
LEMMA OverwritingDuring ==
  ASSUME NEW e \in Editor, Linked(e),
         e.coalescer # None => /\ e.coalescer.anchor < e.coalescer.action
                               /\ e.coalescer.action <= Len(e.text),
         NEW r \in HFRange, MaxRange(r) <= Len(e.text), r.length > 0,
         NEW b \in Text, Len(b) = r.length,
         NEW w, NEW start, During(e, e.text, w, start), e.group = <<>> => e.text = start
  PROVE  During(CoalesceOverwriting(e, r), Replaced(e.text, r, b), w, start)
  <1> DEFINE c == e.coalescer
             t == e.text
             a == r.location
             m == MaxRange(r)
             x == Replaced(t, r, b)
             u == CoalesceOverwriting(e, r)
             fresh == Typing(a, m, BytesIn(t, r))
  <1>1. t \in Text /\ (c # None => c \in TypingOperation)
    BY DEF Editor
  <1>2. a \in Nat /\ r.length \in Nat /\ m = a + r.length
    BY RangeFacts
  <1>3. x \in Text
    BY <1>1, ReplacedIs
  <1>4. CASE canCoalesceOverwrite(c, r)
    <2> DEFINE d == overwriteData(c, r, t)
    <2>1. c # None /\ c \in TypingOperation /\ (a = c.action \/ a + 1 = c.action)
          /\ c.anchor < c.action /\ c.action <= Len(t)
      BY <1>1, <1>4 DEF canCoalesceOverwrite
    <2>2. u = Coalesce(e, d)
      BY <1>4 DEF CoalesceOverwriting
    <2>3. c.anchor \in Nat /\ c.action \in Nat
      BY <2>1, TypingFacts
    <2> HIDE DEF c, t, d, u
    <2>4. c.anchor <= r.location /\ r.location <= c.action /\ c.action <= MaxRange(r)
      BY <1>2, <2>1, <2>3
    <2>5. MaxRange(r) <= Len(t)
      BY DEF t
    <2>6. d \in TypingOperation
      BY <1>1, <2>1, <2>4, <2>5, OverwriteDataIs DEF d
    <2>7. \A s : Leads(c, t, s) => Leads(d, x, s)
      BY <1>1, <2>1, <2>4, <2>5, OverwritingGoesOn DEF d
    <2> HIDE DEF x
    <2>8. During(Coalesce(e, d), x, w, start)
      <3>1. e.coalescer \in TypingOperation /\ \A s : Leads(e.coalescer, e.text, s) => Leads(d, x, s)
        BY <2>1, <2>7 DEF c, t
      <3> QED BY <1>3, <2>6, <3>1, DuringCoalesced
    <2> QED BY <2>2, <2>8 DEF u, x, t
  <1>5. CASE ~ canCoalesceOverwrite(c, r)
    <2>1. u = beginNewUndoCoalescing(e, fresh)
      BY <1>5 DEF CoalesceOverwriting
    <2>2. fresh \in TypingOperation /\ Leads(fresh, x, t)
      <3>1. m = r.location + Len(b)
        BY <1>2
      <3> HIDE DEF t, m
      <3>2. LET z == Typing(r.location, r.location + Len(b), BytesIn(t, r))
            IN  z \in TypingOperation /\ Leads(z, Replaced(t, r, b), t)
        <4>1. MaxRange(r) <= Len(t)
          BY DEF t
        <4> QED BY <1>1, <4>1, FreshLeads
      <3> QED BY <3>1, <3>2
    <2> HIDE DEF fresh, u, x
    <2>3. Begun(u, e, fresh)
      BY <2>1, <2>2, BeginIs
    <2>4. u.undo = e.undo /\ u.group = Append(e.group, fresh)
      BY <2>3 DEF Begun
    <2>5. During(e, t, w, start) /\ (e.group = <<>> => t = start)
      OBVIOUS
    <2> HIDE DEF t
    <2>6. During(u, x, w, start)
      BY <2>2, <2>4, <2>5, DuringRegistered
    <2> QED BY <2>6 DEF u, x, t
  <1> QED BY <1>4, <1>5

\* An empty range.
LEMMA EmptyRangeIs ==
  ASSUME NEW a \in Nat
  PROVE  LET r == RangeMake(a, 0)
         IN  r \in HFRange /\ r.location = a /\ r.length = 0 /\ MaxRange(r) = a
  <1> DEFINE r == RangeMake(a, 0)
  <1>1. 0 \in Nat /\ a + 0 = a
    OBVIOUS
  <1>2. r \in HFRange /\ r.location = a /\ r.length = 0 /\ MaxRange(r) = a + 0
    BY <1>1, RangeMakeIs
  <1> HIDE DEF r
  <1>3. MaxRange(r) = a
    BY <1>1, <1>2
  <1> QED BY <1>2, <1>3 DEF r

\* A range of nothing.
LEMMA ReplacedByNothing ==
  ASSUME NEW t \in Text, NEW a \in Nat, a <= Len(t)
  PROVE  Replaced(t, RangeMake(a, 0), <<>>) = t
  <1> DEFINE r == RangeMake(a, 0)
             x == Replaced(t, r, <<>>)
  <1>1. r \in HFRange /\ r.location = a /\ r.length = 0 /\ MaxRange(r) = a
    BY EmptyRangeIs
  <1>2. <<>> \in Text /\ Len(t) \in Nat
    BY LenProperties DEF Text
  <1> HIDE DEF r
  <1>3. x \in Text /\ Spliced(x, t, a, 0, <<>>, Bytes)
    <2>1. x \in Text /\ Spliced(x, t, r.location, r.length, <<>>, Bytes)
      BY <1>1, <1>2, ReplacedIs
    <2> QED BY <1>1, <2>1
  <1> HIDE DEF x
  <1>4. Len(x) = Len(t) /\ \A i \in 1 .. Len(t) : x[i] = t[i]
    BY <1>2, <1>3 DEF Spliced
  <1>5. x = t
    <2>1. x \in Seq(Bytes) /\ t \in Seq(Bytes)
      BY <1>3 DEF Text
    <2> QED BY <1>4, <2>1, SeqEqual
  <1> QED BY <1>5 DEF x, r

\* Replacing a range and then the empty one in its place by b is replacing it
\* by b.
LEMMA ReplacedTwice ==
  ASSUME NEW t \in Text, NEW r \in HFRange, MaxRange(r) <= Len(t), NEW b \in Text
  PROVE  Replaced(Replaced(t, r, <<>>), RangeMake(r.location, 0), b) = Replaced(t, r, b)
  <1> DEFINE a == r.location
             n == r.length
             m == RangeMake(a, 0)
             x == Replaced(t, r, <<>>)
             y == Replaced(x, m, b)
             z == Replaced(t, r, b)
  <1>1. a \in Nat /\ n \in Nat /\ MaxRange(r) = a + n /\ Len(t) \in Nat /\ Len(b) \in Nat
        /\ <<>> \in Text /\ a + n <= Len(t)
    BY RangeFacts, LenProperties DEF Text
  <1>2. x \in Text /\ Spliced(x, t, a, n, <<>>, Bytes)
    BY <1>1, ReplacedIs
  <1>3. z \in Text /\ Spliced(z, t, a, n, b, Bytes)
    BY <1>1, ReplacedIs
  <1> HIDE DEF x, z, a, n
  <1>4. m \in HFRange /\ m.location = a /\ m.length = 0 /\ MaxRange(m) = a
    BY <1>1, EmptyRangeIs
  <1>5. Len(x) = Len(t) - n /\ a <= Len(x)
    BY <1>1, <1>2 DEF Spliced
  <1> HIDE DEF m
  <1>6. y \in Text /\ Spliced(y, x, a, 0, b, Bytes)
    <2>1. y \in Text /\ Spliced(y, x, m.location, m.length, b, Bytes)
      BY <1>2, <1>4, <1>5, ReplacedIs
    <2> QED BY <1>4, <2>1
  <1> HIDE DEF y
  <1>7. Len(y) = Len(z)
    BY <1>1, <1>3, <1>5, <1>6 DEF Spliced
  <1>8. \A i \in 1 .. Len(y) : y[i] = z[i]
    <2> DEFINE l == Len(b)
    <2>1. \A i \in 1 .. a : y[i] = t[i] /\ z[i] = t[i]
      <3>1. \A i \in 1 .. a : y[i] = x[i] /\ x[i] = t[i] /\ z[i] = t[i]
        BY <1>2, <1>3, <1>6 DEF Spliced
      <3> QED BY <3>1
    <2>2. \A j \in 1 .. l : y[a + j] = b[j] /\ z[a + j] = b[j]
      BY <1>3, <1>6 DEF Spliced
    <2>3. \A j \in 1 .. Len(t) - a - n : y[a + l + j] = z[a + l + j]
      <3> TAKE j \in 1 .. Len(t) - a - n
      <3> DEFINE i == a + n + j
                 k == a + j
      <3>1. /\ i \in a + n + 1 .. Len(t) /\ i - n + l = a + l + j
            /\ i - n + Len(<<>>) = k
            /\ k \in a + 0 + 1 .. Len(x) /\ k - 0 + l = a + l + j
        BY <1>1, <1>5
      <3> HIDE DEF i, k, l
      <3>2. z[i - n + Len(b)] = t[i]
        BY <1>3, <3>1 DEF Spliced
      <3>3. x[i - n + Len(<<>>)] = t[i]
        BY <1>2, <3>1 DEF Spliced
      <3>4. y[k - 0 + Len(b)] = x[k]
        BY <1>6, <3>1 DEF Spliced
      <3>5. z[i - n + l] = t[i] /\ y[k - 0 + l] = x[k]
        BY <3>2, <3>4 DEF l
      <3> QED BY <3>1, <3>3, <3>5
    <2>4. l \in Nat /\ Len(y) = Len(t) - n + l
      BY <1>1, <1>3, <1>7 DEF Spliced
    <2> HIDE DEF l
    <2> SUFFICES ASSUME NEW i \in 1 .. Len(y) PROVE y[i] = z[i]
      OBVIOUS
    <2>5. CASE i <= a
      <3>1. i \in 1 .. a
        BY <1>1, <2>4, <2>5
      <3> QED BY <2>1, <3>1
    <2>6. CASE a < i /\ i <= a + l
      <3> DEFINE j == i - a
      <3>1. j \in 1 .. l /\ a + j = i
        BY <1>1, <2>4, <2>6
      <3> HIDE DEF j
      <3>2. y[a + j] = b[j] /\ z[a + j] = b[j]
        BY <2>2, <3>1
      <3> QED BY <3>1, <3>2
    <2>7. CASE a + l < i
      <3> DEFINE j == i - a - l
      <3>1. j \in 1 .. Len(t) - a - n /\ a + l + j = i
        BY <1>1, <2>4, <2>7
      <3> HIDE DEF j
      <3>2. y[a + l + j] = z[a + l + j]
        BY <2>3, <3>1
      <3> QED BY <3>1, <3>2
    <2> QED BY <1>1, <2>4, <2>5, <2>6, <2>7
  <1>9. y = z
    <2>1. y \in Seq(Bytes) /\ z \in Seq(Bytes)
      BY <1>3, <1>6 DEF Text
    <2> QED BY <1>7, <1>8, <2>1, SeqEqual
  <1> QED BY <1>9 DEF y, z, x, m, a

-----------------------------------------------------------------------------
(* At most one range that is deleted                                        *)

\* No two of the ranges behind the n-th one have bytes.
OneFilled(rs, n) ==
    \A i, j \in DOMAIN rs :
        i > n /\ j > n /\ rs[i].length > 0 /\ rs[j].length > 0 => i = j

\* That is what the bound on condemned ranges says if it is one.
LEMMA FewFilled ==
  ASSUME MaxCondemned <= 1, NEW rs \in Seq(HFRange), FewCondemned(rs)
  PROVE  OneFilled(rs, 0)
  <1> DEFINE S == Filled(rs)
             m == MaxCondemned
  <1>1. m \in Nat /\ m <= 1 /\ Cardinality(S) <= m
    BY ControllerUndoAssumption DEF FewCondemned
  <1>2. DOMAIN rs = 1 .. Len(rs) /\ Len(rs) \in Nat
    BY SeqFacts
  <1>3. IsFiniteSet(S)
    <2>1. IsFiniteSet(1 .. Len(rs))
      BY <1>2, FS_Interval
    <2>2. S \in SUBSET (1 .. Len(rs))
      BY <1>2 DEF Filled
    <2> QED BY <2>1, <2>2, FS_Subset
  <1> SUFFICES ASSUME NEW i \in DOMAIN rs, NEW j \in DOMAIN rs,
                      rs[i].length > 0, rs[j].length > 0, i # j
               PROVE  FALSE
    BY DEF OneFilled
  <1>4. i \in S /\ j \in S
    BY DEF Filled
  <1> HIDE DEF S, m
  <1>5. Cardinality({i} \cup {j}) = 2
    <2>1. IsFiniteSet({i}) /\ Cardinality({i}) = 1
      BY FS_Singleton
    <2>2. Cardinality({i} \cup {j}) = IF j \in {i} THEN Cardinality({i}) ELSE Cardinality({i}) + 1
      BY <2>1, FS_AddElement
    <2>3. j \notin {i}
      OBVIOUS
    <2>4. Cardinality({i} \cup {j}) = Cardinality({i}) + 1
      BY <2>2, <2>3, Zenon
    <2> DEFINE a == Cardinality({i})
               b == Cardinality({i} \cup {j})
    <2>5. a = 1 /\ b = a + 1
      BY <2>1, <2>4
    <2> HIDE DEF a, b
    <2>6. b = 2
      BY <2>5
    <2> QED BY <2>6 DEF b
  <1>6. {i} \cup {j} \in SUBSET S
    BY <1>4
  <1>7. Cardinality({i} \cup {j}) <= Cardinality(S)
    BY <1>3, <1>6, FS_Subset
  <1>8. Cardinality(S) \in Nat
    BY <1>3, FS_CardinalityType
  <1> DEFINE c == Cardinality(S)
             d == Cardinality({i} \cup {j})
  <1>9. c \in Nat /\ m \in Nat /\ m <= 1 /\ c <= m /\ d = 2 /\ d <= c
    BY <1>1, <1>5, <1>7, <1>8
  <1> HIDE DEF c, d
  <1> QED BY <1>9

\* Merging does not make more of them.
LEMMA FewMerged ==
  ASSUME NEW rs \in Seq(HFRange), Ordered(rs), NEW n \in {0, 1}, OneFilled(rs, n)
  PROVE  OneFilled(organizeAndMergeRanges(rs), n)
  <1> DEFINE m == organizeAndMergeRanges(rs)
             l == Len(rs)
  <1>1. MergedUpTo(m, rs, l)
    BY OrganizedIs
  <1>2. l \in Nat /\ DOMAIN rs = 1 .. l /\ \A i \in 1 .. l : rs[i] \in HFRange
    BY SeqFacts
  <1> HIDE DEF m, l
  <1>3. m \in Seq(HFRange) /\ Apart(m) /\ \A k \in 1 .. Len(m) : Sourced(m[k], rs, l, k > 1)
    BY <1>1 DEF MergedUpTo
  <1>4. DOMAIN m = 1 .. Len(m) /\ Len(m) \in Nat /\ \A k \in 1 .. Len(m) : m[k] \in HFRange
    BY <1>3, SeqFacts
  <1>5. \A k \in DOMAIN m : k > n /\ m[k].length > 0 =>
            \E w \in DOMAIN rs : w > n /\ rs[w].length > 0 /\ Inside(rs[w], m[k])
    <2> SUFFICES ASSUME NEW k \in DOMAIN m, k > n, m[k].length > 0
                 PROVE  \E w \in DOMAIN rs : w > n /\ rs[w].length > 0 /\ Inside(rs[w], m[k])
      OBVIOUS
    <2>1. PICK w \in 1 .. l : Inside(rs[w], m[k]) /\ (k > 1 => w > 1) /\ rs[w].length > 0
      BY <1>3, <1>4 DEF Sourced
    <2>2. w > n
      <3>1. n = 0 \/ n = 1
        OBVIOUS
      <3> QED BY <1>2, <2>1, <3>1
    <2> QED BY <1>2, <2>1, <2>2
  <1> SUFFICES ASSUME NEW i \in DOMAIN m, NEW j \in DOMAIN m, i > n, j > n,
                      m[i].length > 0, m[j].length > 0, i < j
               PROVE  FALSE
    <2>1. \A i, j \in DOMAIN m : i = j \/ i < j \/ j < i
      BY <1>4
    <2> QED BY <2>1 DEF OneFilled, m
  <1>6. PICK v \in DOMAIN rs : v > n /\ rs[v].length > 0 /\ Inside(rs[v], m[i])
    BY <1>5
  <1>7. PICK w \in DOMAIN rs : w > n /\ rs[w].length > 0 /\ Inside(rs[w], m[j])
    BY <1>5
  <1>8. v = w
    BY <1>6, <1>7 DEF OneFilled
  <1>9. MaxRange(m[i]) < m[j].location
    BY <1>3 DEF Apart
  <1>10. /\ MaxRange(m[i]) \in Nat /\ m[j].location \in Nat
         /\ rs[v].location \in Nat /\ MaxRange(rs[v]) \in Nat /\ rs[v].location <= MaxRange(rs[v])
    BY <1>2, <1>4, RangeFacts
  <1>11. MaxRange(rs[v]) <= MaxRange(m[i]) /\ m[j].location <= rs[v].location
    BY <1>6, <1>7, <1>8 DEF Inside
  <1> QED BY <1>9, <1>10, <1>11

\* The ranges behind the first one.
LEMMA FewBehind ==
  ASSUME NEW rs \in Seq(HFRange), rs # <<>>
  PROVE  OneFilled(Tail(rs), 0) <=> OneFilled(rs, 1)
  <1> DEFINE q == Tail(rs)
             m == Len(q)
             l == Len(rs)
  <1>1. l \in Nat /\ DOMAIN rs = 1 .. l /\ l > 0
    BY SeqFacts
  <1>2. q \in Seq(HFRange) /\ m = l - 1 /\ \A i \in 1 .. m : q[i] = rs[i + 1]
    BY HeadTailProperties
  <1>3. DOMAIN q = 1 .. m
    BY <1>2, SeqFacts
  <1> HIDE DEF q, m, l
  <1>4. ASSUME OneFilled(rs, 1) PROVE OneFilled(q, 0)
    <2> SUFFICES ASSUME NEW i \in 1 .. m, NEW j \in 1 .. m, q[i].length > 0, q[j].length > 0
                 PROVE  i = j
      BY <1>3 DEF OneFilled
    <2>1. i + 1 \in 1 .. l /\ j + 1 \in 1 .. l /\ i + 1 > 1 /\ j + 1 > 1
      BY <1>1, <1>2
    <2>2. rs[i + 1].length > 0 /\ rs[j + 1].length > 0
      BY <1>2
    <2>3. i + 1 = j + 1
      BY <1>1, <1>4, <2>1, <2>2 DEF OneFilled
    <2> QED BY <2>3
  <1>5. ASSUME OneFilled(q, 0) PROVE OneFilled(rs, 1)
    <2> SUFFICES ASSUME NEW i \in 1 .. l, NEW j \in 1 .. l, i > 1, j > 1,
                        rs[i].length > 0, rs[j].length > 0
                 PROVE  i = j
      BY <1>1 DEF OneFilled
    <2> DEFINE a == i - 1
               b == j - 1
    <2>1. a \in 1 .. m /\ b \in 1 .. m /\ a + 1 = i /\ b + 1 = j /\ a > 0 /\ b > 0
      BY <1>1, <1>2
    <2> HIDE DEF a, b
    <2>2. q[a].length > 0 /\ q[b].length > 0
      BY <1>2, <2>1
    <2>3. a = b
      BY <1>3, <1>5, <2>1, <2>2 DEF OneFilled
    <2> QED BY <2>1, <2>3
  <1> QED BY <1>4, <1>5 DEF q

\* The one range that has bytes.
LEMMA OneNotEmpty ==
  ASSUME NEW rs \in Seq(HFRange), OneFilled(rs, 0), NotEmpty(rs) # <<>>
  PROVE  LET q == NotEmpty(rs)
         IN  /\ q \in Seq(HFRange) /\ Len(q) = 1
             /\ \E w \in DOMAIN rs : rs[w].length > 0 /\ q[1] = rs[w]
  <1> DEFINE q == NotEmpty(rs)
             P == Filled(rs)
             n == Len(q)
  <1>1. q = Kept(rs, P) /\ q # <<>>
    BY DEF NotEmpty
  <1>2. q \in Seq(HFRange) /\ \E at : KeptAt(q, rs, P, at)
    BY <1>1, KeptIs
  <1> HIDE DEF q
  <1>3. PICK at : KeptAt(q, rs, P, at)
    BY <1>2
  <1>4. n \in Nat /\ n > 0
    BY <1>1, <1>2, SeqFacts
  <1>5. \A k \in 1 .. n : at[k] \in DOMAIN rs /\ rs[at[k]].length > 0 /\ q[k] = rs[at[k]]
                          /\ at[k] > 0
    <2> TAKE k \in 1 .. n
    <2>1. at[k] \in DOMAIN rs /\ at[k] \in P /\ q[k] = rs[at[k]]
      BY <1>3 DEF KeptAt
    <2>2. at[k] > 0
      BY <2>1, SeqFacts
    <2> QED BY <2>1, <2>2 DEF Filled
  <1>6. n = 1
    <2> SUFFICES ASSUME n > 1 PROVE FALSE
      <3> HIDE DEF n
      <3> QED BY <1>4
    <2>1. 1 \in 1 .. n /\ 2 \in 1 .. n
      <3> HIDE DEF n
      <3> QED BY <1>4
    <2>2. at[1] < at[2]
      BY <1>3, <2>1 DEF KeptAt
    <2>3. at[1] = at[2] /\ at[1] \in Nat
      <3>1. at[1] = at[2]
        BY <1>5, <2>1 DEF OneFilled
      <3>2. at[1] \in Nat
        BY <1>5, <2>1, SeqFacts
      <3> QED BY <3>1, <3>2
    <2> QED BY <2>2, <2>3
  <1>7. 1 \in 1 .. n
    <2> HIDE DEF n
    <2> QED BY <1>4
  <1>8. at[1] \in DOMAIN rs /\ rs[at[1]].length > 0 /\ q[1] = rs[at[1]]
    BY <1>5, <1>7
  <1> QED BY <1>2, <1>6, <1>8 DEF q

\* With one range that has bytes, deleting all is deleting this one.
LEMMA OneDeleted ==
  ASSUME NEW t \in Text, NEW rs \in Seq(HFRange), Ordered(rs), EndBy(rs, Len(t)),
         NEW w \in DOMAIN rs, rs[w].length > 0, OneFilled(rs, 0)
  PROVE  DeleteRanges(t, rs) = Replaced(t, rs[w], <<>>)
  <1> DEFINE n == Len(rs)
             r == rs[w]
             x == Replaced(t, r, <<>>)
  <1>1. /\ n \in Nat /\ DOMAIN rs = 1 .. n /\ \A i \in 1 .. n : rs[i] \in HFRange
        /\ Len(t) \in Nat /\ <<>> \in Text /\ Len(<<>>) = 0
    BY SeqFacts DEF Text
  <1>2. PICK f : Deletes(f, t, rs) /\ DeleteRanges(t, rs) = f[0]
    BY DeletedIs
  <1>3. /\ f[n] = t
        /\ \A i \in 0 .. n - 1 : f[i] = Replaced(f[i + 1], rs[i + 1], <<>>)
    BY <1>2 DEF Deletes
  <1>4. /\ r \in HFRange /\ MaxRange(r) <= Len(t) /\ r.location \in Nat /\ r.length \in Nat
        /\ MaxRange(r) = r.location + r.length
    BY <1>1, RangeFacts DEF EndBy
  <1>5. x \in Text /\ Len(x) = Len(t) - r.length
    <2>1. x \in Text /\ Len(x) = Len(t) - r.length + Len(<<>>)
      BY <1>1, <1>4, ReplacedIs
    <2> QED BY <1>1, <1>4, <2>1
  <1>6. w \in 1 .. n
    BY <1>1
  <1> HIDE DEF n, r, x
  <1>7. \A i \in 1 .. n : i # w => /\ rs[i].length = 0 /\ rs[i] = RangeMake(rs[i].location, 0)
                                   /\ rs[i].location \in Nat /\ rs[i].location <= Len(t)
                                   /\ i < w => rs[i].location <= Len(x)
    <2> SUFFICES ASSUME NEW i \in 1 .. n, i # w
                 PROVE  /\ rs[i].length = 0 /\ rs[i] = RangeMake(rs[i].location, 0)
                        /\ rs[i].location \in Nat /\ rs[i].location <= Len(t)
                        /\ i < w => rs[i].location <= Len(x)
      OBVIOUS
    <2>1. /\ rs[i].location \in Nat /\ rs[i].length \in Nat /\ MaxRange(rs[i]) \in Nat
          /\ rs[i].location <= MaxRange(rs[i]) /\ rs[i] = RangeMake(rs[i].location, rs[i].length)
      BY <1>1, RangeFacts
    <2>2. rs[i].length = 0
      <3>1. i > 0 /\ w > 0 /\ rs[w].length > 0 /\ i \in DOMAIN rs
        BY <1>1, <1>6
      <3>2. ~ (rs[i].length > 0)
        BY <3>1 DEF OneFilled
      <3> QED BY <2>1, <3>2
    <2>3. MaxRange(rs[i]) <= Len(t)
      BY <1>1 DEF EndBy
    <2>4. i < w => rs[i].location <= Len(x)
      <3> SUFFICES ASSUME i < w PROVE rs[i].location <= Len(x)
        OBVIOUS
      <3>1. MaxRange(rs[i]) <= r.location
        BY <1>1, <1>6 DEF Ordered, r
      <3> QED BY <1>1, <1>4, <1>5, <2>1, <3>1
    <2> QED BY <1>1, <2>1, <2>2, <2>3, <2>4
  <1> DEFINE Good(i) == f[i] = IF i < w THEN x ELSE t
             T == {i \in 0 .. n : Good(i)}
  <1>8. n \in T
    <2>1. n \in 0 .. n /\ ~ (n < w)
      BY <1>1, <1>6
    <2> QED BY <1>3, <2>1
  <1>9. \A i \in 0 .. n - 1 : i + 1 \in T => i \in T
    <2> SUFFICES ASSUME NEW i \in 0 .. n - 1, Good(i + 1) PROVE i \in 0 .. n /\ Good(i)
      OBVIOUS
    <2>1. i \in 0 .. n /\ i + 1 \in 1 .. n
      BY <1>1
    <2>2. f[i] = Replaced(f[i + 1], rs[i + 1], <<>>)
      BY <1>3
    <2>3. CASE i + 1 = w
      <3>1. ~ (i + 1 < w) /\ i < w
        BY <2>3
      <3>2. f[i + 1] = t
        BY <3>1
      <3> QED BY <2>1, <2>2, <2>3, <3>1, <3>2 DEF x, r
    <2>4. CASE i + 1 < w
      <3>1. f[i + 1] = x /\ i < w /\ i + 1 # w
        BY <1>6, <2>4
      <3>2. /\ rs[i + 1] = RangeMake(rs[i + 1].location, 0) /\ rs[i + 1].location \in Nat
            /\ rs[i + 1].location <= Len(x)
        BY <1>7, <2>1, <2>4, <3>1
      <3> DEFINE a == rs[i + 1].location
      <3> HIDE DEF a
      <3>3. Replaced(x, RangeMake(a, 0), <<>>) = x
        BY <1>5, <3>2, ReplacedByNothing DEF a
      <3> QED BY <2>1, <2>2, <3>1, <3>2, <3>3 DEF a
    <2>5. CASE w < i + 1
      <3>1. ~ (i + 1 < w) /\ ~ (i < w) /\ i + 1 # w
        BY <1>6, <2>5
      <3>2. f[i + 1] = t
        BY <3>1
      <3>3. /\ rs[i + 1] = RangeMake(rs[i + 1].location, 0) /\ rs[i + 1].location \in Nat
            /\ rs[i + 1].location <= Len(t)
        BY <1>7, <2>1, <3>1
      <3> DEFINE a == rs[i + 1].location
      <3> HIDE DEF a
      <3>4. Replaced(t, RangeMake(a, 0), <<>>) = t
        BY <3>3, ReplacedByNothing DEF a
      <3> QED BY <2>1, <2>2, <3>1, <3>2, <3>3, <3>4 DEF a
    <2> QED BY <1>6, <2>3, <2>4, <2>5
  <1>10. \A i \in 0 .. n : i \in T
    <2> HIDE DEF T
    <2> QED BY <1>1, <1>8, <1>9, DownFrom
  <1>11. f[0] = x
    <2>1. 0 \in 0 .. n /\ 0 < w
      BY <1>1, <1>6
    <2> QED BY <1>10, <2>1
  <1> QED BY <1>2, <1>11 DEF x, r

\* Deleting nothing.
LEMMA NoneDeleted ==
  ASSUME NEW t \in Text
  PROVE  DeleteRanges(t, <<>>) = t
  <1> DEFINE rs == <<>>
  <1>1. rs \in Seq(HFRange) /\ Len(rs) = 0 /\ Ordered(rs) /\ EndBy(rs, Len(t))
    BY DEF Ordered, EndBy
  <1> HIDE DEF rs
  <1>2. PICK f : Deletes(f, t, rs) /\ DeleteRanges(t, rs) = f[0]
    BY <1>1, DeletedIs
  <1>3. f[Len(rs)] = t
    BY <1>2 DEF Deletes
  <1> QED BY <1>1, <1>2, <1>3 DEF rs

\* Putting it back leads to the text before.
LEMMA PuttingBackLeads ==
  ASSUME NEW t \in Text, NEW q \in Seq(HFRange), Len(q) = 1, MaxRange(q[1]) <= Len(t),
         PutsBack(q, t) \in RangesOperation
  PROVE  Leads(PutsBack(q, t), Replaced(t, q[1], <<>>), t)
  <1> DEFINE o == PutsBack(q, t)
             r == q[1]
             m == RangeMake(r.location, 0)
             x == Replaced(t, r, <<>>)
             arrays == [i \in DOMAIN q |-> BytesIn(t, q[i])]
             ranges == [i \in DOMAIN q |-> RangeMake(q[i].location, 0)]
  <1>1. DOMAIN q = 1 .. 1 /\ r \in HFRange /\ <<>> \in Text /\ Len(<<>>) = 0
    <2>1. DOMAIN q = 1 .. Len(q) /\ \A i \in 1 .. Len(q) : q[i] \in HFRange
      BY SeqFacts
    <2>2. 1 \in 1 .. 1
      OBVIOUS
    <2> QED BY <2>1, <2>2 DEF Text
  <1>2. o.kind = "ranges" /\ o.arrays = arrays /\ o.ranges = ranges
    BY DEF PutsBack, Inserting
  <1>3. arrays[1] = BytesIn(t, r) /\ ranges[1] = m /\ DOMAIN ranges = 1 .. 1
    <2>1. 1 \in DOMAIN q
      BY <1>1
    <2> QED BY <1>1, <2>1
  <1> HIDE DEF o, r, arrays, ranges
  <1>4. Len(o.ranges) = 1
    <2>1. ranges \in Seq(HFRange)
      BY <1>2 DEF RangesOperation, o
    <2>2. DOMAIN ranges = 1 .. Len(ranges) /\ Len(ranges) \in Nat
      BY <2>1, SeqFacts
    <2> DEFINE a == Len(ranges)
    <2>3. 1 .. a = 1 .. 1 /\ a \in Nat
      BY <1>3, <2>2
    <2> HIDE DEF a
    <2>4. a = 1
      <3>1. 1 \in 1 .. a /\ a \in 1 .. a
        BY <2>3
      <3> QED BY <2>3, <3>1, SMTT(60)
    <2> QED BY <1>2, <2>4 DEF a
  <1>5. o \in RangesOperation /\ Single(o)
    BY <1>4 DEF Single, Operation, o
  <1>6. Where(o) = m /\ What(o) = BytesIn(t, r)
    BY <1>2, <1>3 DEF Where, What
  <1>7. m \in HFRange /\ MaxRange(m) <= Len(x) /\ x \in Text /\ Replaced(x, m, BytesIn(t, r)) = t
    <2> DEFINE n == Len(<<>>)
               s == RangeMake(r.location, n)
    <2>1. n = 0 /\ s = m
      BY <1>1
    <2>2. /\ s \in HFRange /\ MaxRange(s) <= Len(x) /\ x \in Text
          /\ Replaced(x, s, BytesIn(t, r)) = t
      <3>1. MaxRange(r) <= Len(t)
        BY DEF r
      <3> QED BY <1>1, <3>1, ReplacedBack
    <2> HIDE DEF s
    <2> QED BY <2>1, <2>2
  <1> HIDE DEF m, x
  <1>8. Leads(o, x, t)
    BY <1>5, <1>6, <1>7 DEF Leads
  <1> QED BY <1>8 DEF o, x, r

-----------------------------------------------------------------------------
(* The history after a command                                              *)

\* The event has kept the history: all it did is a change of the text that
\* can be undone, or goes on with the string of typing that was open.
Settled(e, w) ==
    /\ During(e, e.text, w, text)
    /\ e.group = <<>> /\ coalescer = None => e.text = text

\* The event begins with the history there is.
LEMMA HereDuring ==
  ASSUME NEW w, Chain(w, undo, text, GroupSteps)
  PROVE  During(Here, Here.text, w, text) /\ Settled(Here, w)
  <1>1. Here.text = text /\ Here.undo = undo /\ Here.group = <<>>
    BY DEF Here
  <1>2. Stack(Here) = undo
    BY <1>1 DEF Stack
  <1>3. During(Here, text, w, text)
    BY <1>1, <1>2 DEF During
  <1> QED BY <1>1, <1>3 DEF Settled

\* Deleting the ranges after the first one keeps the history.
LEMMA OthersDuring ==
  ASSUME Inv, editMode # "Overwrite", MaxCondemned <= 1, FewCondemned(Tail(selection)),
         NEW w, Chain(w, undo, text, GroupSteps)
  PROVE  LET all == organizeAndMergeRanges(selection)
             others == NotEmpty(Tail(all))
             e == [RegisterCondemnedRanges(Here, others)
                     EXCEPT !.text = DeleteRanges(@, others)]
         IN  /\ During(e, e.text, w, text)
             /\ e.group = <<>> => e.text = text
             /\ Linked(e) \/ (coalescer # None => all[1].length > 0)
             /\ others = <<>> => Linked(e)
  <1> DEFINE all == organizeAndMergeRanges(selection)
             tail == Tail(all)
             others == NotEmpty(tail)
             q == NotEmpty(others)
             c == RegisterCondemnedRanges(Here, others)
             x == DeleteRanges(c.text, others)
             e == [c EXCEPT !.text = x]
             o == PutsBack(q, text)
  <1>1. /\ text \in Text /\ Usable(selection, Len(text)) /\ selection \in Seq(HFRange)
        /\ Ordered(selection) /\ EndBy(selection, Len(text)) /\ selection # <<>>
    BY DEF Inv, TypeInv, Usable
  <1>2. /\ Usable(all, Len(text)) /\ (Strict(selection) => Strict(all))
        /\ others \in Seq(HFRange) /\ Ordered(others) /\ EndBy(others, Len(text))
    BY OthersDeleted
  <1>3. OneFilled(all, 1)
    <2>1. Tail(selection) \in Seq(HFRange)
      BY <1>1, TailIs
    <2>2. OneFilled(Tail(selection), 0)
      BY <2>1, FewFilled
    <2>3. OneFilled(selection, 1)
      BY <1>1, <2>2, FewBehind
    <2> QED BY <1>1, <2>3, FewMerged
  <1> HIDE DEF all
  <1>4. /\ all \in Seq(HFRange) /\ Ordered(all) /\ EndBy(all, Len(text)) /\ all # <<>>
    BY <1>2 DEF Usable
  <1>5. tail \in Seq(HFRange) /\ OneFilled(tail, 0)
    BY <1>3, <1>4, TailIs, FewBehind
  <1>6. others # <<>> => Len(all) > 1
    <2> SUFFICES ASSUME others # <<>> PROVE Len(all) > 1
      OBVIOUS
    <2>1. Len(tail) = Len(all) - 1 /\ Len(all) \in Nat
      BY <1>4, SeqFacts, HeadTailProperties
    <2> HIDE DEF tail
    <2>2. PICK i \in DOMAIN tail : tail[i].length > 0
      BY <1>5, OneNotEmpty
    <2>3. DOMAIN tail = 1 .. Len(tail) /\ Len(tail) \in Nat
      BY <1>5, SeqFacts
    <2>4. Len(tail) > 0
      BY <2>2, <2>3
    <2> QED BY <2>1, <2>3, <2>4
  <1> HIDE DEF tail
  <1>7. others # <<>> => Len(others) = 1 /\ 1 \in DOMAIN others /\ others[1].length > 0
                         /\ OneFilled(others, 0)
    <2> SUFFICES ASSUME others # <<>>
                 PROVE  Len(others) = 1 /\ 1 \in DOMAIN others /\ others[1].length > 0
                        /\ OneFilled(others, 0)
      OBVIOUS
    <2>1. Len(others) = 1 /\ \E v \in DOMAIN tail : tail[v].length > 0 /\ others[1] = tail[v]
      BY <1>5, OneNotEmpty
    <2>2. DOMAIN others = 1 .. Len(others)
      BY <1>2, SeqFacts
    <2> HIDE DEF others
    <2>3. DOMAIN others = 1 .. 1
      BY <2>1, <2>2
    <2> QED BY <2>1, <2>3 DEF OneFilled
  <1> HIDE DEF others
  <1>8. Here \in Editor /\ Here.text = text /\ Here.undo = undo /\ Here.group = <<>>
        /\ Linked(Here) /\ Here.coalescer = coalescer
    <2>1. Result(Here)
      BY HereIs
    <2> QED BY <2>1 DEF Here, Result
  <1>9. During(Here, text, w, text)
    BY <1>8, HereDuring
  <1>10. /\ c \in Editor /\ c.text = text /\ c.undo = undo
         /\ q = <<>> => c = Here
         /\ q # <<>> => o \in RangesOperation /\ c.group = Append(<<>>, o) /\ c.group # <<>>
    <2> HIDE DEF c, q, o
    <2>1. /\ c \in Editor /\ c.text = Here.text /\ c.undo = Here.undo
          /\ q = <<>> => c = Here
          /\ q # <<>> => /\ PutsBack(q, Here.text) \in RangesOperation
                         /\ c.group = Append(Here.group, PutsBack(q, Here.text))
                         /\ c.group # <<>>
      <3>1. EndBy(others, Len(Here.text))
        BY <1>2, <1>8
      <3> QED BY <1>2, <1>8, <3>1, CondemnedIs DEF c, q
    <2> QED BY <1>8, <2>1 DEF o
  <1> HIDE DEF c
  <1>11. e.text = x /\ e.undo = undo /\ e.group = c.group /\ e.coalescer = c.coalescer
    BY <1>10 DEF Editor
  <1>12. x = DeleteRanges(text, others)
    BY <1>10
  <1> HIDE DEF x, e
  <1>13. CASE others = <<>>
    <2>1. q = <<>>
      <3>1. \A k \in DOMAIN q : \E i \in DOMAIN others : q[k] = others[i]
        BY <1>2, NotEmptyIs
      <3>2. q \in Seq(HFRange)
        BY <1>2, NotEmptyIs
      <3>3. DOMAIN others = {}
        BY <1>13
      <3> HIDE DEF q
      <3>4. q # <<>> => 1 \in DOMAIN q
        BY <3>2, SeqFacts
      <3> QED BY <3>1, <3>3, <3>4
    <2>2. c = Here /\ x = text
      BY <1>1, <1>10, <1>12, <1>13, <2>1, NoneDeleted
    <2>3. During(e, text, w, text)
      BY <1>8, <1>9, <1>11, <2>2, DuringSame
    <2>4. Linked(e)
      BY <1>8, <1>11, <2>2 DEF Linked
    <2> QED BY <1>11, <2>2, <2>3, <2>4 DEF e, x, c, others, tail, all
  <1>14. CASE others # <<>>
    <2>1. q # <<>>
      <3>1. 1 \in DOMAIN others /\ others[1].length > 0
        BY <1>7, <1>14
      <3> QED BY <1>2, <3>1, NotEmptyIs
    <2>2. q \in Seq(HFRange) /\ Len(q) = 1 /\ q[1] = others[1]
      <3>1. OneFilled(others, 0) /\ others \in Seq(HFRange) /\ NotEmpty(others) # <<>>
        BY <1>2, <1>7, <1>14, <2>1
      <3>2. q \in Seq(HFRange) /\ Len(q) = 1 /\ \E v \in DOMAIN others : q[1] = others[v]
        BY <3>1, OneNotEmpty
      <3>3. DOMAIN others = 1 .. 1
        BY <1>2, <1>7, <1>14, SeqFacts
      <3>4. \A v \in DOMAIN others : v = 1
        BY <3>3
      <3> QED BY <3>2, <3>4
    <2>3. MaxRange(q[1]) <= Len(text)
      BY <1>2, <1>7, <1>14, <2>2 DEF EndBy
    <2>4. Leads(o, Replaced(text, q[1], <<>>), text)
      <3>1. o \in RangesOperation
        BY <1>10, <2>1
      <3> HIDE DEF q
      <3> QED BY <1>1, <2>2, <2>3, <3>1, PuttingBackLeads
    <2>5. x = Replaced(text, q[1], <<>>)
      <3>1. x = Replaced(text, others[1], <<>>)
        BY <1>1, <1>2, <1>7, <1>12, <1>14, OneDeleted
      <3> QED BY <2>2, <3>1
    <2>6. e.undo = Here.undo /\ e.group = Append(Here.group, o) /\ e.group # <<>>
      BY <1>8, <1>10, <1>11, <2>1
    <2>7. During(e, x, w, text)
      <3> HIDE DEF o, q
      <3> QED BY <1>8, <1>9, <2>4, <2>5, <2>6, DuringRegistered
    <2>8. coalescer # None => all[1].length > 0
      <3> SUFFICES ASSUME coalescer # None PROVE all[1].length > 0
        OBVIOUS
      <3>1. Strict(selection)
        BY DEF Inv, ModeInv
      <3>2. Len(all) > 1 /\ Strict(all)
        BY <1>2, <1>6, <1>14, <3>1
      <3>3. 1 \in DOMAIN all
        BY <1>4, SeqFacts
      <3> QED BY <3>2, <3>3 DEF Strict
    <2> QED BY <1>11, <1>14, <2>6, <2>7, <2>8 DEF e, x, c, others, tail, all
  <1> QED BY <1>13, <1>14

\* Whether a string of typing goes on, begins or neither.
LEMMA ReplacingKeeps ==
  ASSUME NEW e \in Editor, NEW r \in HFRange, MaxRange(r) <= Len(e.text), NEW length \in Nat
  PROVE  LET u == CoalesceReplacing(e, r, length)
         IN  u \in Editor /\ u.text = e.text /\ (u.group = <<>> => e.group = <<>>)
  <1> DEFINE u == CoalesceReplacing(e, r, length)
  <1>1. CASE length > 0 \/ r.length > 0
    <2>1. IsTyped(u, e, r.location, r.location + length)
      BY <1>1, ReplacingTyped
    <2> QED BY <2>1 DEF IsTyped
  <1>2. CASE ~ (length > 0 \/ r.length > 0)
    <2>1. length = 0 /\ r.length = 0
      BY <1>2, RangeFacts
    <2> QED BY <2>1 DEF CoalesceReplacing
  <1> QED BY <1>1, <1>2

\* Insertion keeps the history.
LEMMA InsertionDuring ==
  ASSUME Inv, editMode # "Overwrite", MaxCondemned <= 1, FewCondemned(Tail(selection)),
         NEW bytes, NEW previousBytes, NEW coalescing, Input(bytes, previousBytes, coalescing),
         NEW w, Chain(w, undo, text, GroupSteps)
  PROVE  Settled(insertionModeCore(Here, bytes, previousBytes, coalescing), w)
  <1> DEFINE End(e) == IF coalescing THEN e ELSE endTypingUndoCoalescing(e)
             here == Here.selection
             all == organizeAndMergeRanges(here)
             others == NotEmpty(Tail(all))
             e == [RegisterCondemnedRanges(Here, others)
                     EXCEPT !.text = DeleteRanges(@, others)]
             first == all[1]
             pb == previousBytes
             point == first.location - pb
             l == Len(bytes)
             m == RangeMake(point, pb)
             started == CoalesceReplacing(e, m, 0)
             begun == End(started)
             s == RangeMake(point, first.length)
             typed == CoalesceReplacing(begun, s, l)
             coalesced == End(typed)
             r == RangeMake(point, first.length + pb)
             u == insertionModeCore(Here, bytes, previousBytes, coalescing)
  <1>1. here = selection
    BY DEF Here
  <1>2. /\ first \in HFRange /\ e \in Editor /\ e.coalescer = coalescer
        /\ MaxRange(first) <= Len(e.text)
        /\ During(e, e.text, w, text)
        /\ e.group = <<>> => e.text = text
        /\ Linked(e) \/ (coalescer # None => first.length > 0)
        /\ others = <<>> => Linked(e)
        /\ first.location = selection[1].location
    <2> HIDE DEF here
    <2> QED BY <1>1, OthersDeleted, OthersDuring
  <1>3. u = [coalesced EXCEPT !.text = Replaced(coalesced.text, r, bytes),
                              !.selection = <<RangeMake(point + l, 0)>>]
    BY DEF insertionModeCore
  <1>4. bytes \in Text /\ pb \in {0, 1} /\ coalescing \in BOOLEAN /\ l \in Nat
        /\ (coalescing => l = 1 /\ bytes # <<>>)
    <2>1. bytes \in Text /\ pb \in {0, 1} /\ coalescing \in BOOLEAN /\ l \in Nat
          /\ (coalescing => l = 1)
      BY LenProperties DEF Input, Text
    <2>2. l = 1 => bytes # <<>>
      OBVIOUS
    <2> QED BY <2>1, <2>2
  <1>5. /\ Result(u) /\ (coalescing => u.coalescer # None)
        /\ coalescing => selection[1].location - pb \in Nat
    BY InsertionIs
  <1>6. first.location \in Nat /\ first.length \in Nat /\ MaxRange(first) = first.location + first.length
    BY <1>2, RangeFacts
  <1>7. pb = 1 => /\ first.length = 0 /\ coalescing /\ others = <<>>
    <2> SUFFICES ASSUME pb = 1 PROVE first.length = 0 /\ coalescing /\ others = <<>>
      OBVIOUS
    <2>1. PICK n \in Nat : selection = <<RangeMake(n + 1, 0)>>
      BY DEF Input
    <2> DEFINE k == n + 1
               caret == RangeMake(k, 0)
    <2>2. k \in Nat
      OBVIOUS
    <2>3. here = <<caret>>
      BY <1>1, <2>1
    <2> HIDE DEF k, here
    <2>4. caret \in HFRange /\ caret.location = k /\ caret.length = 0
      BY <2>2, EmptyRangeIs
    <2> HIDE DEF caret
    <2>5. all = <<caret>>
      BY <2>3, <2>4, OneOrganized
    <2>6. first = caret
      BY <2>5
    <2>7. others = <<>>
      <3>1. Tail(all) = <<>>
        BY <2>5
      <3> DEFINE tail == Tail(all)
      <3> HIDE DEF tail
      <3>2. tail \in Seq(HFRange) /\ Ordered(tail) /\ EndBy(tail, 0) /\ DOMAIN tail = {}
        <4>1. tail = <<>>
          BY <3>1 DEF tail
        <4>2. tail \in Seq(HFRange) /\ Len(tail) = 0 /\ DOMAIN tail = {}
          BY <4>1
        <4> QED BY <4>2 DEF Ordered, EndBy
      <3>3. /\ others \in Seq(HFRange)
            /\ \A j \in DOMAIN others : \E i \in DOMAIN tail : others[j] = tail[i]
        BY <3>2, NotEmptyIs DEF tail
      <3> HIDE DEF others
      <3>4. others # <<>> => 1 \in DOMAIN others
        BY <3>3, SeqFacts
      <3> QED BY <3>2, <3>3, <3>4
    <2>8. coalescing
      BY DEF Input
    <2> QED BY <2>4, <2>6, <2>7, <2>8
  <1> HIDE DEF all, others, e, first, here, u
  <1>8. point \in Nat /\ point + pb = first.location
    <2>1. pb = 1 => point \in Nat
      BY <1>2, <1>5, <1>7
    <2> QED BY <1>4, <1>6, <2>1
  <1> HIDE DEF point
  <1>9. Len(e.text) \in Nat /\ e.text \in Text
    BY <1>2, LenProperties DEF Editor, Text
  <1>10. /\ m \in HFRange /\ m.location = point /\ m.length = pb /\ MaxRange(m) <= Len(e.text)
    <2>1. pb \in Nat
      BY <1>4
    <2> HIDE DEF pb
    <2>2. /\ m \in HFRange /\ m.location = point /\ m.length = pb /\ MaxRange(m) = point + pb
      BY <1>8, <2>1, RangeMakeIs
    <2> HIDE DEF m
    <2> QED BY <1>2, <1>6, <1>8, <1>9, <2>2
  <1>11. /\ s \in HFRange /\ s.location = point /\ s.length = first.length
         /\ MaxRange(s) <= Len(e.text)
    <2> DEFINE n == first.length
    <2>1. n \in Nat /\ point <= first.location
      BY <1>4, <1>6, <1>8
    <2> HIDE DEF n
    <2>2. /\ RangeMake(point, n) \in HFRange /\ RangeMake(point, n).location = point
          /\ RangeMake(point, n).length = n /\ MaxRange(RangeMake(point, n)) = point + n
      BY <1>8, <2>1, RangeMakeIs
    <2>3. point + n <= Len(e.text)
      BY <1>2, <1>6, <1>8, <1>9, <2>1 DEF n
    <2> QED BY <2>2, <2>3 DEF n
  <1> HIDE DEF m, s
  <1>12. CASE pb = 0
    <2>1. started = e
      BY <1>10, <1>12 DEF CoalesceReplacing
    <2>2. begun = IF coalescing THEN e ELSE endTypingUndoCoalescing(e)
      BY <2>1
    <2> HIDE DEF started, begun
    <2>3. /\ begun \in Editor /\ begun.text = e.text /\ begun.undo = e.undo
          /\ begun.group = e.group
          /\ Linked(begun) \/ (bytes # <<>> /\ s.length > 0)
          /\ ~ coalescing => begun.coalescer = None
      <3>1. CASE coalescing
        <4>1. begun = e
          BY <2>2, <3>1
        <4>2. coalescer = None => Linked(e)
          BY <1>2 DEF Linked
        <4> QED BY <1>2, <1>4, <1>11, <3>1, <4>1, <4>2
      <3>2. CASE ~ coalescing
        <4>1. begun = endTypingUndoCoalescing(e)
          BY <2>2, <3>2
        <4> QED BY <1>2, <4>1, EndIs
      <3> QED BY <3>1, <3>2
    <2>4. During(begun, e.text, w, text)
      BY <1>2, <2>3, DuringSame
    <2> DEFINE x == Replaced(e.text, s, bytes)
    <2>5. /\ During(typed, x, w, text)
          /\ typed.group = <<>> /\ begun.coalescer = None => x = e.text
      <3>1. /\ MaxRange(s) <= Len(begun.text) /\ During(begun, begun.text, w, text)
            /\ begun.group = <<>> => begun.text = text
        BY <1>2, <1>11, <2>3, <2>4
      <3>2. /\ During(CoalesceReplacing(begun, s, Len(bytes)), Replaced(begun.text, s, bytes), w, text)
            /\ CoalesceReplacing(begun, s, Len(bytes)).group = <<>> /\ begun.coalescer = None
                  => Replaced(begun.text, s, bytes) = begun.text
        BY <1>4, <1>11, <2>3, <3>1, ReplacingDuring
      <3> QED BY <2>3, <3>2
    <2>6. typed \in Editor /\ typed.text = begun.text /\ (typed.group = <<>> => begun.group = <<>>)
      <3>1. MaxRange(s) <= Len(begun.text)
        BY <1>11, <2>3
      <3> HIDE DEF l
      <3> QED BY <1>4, <1>11, <2>3, <3>1, ReplacingKeeps
    <2> HIDE DEF typed, x
    <2>7. coalesced = IF coalescing THEN typed ELSE endTypingUndoCoalescing(typed)
      OBVIOUS
    <2> HIDE DEF coalesced
    <2>8. /\ coalesced \in Editor /\ coalesced.text = typed.text /\ coalesced.undo = typed.undo
          /\ coalesced.group = typed.group
      BY <2>6, <2>7, EndIs
    <2>9. u.text = Replaced(coalesced.text, r, bytes) /\ u.undo = typed.undo /\ u.group = typed.group
      <3> DEFINE k == Replaced(coalesced.text, r, bytes)
                 caret == <<RangeMake(point + l, 0)>>
      <3>1. u = [coalesced EXCEPT !.text = k, !.selection = caret]
        BY <1>3
      <3> HIDE DEF k, caret
      <3>2. u.text = k /\ u.undo = typed.undo /\ u.group = typed.group
        BY <2>8, <3>1 DEF Editor
      <3> QED BY <3>2 DEF k
    <2>10. r = s
      <3>1. first.length + 0 = first.length
        BY <1>6
      <3> QED BY <1>12, <3>1 DEF s
    <2>11. u.text = x
      BY <2>3, <2>6, <2>8, <2>9, <2>10 DEF x
    <2>12. During(u, u.text, w, text)
      BY <2>5, <2>9, <2>11, DuringSame
    <2>13. u.group = <<>> /\ coalescer = None => u.text = text
      <3> SUFFICES ASSUME u.group = <<>>, coalescer = None PROVE u.text = text
        OBVIOUS
      <3>1. ~ coalescing
        BY <1>5 DEF Result
      <3>2. begun.coalescer = None /\ typed.group = <<>> /\ e.group = <<>>
        BY <2>3, <2>6, <2>9, <3>1
      <3> QED BY <1>2, <2>5, <2>11, <3>2
    <2> QED BY <2>12, <2>13 DEF Settled, u
  <1>13. CASE pb = 1
    <2> DEFINE y == Replaced(e.text, m, <<>>)
               x == Replaced(e.text, m, bytes)
    <2>1. coalescing /\ first.length = 0 /\ Linked(e) /\ l = 1 /\ bytes # <<>>
      BY <1>2, <1>4, <1>7, <1>13
    <2>2. begun = started /\ coalesced = typed
      BY <2>1
    <2>3. <<>> \in Text /\ Len(<<>>) = 0 /\ m.length > 0
      BY <1>10, <1>13 DEF Text
    <2>4. During(started, y, w, text)
      <3>1. During(CoalesceReplacing(e, m, Len(<<>>)), y, w, text)
        BY <1>2, <1>10, <2>1, <2>3, ReplacingDuring
      <3> QED BY <2>3, <3>1
    <2>5. IsTyped(started, e, point, point)
      <3>1. IsTyped(CoalesceReplacing(e, m, 0), e, m.location, m.location + 0)
        BY <1>2, <1>10, <2>3, ReplacingTyped
      <3>2. m.location + 0 = point
        BY <1>8, <1>10
      <3> QED BY <1>10, <3>1, <3>2
    <2> HIDE DEF started, begun, coalesced
    <2>6. y \in Text /\ point <= Len(y)
      <3>1. RangeMake(m.location, Len(<<>>)) \in HFRange
            /\ MaxRange(RangeMake(m.location, Len(<<>>))) <= Len(y) /\ y \in Text
        BY <1>9, <1>10, <2>3, ReplacedBack
      <3> HIDE DEF y
      <3>2. MaxRange(RangeMake(point, 0)) <= Len(y)
        BY <1>10, <2>3, <3>1
      <3>3. MaxRange(RangeMake(point, 0)) = point
        BY <1>8, EmptyRangeIs
      <3> QED BY <3>1, <3>2, <3>3
    <2>7. s = RangeMake(m.location, 0)
      BY <1>10, <2>1 DEF s
    <2>8. During(CoalesceReplacing(started, s, Len(bytes)), Replaced(y, s, bytes), w, text)
      <3> HIDE DEF y
      <3>1. /\ started \in Editor /\ Linked(started) /\ started.coalescer # None
            /\ started.coalescer.action = point
        BY <2>5 DEF IsTyped
      <3>2. s.length = 0 /\ s.location = started.coalescer.action
            /\ started.coalescer.action <= Len(y)
        BY <1>11, <2>1, <2>6, <3>1
      <3> QED BY <1>4, <1>11, <2>1, <2>4, <2>6, <3>1, <3>2, AppendingDuring
    <2>9. Replaced(y, s, bytes) = x
      BY <1>4, <1>9, <1>10, <2>7, ReplacedTwice
    <2> HIDE DEF x, y
    <2>10. During(typed, x, w, text)
      BY <2>2, <2>8, <2>9
    <2> HIDE DEF typed
    <2>11. coalesced.text = e.text /\ coalesced \in Editor
      <3>1. started \in Editor /\ started.text = e.text
        BY <2>5 DEF IsTyped
      <3>2. MaxRange(s) <= Len(started.text)
        BY <1>11, <3>1
      <3> HIDE DEF l
      <3>3. LET z == CoalesceReplacing(started, s, l) IN z \in Editor /\ z.text = started.text
        BY <1>4, <1>11, <3>1, <3>2, ReplacingKeeps
      <3> QED BY <2>2, <3>1, <3>3 DEF typed
    <2>12. r = m
      <3>1. first.length + pb = pb
        BY <1>4, <2>1
      <3> QED BY <3>1 DEF m
    <2>13. u.text = x /\ u.undo = typed.undo /\ u.group = typed.group
      <3> DEFINE k == Replaced(coalesced.text, r, bytes)
                 caret == <<RangeMake(point + l, 0)>>
      <3>1. u = [coalesced EXCEPT !.text = k, !.selection = caret]
        BY <1>3
      <3>2. k = x
        BY <2>11, <2>12 DEF x
      <3> HIDE DEF k, caret
      <3> QED BY <2>2, <2>11, <3>1, <3>2 DEF Editor
    <2>14. During(u, u.text, w, text)
      BY <2>10, <2>13, DuringSame
    <2>15. ~ (u.group = <<>> /\ coalescer = None)
      BY <1>5, <2>1 DEF Result
    <2> QED BY <2>14, <2>15 DEF Settled, u
  <1> QED BY <1>4, <1>12, <1>13

\* Overwriting keeps the history.
LEMMA OverwriteDuring ==
  ASSUME Inv, editMode = "Overwrite",
         NEW bytes, NEW previousBytes, NEW coalescing, Input(bytes, previousBytes, coalescing),
         Len(bytes) > 0,
         NEW w, Chain(w, undo, text, GroupSteps)
  PROVE  Settled(overwriteModeCore(Here, bytes, previousBytes, coalescing), w)
  <1> DEFINE point == selection[1].location - previousBytes
             l == Len(bytes)
             r == RangeMake(point, l)
             End(e) == IF coalescing THEN e ELSE endTypingUndoCoalescing(e)
             begun == End(Here)
             typed == CoalesceOverwriting(begun, r)
             coalesced == End(typed)
             u == overwriteModeCore(Here, bytes, previousBytes, coalescing)
             x == Replaced(text, r, bytes)
             q == removeRangeFromSelection(selection, r, MaxRange(r))
  <1>1. /\ Here \in Editor /\ Here.text = text /\ Here.selection = selection /\ Here.undo = undo
        /\ Here.coalescer = coalescer /\ Here.group = <<>> /\ Here.done /\ Linked(Here)
    BY HereIs DEF Here, Result
  <1>2. bytes \in Text /\ previousBytes \in {0, 1} /\ l \in Nat /\ l > 0 /\ coalescing \in BOOLEAN
    BY LenProperties DEF Input, Text
  <1>3. /\ text \in Text /\ Len(text) \in Nat /\ selection[1].location \in Nat
    <2>1. /\ text \in Text /\ Usable(selection, Len(text)) /\ Len(text) \in Nat
      BY LenProperties DEF Inv, TypeInv, Text
    <2>2. selection[1] \in HFRange
      <3>1. selection \in Seq(HFRange) /\ selection # <<>>
        BY <2>1 DEF Usable
      <3>2. 1 \in 1 .. Len(selection)
        BY <3>1, SeqFacts
      <3> QED BY <3>1, <3>2, SeqFacts
    <2> QED BY <2>1, <2>2, RangeFacts
  <1>4. u = IF ~ Within(r, text) THEN Here
            ELSE [coalesced EXCEPT !.text = Replaced(coalesced.text, r, bytes),
                       !.selection = removeRangeFromSelection(coalesced.selection, r, MaxRange(r))]
    <2> DEFINE h == Here.selection[1].location
    <2>1. u = LET s == RangeMake(h - previousBytes, Len(bytes))
              IN  IF ~ Within(s, Here.text) THEN Here
                  ELSE [End(CoalesceOverwriting(End(Here), s)) EXCEPT
                         !.text = Replaced(@, s, bytes),
                         !.selection = removeRangeFromSelection(@, s, MaxRange(s))]
      BY DEF overwriteModeCore
    <2>2. h = selection[1].location
      BY <1>1
    <2> HIDE DEF h, u
    <2> QED BY <1>1, <2>1, <2>2
  <1> HIDE DEF u
  <1>5. During(Here, text, w, text) /\ Settled(Here, w)
    BY <1>1, HereDuring
  <1>6. CASE ~ Within(r, text)
    BY <1>4, <1>5, <1>6 DEF u
  <1>7. CASE Within(r, text)
    <2>1. /\ r \in HFRange /\ r.length = l /\ MaxRange(r) <= Len(text) /\ r.length > 0
      <3>1. point >= 0 /\ MaxRange(r) <= Len(text)
        BY <1>7 DEF Within, RangeMake
      <3>2. point \in Int
        BY <1>2, <1>3
      <3>3. point \in Nat
        BY <3>1, <3>2
      <3> HIDE DEF point, l
      <3>4. r \in HFRange /\ r.length = l
        BY <1>2, <3>3, RangeMakeIs
      <3> QED BY <1>2, <3>1, <3>4
    <2> HIDE DEF r
    <2>2. /\ begun \in Editor /\ begun.text = text /\ begun.undo = undo
          /\ begun.group = <<>> /\ Linked(begun)
          /\ begun.coalescer = coalescer \/ begun.coalescer = None
      BY <1>1, <1>2, EndIs
    <2> HIDE DEF begun
    <2>3. begun.coalescer # None => /\ begun.coalescer.anchor < begun.coalescer.action
                                    /\ begun.coalescer.action <= Len(begun.text)
      BY <2>2 DEF Inv, ModeInv, TypeInv
    <2>4. IsTyped(typed, begun, r.location, MaxRange(r))
      BY <2>1, <2>2, <2>3, OverwritingTyped
    <2>5. During(begun, begun.text, w, text)
      BY <1>1, <1>5, <2>2, DuringSame
    <2>6. During(typed, x, w, text)
      <3>1. /\ MaxRange(r) <= Len(begun.text) /\ Len(bytes) = r.length
            /\ begun.group = <<>> => begun.text = text
        BY <2>1, <2>2
      <3>2. During(CoalesceOverwriting(begun, r), Replaced(begun.text, r, bytes), w, text)
        BY <1>2, <2>1, <2>2, <2>3, <2>5, <3>1, OverwritingDuring
      <3> QED BY <2>2, <3>2
    <2>7. typed \in Editor /\ typed.text = text /\ (typed.group = <<>> => coalescer # None)
      BY <2>2, <2>4 DEF IsTyped
    <2> HIDE DEF typed
    <2>8. /\ coalesced \in Editor /\ coalesced.text = text
          /\ coalesced.undo = typed.undo /\ coalesced.group = typed.group
      BY <1>2, <2>7, EndIs
    <2> HIDE DEF coalesced
    <2> DEFINE k == removeRangeFromSelection(coalesced.selection, r, MaxRange(r))
    <2>9. u = [coalesced EXCEPT !.text = x, !.selection = k]
      BY <1>4, <1>7, <2>8
    <2> HIDE DEF x, k
    <2>10. u.text = x /\ u.undo = typed.undo /\ u.group = typed.group
      BY <2>8, <2>9 DEF Editor
    <2>11. During(u, u.text, w, text)
      BY <2>6, <2>10, DuringSame
    <2> QED BY <2>7, <2>10, <2>11 DEF Settled, u
  <1> QED BY <1>6, <1>7

\* Deleting the selection keeps the history.
LEMMA DeletionDuring ==
  ASSUME Inv, MaxCondemned <= 1, FewCondemned(selection),
         NEW w, Chain(w, undo, text, GroupSteps)
  PROVE  Settled(commandDeleteRanges(Here, organizeAndMergeRanges(selection)), w)
  <1> DEFINE rs == organizeAndMergeRanges(selection)
             ended == endTypingUndoCoalescing(Here)
             c == RegisterCondemnedRanges(ended, rs)
             x == DeleteRanges(text, rs)
             cursor == <<RangeMake(rs[1].location, 0)>>
             q == NotEmpty(rs)
             o == PutsBack(q, text)
             u == commandDeleteRanges(Here, rs)
  <1>1. /\ text \in Text /\ selection \in Seq(HFRange)
        /\ Ordered(selection) /\ EndBy(selection, Len(text)) /\ selection # <<>>
        /\ OneEmpty(selection) /\ Len(text) \in Nat
    BY LenProperties DEF Inv, TypeInv, Usable, Text
  <1>2. Usable(rs, Len(text))
    <2> DEFINE n == Len(text)
    <2>1. n \in Nat /\ EndBy(selection, n)
      BY <1>1
    <2> HIDE DEF n
    <2>2. Usable(rs, n)
      BY <1>1, <2>1, OrganizedUsable
    <2> QED BY <2>2 DEF n
  <1>3. OneFilled(rs, 0)
    <2>1. OneFilled(selection, 0)
      BY <1>1, FewFilled
    <2> QED BY <1>1, <2>1, FewMerged
  <1>4. u = IF q = <<>> THEN c
            ELSE [c EXCEPT !.text = DeleteRanges(@, rs), !.selection = cursor]
    <2> HIDE DEF rs
    <2> QED BY DEF commandDeleteRanges
  <1> HIDE DEF rs, u
  <1>5. rs \in Seq(HFRange) /\ Ordered(rs) /\ EndBy(rs, Len(text))
    BY <1>2 DEF Usable
  <1>6. /\ Here \in Editor /\ Here.text = text /\ Here.undo = undo /\ Here.group = <<>>
    BY HereIs DEF Here, Result
  <1>7. /\ ended \in Editor /\ ended.text = text /\ ended.undo = undo /\ ended.group = <<>>
    BY <1>6, EndIs
  <1> HIDE DEF ended
  <1>8. During(ended, text, w, text)
    BY <1>6, <1>7, HereDuring, DuringSame
  <1>9. /\ c \in Editor /\ c.text = text /\ c.undo = undo
        /\ q = <<>> => c = ended
        /\ q # <<>> => /\ o \in RangesOperation /\ c.group = Append(ended.group, o)
                       /\ c.group # <<>>
    <2> HIDE DEF c, q, o
    <2>1. /\ c \in Editor /\ c.text = ended.text /\ c.undo = ended.undo
          /\ q = <<>> => c = ended
          /\ q # <<>> => /\ PutsBack(q, ended.text) \in RangesOperation
                         /\ c.group = Append(ended.group, PutsBack(q, ended.text))
                         /\ c.group # <<>>
      <3>1. EndBy(rs, Len(ended.text))
        BY <1>5, <1>7
      <3> QED BY <1>5, <1>7, <3>1, CondemnedIs DEF c, q
    <2> QED BY <1>7, <2>1 DEF o
  <1> HIDE DEF c
  <1>10. CASE q = <<>>
    <2>1. u = ended
      BY <1>4, <1>9, <1>10
    <2> QED BY <1>7, <1>8, <2>1 DEF Settled, u, rs
  <1>11. CASE q # <<>>
    <2>1. u = [c EXCEPT !.text = x, !.selection = cursor]
      BY <1>4, <1>9, <1>11 DEF Editor
    <2>2. PICK v \in DOMAIN rs : rs[v].length > 0 /\ q[1] = rs[v]
      BY <1>3, <1>5, <1>11, OneNotEmpty
    <2>3. q \in Seq(HFRange) /\ Len(q) = 1
      BY <1>3, <1>5, <1>11, OneNotEmpty
    <2>4. x = Replaced(text, q[1], <<>>)
      <3>1. x = Replaced(text, rs[v], <<>>)
        BY <1>1, <1>3, <1>5, <2>2, OneDeleted
      <3> QED BY <2>2, <3>1
    <2>5. Leads(o, Replaced(text, q[1], <<>>), text)
      <3>1. MaxRange(q[1]) <= Len(text)
        BY <1>5, <2>2 DEF EndBy
      <3>2. o \in RangesOperation
        BY <1>9, <1>11
      <3> HIDE DEF q
      <3> QED BY <1>1, <2>3, <3>1, <3>2, PuttingBackLeads
    <2> HIDE DEF x, cursor, o, q
    <2>6. u.text = x /\ u.undo = ended.undo /\ u.group = Append(ended.group, o) /\ u.group # <<>>
      BY <1>7, <1>9, <1>11, <2>1 DEF Editor
    <2>7. During(u, x, w, text)
      BY <1>7, <1>8, <2>4, <2>5, <2>6, DuringRegistered
    <2> QED BY <2>6, <2>7 DEF Settled, u, rs
  <1> QED BY <1>10, <1>11

\* Deleting the byte beside the caret keeps the history.
LEMMA ByteDeletionDuring ==
  ASSUME Inv, NEW r, r.length = 1, r = RangeMake(r.location, r.length),
         r.location \in Int, Within(r, text), editMode = "Insert",
         NEW w, Chain(w, undo, text, GroupSteps)
  PROVE  Settled([CoalesceReplacing(Here, r, 0)
                    EXCEPT !.text = Replaced(@, r, <<>>),
                           !.selection = <<RangeMake(r.location, 0)>>], w)
  <1> DEFINE typed == CoalesceReplacing(Here, r, 0)
             x == Replaced(text, r, <<>>)
             cursor == <<RangeMake(r.location, 0)>>
             u == [typed EXCEPT !.text = Replaced(@, r, <<>>), !.selection = cursor]
  <1>1. /\ Here \in Editor /\ Here.text = text /\ Here.undo = undo
        /\ Here.coalescer = coalescer /\ Here.group = <<>> /\ Linked(Here)
    BY HereIs DEF Here, Result
  <1>2. r \in HFRange /\ MaxRange(r) <= Len(text)
    <2>1. r.location >= 0 /\ MaxRange(r) <= Len(text)
      BY DEF Within
    <2>2. r.location \in Nat
      BY <2>1
    <2>3. RangeMake(r.location, 1) \in HFRange
      <3>1. 1 \in Nat
        OBVIOUS
      <3> QED BY <2>2, <3>1, RangeMakeIs
    <2>4. r = RangeMake(r.location, 1)
      BY Zenon
    <2> QED BY <2>1, <2>3, <2>4
  <1>3. IsTyped(typed, Here, r.location, r.location + 0)
    <2>1. 0 \in Nat /\ r.length > 0
      OBVIOUS
    <2> QED BY <1>1, <1>2, <2>1, ReplacingTyped
  <1>4. During(typed, x, w, text)
    <2>1. <<>> \in Text /\ Len(<<>>) = 0
      BY DEF Text
    <2>2. During(CoalesceReplacing(Here, r, Len(<<>>)), Replaced(Here.text, r, <<>>), w, text)
      BY <1>1, <1>2, <2>1, HereDuring, ReplacingDuring
    <2> QED BY <1>1, <2>1, <2>2
  <1>5. typed \in Editor /\ typed.text = text /\ (typed.group = <<>> => coalescer # None)
    BY <1>1, <1>3 DEF IsTyped
  <1> HIDE DEF typed
  <1>6. u = [typed EXCEPT !.text = x, !.selection = cursor]
    BY <1>5 DEF Editor
  <1> HIDE DEF x, u, cursor
  <1>7. u.text = x /\ u.undo = typed.undo /\ u.group = typed.group
    BY <1>5, <1>6 DEF Editor
  <1>8. During(u, u.text, w, text)
    BY <1>4, <1>7, DuringSame
  <1>9. Settled(u, w)
    BY <1>5, <1>7, <1>8 DEF Settled
  <1> QED BY <1>9 DEF u, cursor, typed

\* Replacing all of the text keeps the history.
LEMMA ReplacementDuring ==
  ASSUME Inv, NEW bytes \in Text,
         NEW w, Chain(w, undo, text, GroupSteps)
  PROVE  LET o == Inserting(<<bytes>>, <<RangeMake(0, Len(text))>>, "Preserve")
         IN  Settled(commandInsertByteArrays(Here, o), w)
  <1> DEFINE n == Len(text)
             r == RangeMake(0, n)
             o == Inserting(<<bytes>>, <<r>>, "Preserve")
             u == commandInsertByteArrays(Here, o)
             x == Replaced(text, r, bytes)
  <1>1. n \in Nat /\ text \in Text
    BY LenProperties DEF Inv, TypeInv, Text
  <1>2. r \in HFRange /\ MaxRange(r) <= Len(text)
    <2> DEFINE k == Len(text)
    <2>1. k \in Nat /\ 0 + k = k /\ 0 \in Nat
      BY <1>1
    <2> HIDE DEF k
    <2>2. RangeMake(0, k) \in HFRange /\ MaxRange(RangeMake(0, k)) = 0 + k
      BY <2>1, RangeMakeIs
    <2>3. MaxRange(RangeMake(0, k)) <= k
      BY <2>1, <2>2
    <2> QED BY <2>2, <2>3 DEF k
  <1> HIDE DEF n, r
  <1>3. <<bytes>> \in Seq(Text) /\ <<r>> \in Seq(HFRange) /\ Len(<<bytes>>) = 1
        /\ Len(<<r>>) = 1 /\ <<r>> # <<>>
    BY <1>2
  <1>4. o \in RangesOperation /\ o.kind = "ranges" /\ o.ranges = <<r>> /\ o.arrays = <<bytes>>
    BY <1>3 DEF Inserting, RangesOperation
  <1> HIDE DEF o
  <1>5. /\ Here \in UsableEditor /\ Here.done /\ Here.undo = undo /\ Here.text = text
        /\ Here.group = <<>> /\ Here \in Editor
    BY HereIs DEF Here, UsableEditor
  <1>6. Leads(o, text, x)
    <2>1. Single(o) /\ Where(o) = r /\ What(o) = bytes
      BY <1>4 DEF Single, Operation, Where, What
    <2> QED BY <1>1, <1>2, <2>1 DEF Leads
  <1>7. u = PerformOperation(Here, o, FALSE)
    BY <1>4, <1>5 DEF PerformOperation
  <1>8. /\ u.done /\ u.text = x
        /\ \E p : Leads(p, x, text) /\ u.group = Append(Here.group, p)
    <2> DEFINE v == PerformOperation(Here, o, FALSE)
    <2>1. /\ v.done /\ v.text = x
          /\ \E p : Leads(p, x, Here.text) /\ v.group = Append(Here.group, p)
      <3> HIDE DEF x
      <3>1. Leads(o, Here.text, x)
        BY <1>5, <1>6
      <3> QED BY <1>5, <3>1, LeadsBack
    <2> HIDE DEF u, v
    <2> QED BY <1>5, <1>7, <2>1 DEF v
  <1>9. u.undo = Here.undo
    <2>1. PerformedFrom(u, Here)
      <3> HIDE DEF u
      <3>1. PerformedFrom(commandInsertByteArrays(Here, o), Here)
        BY <1>4, <1>5, RangesPerformed
      <3> QED BY <3>1 DEF u
    <2> HIDE DEF u
    <2> QED BY <1>8, <2>1 DEF PerformedFrom
  <1> HIDE DEF u, x
  <1>10. PICK p : Leads(p, x, text) /\ u.group = Append(Here.group, p)
    BY <1>8
  <1>11. During(u, x, w, text)
    <2>1. During(Here, text, w, text)
      BY <1>5, HereDuring
    <2> QED BY <1>5, <1>9, <1>10, <2>1, DuringRegistered
  <1>12. u.group # <<>>
    <2>1. p \in Operation
      BY <1>10 DEF Leads, Single
    <2> QED BY <1>5, <1>10, <2>1
  <1>13. Settled(u, w)
    BY <1>8, <1>11, <1>12 DEF Settled
  <1> QED BY <1>13 DEF u, o, r, n

-----------------------------------------------------------------------------
(* Every step keeps the history *)

\* Both stacks lead from the text through the texts of an edit each.
Chained ==
    /\ \E w : Chain(w, undo, text, GroupSteps)
    /\ \E w : Chain(w, redo, text, GroupSteps)

\* What KeepsHistory says of a step.
HistoryStep == UNCHANGED <<text, undo, redo, coalescer>> \/ History!Next

\* The texts of both stacks, before and after a step.
LEMMA TextsOfIs ==
  /\ TextsOf(undo) = TextsFrom(text, undo) /\ TextsOf(redo) = TextsFrom(text, redo)
  /\ TextsOf(undo)' = TextsFrom(text', undo') /\ TextsOf(redo)' = TextsFrom(text', redo')
  BY DEF TextsOf, TextsFrom

\* The end of an event that has kept the history.
LEMMA BecomeHistory ==
  ASSUME Inv, OpenIsUndoable, NEW w, Chain(w, undo, text, GroupSteps),
         \E z : Chain(z, redo, text, GroupSteps),
         NEW e, Result(e), Become(e), Settled(e, w)
  PROVE  Chained' /\ HistoryStep
  <1> DEFINE n == Len(undo)
             past == TextsOf(undo)
             future == TextsOf(redo)
  <1>1. /\ text' = e.text /\ coalescer' = e.coalescer
        /\ undo' = IF e.group = <<>> THEN e.undo ELSE Append(e.undo, e.group)
        /\ redo' = IF e.group = <<>> THEN redo ELSE <<>>
    BY DEF Become
  <1>2. undo \in Seq(Group) /\ redo \in Seq(Group) /\ n \in Nat
    BY SeqFacts DEF Inv, TypeInv
  <1>3. /\ e \in Editor /\ e.undo \in Seq(Group) /\ Len(e.undo) = n /\ e.text \in Text
        /\ e.group = <<>> /\ e.coalescer # None => coalescer # None
    BY DEF Result, Editor
  <1>4. PICK z : Chain(z, redo, text, GroupSteps)
    OBVIOUS
  <1>5. PICK v : /\ Chain(v, Stack(e), e.text, GroupSteps)
                 /\ \A i \in 0 .. Len(e.undo) - 1 : v[i] = w[i]
                 /\ e.group # <<>> => v[Len(e.undo)] = text
    BY DEF Settled, During
  <1>6. undo' = Stack(e) /\ undo' \in Seq(Group) /\ Chain(v, undo', text', GroupSteps)
    <2>1. undo' = Stack(e)
      BY <1>1 DEF Stack
    <2>2. undo' \in Seq(Group)
      BY BecomeKeeps
    <2> QED BY <1>1, <1>5, <2>1, <2>2
  <1>7. past = TextsBefore(w, n) /\ past' = TextsBefore(v, Len(undo'))
    <2>1. TextsFrom(text, undo) = TextsBefore(w, n)
      BY <1>2, TextsAre
    <2>2. TextsFrom(text', undo') = TextsBefore(v, Len(undo'))
      BY <1>6, TextsAre
    <2> QED BY <2>1, <2>2, TextsOfIs
  <1>8. TextsBefore(v, n) = TextsBefore(w, n)
    <2>1. \A i \in 0 .. n - 1 : v[i] = w[i]
      BY <1>3, <1>5
    <2> HIDE DEF n
    <2> QED BY <1>2, <2>1, SameTexts
  <1>9. \A t \in Text : Chain([i \in 0 .. 0 |-> t], <<>>, t, GroupSteps) /\ TextsFrom(t, <<>>) = <<>>
    <2> TAKE t \in Text
    <2> DEFINE k == [i \in 0 .. 0 |-> t]
    <2>1. Chain(k, <<>>, t, GroupSteps)
      BY ChainEmpty
    <2> HIDE DEF k
    <2>2. TextsFrom(t, <<>>) = <<>>
      BY DEF TextsFrom
    <2> QED BY <2>1, <2>2 DEF k
  <1>10. CASE e.group # <<>>
    <2>1. redo' = <<>> /\ v[n] = text /\ undo' = Append(e.undo, e.group)
      BY <1>1, <1>3, <1>5, <1>10
    <2>2. Len(undo') = n + 1
      <3>1. e.group \in Group
        BY <1>3, <1>10 DEF Group, Editor
      <3> QED BY <1>3, <2>1, <3>1, AppendProperties
    <2>3. past' = Append(past, text)
      <3>1. \A i \in 0 .. n : v[i] \in Text
        <4>1. \A i \in 0 .. n + 1 : v[i] \in Text
          BY <1>6, <2>2, ChainTexts
        <4> HIDE DEF n
        <4> QED BY <1>2, <4>1
      <3> HIDE DEF n
      <3>2. TextsBefore(v, n + 1) = Append(TextsBefore(v, n), v[n])
        BY <1>2, <3>1, MoreTexts
      <3> QED BY <1>7, <1>8, <2>1, <2>2, <3>2
    <2>4. future' = <<>>
      BY <1>1, <1>3, <1>9, <2>1, TextsOfIs
    <2>5. History!Next
      BY <2>3, <2>4 DEF History!Next, History!Edit
    <2>6. Chained'
      BY <1>1, <1>3, <1>6, <1>9, <2>1 DEF Chained
    <2> QED BY <2>5, <2>6 DEF HistoryStep
  <1>11. CASE e.group = <<>> /\ coalescer # None
    <2>1. redo = <<>> /\ redo' = <<>> /\ undo # <<>> /\ Len(undo') = n
      BY <1>1, <1>3, <1>11 DEF Inv, LastEdit, OpenIsUndoable
    <2>2. past' = past
      BY <1>7, <1>8, <2>1
    <2>3. future = <<>> /\ future' = <<>>
      <3>1. text \in Text
        BY DEF Inv, TypeInv
      <3> QED BY <1>1, <1>3, <1>9, <2>1, <3>1, TextsOfIs
    <2>4. past # <<>>
      <3> DEFINE m == n - 1
      <3>1. m \in Nat /\ m + 1 = n
        <4>1. n > 0
          BY <1>2, <2>1, SeqFacts
        <4> HIDE DEF n
        <4> QED BY <1>2, <4>1
      <3> HIDE DEF m
      <3>2. \A i \in 0 .. m : w[i] \in Text
        <4>1. \A i \in 0 .. n : w[i] \in Text
          BY <1>2, ChainTexts
        <4> HIDE DEF n
        <4> QED BY <1>2, <3>1, <4>1
      <3>3. TextsBefore(w, m + 1) # <<>>
        BY <3>1, <3>2, MoreTexts
      <3> QED BY <1>7, <3>1, <3>3
    <2>5. History!Next
      BY <1>11, <2>1, <2>2, <2>3, <2>4 DEF History!Next, History!GoOn
    <2>6. Chained'
      BY <1>1, <1>3, <1>6, <1>9, <2>1 DEF Chained
    <2> QED BY <2>5, <2>6 DEF HistoryStep
  <1>12. CASE e.group = <<>> /\ coalescer = None
    <2>1. text' = text /\ redo' = redo /\ Len(undo') = n /\ coalescer' = None
      BY <1>1, <1>3, <1>12 DEF Settled
    <2>2. past' = past
      BY <1>7, <1>8, <2>1
    <2>3. future' = future
      BY <2>1, TextsOfIs
    <2>4. History!Next
      BY <2>1, <2>2, <2>3 DEF History!Next, History!Close
    <2>5. Chained'
      BY <1>4, <1>6, <2>1 DEF Chained
    <2> QED BY <2>4, <2>5 DEF HistoryStep
  <1> QED BY <1>10, <1>11, <1>12

\* A group of one stack is performed and what it registers is put on the
\* other one.
LEMMA MovedHistory ==
  ASSUME NEW s \in Seq(Group), s # <<>>, NEW t \in Seq(Group),
         NEW a, NEW w, Chain(w, s, a, GroupSteps), NEW z, Chain(z, t, a, GroupSteps),
         NEW e \in UsableEditor, e.done, e.text = a, e.group = <<>>, e.coalescer = None,
         NEW redoing \in BOOLEAN,
         NEW v, v = PerformGroup(e, Last(s), redoing), NEW p, p = TextsFrom(a, s)
  PROVE  /\ \E y : Chain(y, Front(s), v.text, GroupSteps)
         /\ \E y : Chain(y, Append(t, v.group), v.text, GroupSteps)
         /\ p # <<>> /\ v.text = p[Len(p)] /\ v.coalescer = None
         /\ TextsFrom(v.text, Front(s)) = SubSeq(p, 1, Len(p) - 1)
         /\ TextsFrom(v.text, Append(t, v.group)) = Append(TextsFrom(a, t), a)
  <1> DEFINE g == v.group
             n == Len(s)
             l == n - 1
             m == Len(t)
             x == w[l]
             q == Append(t, g)
  <1>1. /\ n \in Nat /\ m \in Nat /\ a \in Text /\ (\A i \in 0 .. n : w[i] \in Text)
        /\ (\A i \in 0 .. m : z[i] \in Text)
    BY ChainTexts
  <1>2. l \in Nat /\ l + 1 = n /\ l \in 0 .. n
    <2>1. n > 0
      BY SeqFacts
    <2> HIDE DEF n
    <2> QED BY <1>1, <2>1
  <1>3. /\ <<Last(s), a, x>> \in GroupSteps
        /\ \E y : Chain(y, Front(s), x, GroupSteps) /\ \A i \in 0 .. l : y[i] = w[i]
    BY ChainFront
  <1>4. GroupLeads(Last(s), a, x) /\ x \in Text
    <2>1. GroupLeads(Last(s), a, x)
      <3> HIDE DEF x
      <3> QED BY <1>3, GroupStepIs
    <2> QED BY <1>1, <1>2, <2>1
  <1> HIDE DEF x
  <1>5. /\ v.done /\ v.text = x
        /\ \A u : GroupLeads(<<>>, a, u) => GroupLeads(g, x, u)
    <2> DEFINE d == Last(s)
    <2>1. GroupLeads(d, e.text, x)
      BY <1>4
    <2> HIDE DEF d
    <2> DEFINE k == PerformGroup(e, d, redoing)
    <2>2. /\ k.done /\ k.text = x
          /\ \A u : GroupLeads(e.group, e.text, u) => GroupLeads(k.group, x, u)
      BY <2>1, GroupLeadsBack
    <2> HIDE DEF k
    <2>3. v = k
      BY DEF k, d
    <2>4. g = k.group
      BY <2>3
    <2> HIDE DEF g
    <2> QED BY <2>2, <2>3, <2>4
  <1>6. GroupLeads(g, x, a)
    BY <1>1, <1>5, GroupOfNothing
  <1>7. v.coalescer = None /\ g \in Group
    <2>1. Last(s) \in Group
      BY LastIs
    <2> QED BY <1>5, <2>1, GroupPerformedIs
  <1>8. PICK y : Chain(y, Front(s), x, GroupSteps) /\ \A i \in 0 .. l : y[i] = w[i]
    BY <1>3
  <1>9. <<g, x, a>> \in GroupSteps
    BY <1>6, GroupStepIs
  <1> HIDE DEF g
  <1>10. PICK k : Chain(k, q, x, GroupSteps) /\ \A i \in 0 .. m : k[i] = z[i]
    BY <1>4, <1>7, <1>9, ChainAppend
  <1>11. Front(s) \in Seq(Group) /\ Len(Front(s)) = l
    BY FrontIs
  <1>12. q \in Seq(Group) /\ Len(q) = m + 1
    BY <1>7, AppendProperties
  <1>13. p = TextsBefore(w, n) /\ TextsFrom(x, Front(s)) = TextsBefore(y, l)
         /\ TextsFrom(a, t) = TextsBefore(z, m) /\ TextsFrom(x, q) = TextsBefore(k, m + 1)
    <2>1. p = TextsBefore(w, n)
      BY TextsAre
    <2>2. TextsFrom(x, Front(s)) = TextsBefore(y, Len(Front(s)))
      BY <1>8, <1>11, TextsAre
    <2>3. TextsFrom(a, t) = TextsBefore(z, m)
      BY TextsAre
    <2> HIDE DEF q
    <2>4. TextsFrom(x, q) = TextsBefore(k, Len(q))
      BY <1>10, <1>12, TextsAre
    <2> QED BY <1>11, <1>12, <2>1, <2>2, <2>3, <2>4
  <1>14. z[m] = a
    BY DEF Chain
  <1> HIDE DEF n, m, q
  <1>15. TextsBefore(y, l) = TextsBefore(w, l)
    <2>1. \A i \in 0 .. l - 1 : y[i] = w[i]
      <3>1. \A i \in 0 .. l - 1 : i \in 0 .. l
        <4> HIDE DEF l
        <4> QED BY <1>2
      <3> QED BY <1>8, <3>1
    <2> HIDE DEF l
    <2> QED BY <1>2, <2>1, SameTexts
  <1>16. /\ TextsBefore(w, n) # <<>>
         /\ TextsBefore(w, l) = SubSeq(TextsBefore(w, n), 1, Len(TextsBefore(w, n)) - 1)
         /\ w[l] = TextsBefore(w, n)[Len(TextsBefore(w, n))]
    <2>1. \A i \in 0 .. l : w[i] \in Text
      BY <1>1, <1>2
    <2> HIDE DEF l
    <2>2. /\ TextsBefore(w, l + 1) # <<>>
          /\ TextsBefore(w, l) = SubSeq(TextsBefore(w, l + 1), 1, Len(TextsBefore(w, l + 1)) - 1)
          /\ w[l] = TextsBefore(w, l + 1)[Len(TextsBefore(w, l + 1))]
      BY <1>2, <2>1, MoreTexts
    <2> QED BY <1>2, <2>2
  <1>17. TextsBefore(k, m + 1) = Append(TextsBefore(z, m), a)
    <2>1. m \in 0 .. m /\ \A i \in 0 .. m - 1 : i \in 0 .. m
      BY <1>1
    <2>2. \A i \in 0 .. m : k[i] \in Text
      BY <1>1, <1>10
    <2>3. TextsBefore(k, m + 1) = Append(TextsBefore(k, m), k[m])
      BY <1>1, <2>2, MoreTexts
    <2>4. k[m] = a
      BY <1>10, <1>14, <2>1
    <2>5. TextsBefore(k, m) = TextsBefore(z, m)
      BY <1>1, <1>10, <2>1, SameTexts
    <2> QED BY <2>3, <2>4, <2>5
  <1>18. w[l] = x
    BY DEF x
  <1> HIDE DEF l
  <1> QED BY <1>5, <1>7, <1>8, <1>10, <1>13, <1>15, <1>16, <1>17, <1>18 DEF g, q

\* A command that has kept the history, from the history there is.
LEMMA CommandHistory ==
  ASSUME Inv, OpenIsUndoable, Chained, NEW e, Result(e), Become(e),
         \A w : Chain(w, undo, text, GroupSteps) => Settled(e, w)
  PROVE  Chained' /\ HistoryStep
  <1>1. PICK w : Chain(w, undo, text, GroupSteps)
    BY DEF Chained
  <1>2. Settled(e, w) /\ \E z : Chain(z, redo, text, GroupSteps)
    BY <1>1 DEF Chained
  <1> QED BY <1>1, <1>2, BecomeHistory

\* What a command puts in.
LEMMA InputHistory ==
  ASSUME Inv, OpenIsUndoable, Chained, MaxCondemned <= 1, FewCondemned(Tail(selection)),
         NEW bytes, NEW previousBytes, NEW coalescing,
         Input(bytes, previousBytes, coalescing), editMode = "Overwrite" => Len(bytes) > 0,
         Become(insertByteArray(bytes, previousBytes, coalescing))
  PROVE  Chained' /\ HistoryStep
  <1> DEFINE u == insertByteArray(bytes, previousBytes, coalescing)
  <1>1. CASE editMode # "Overwrite"
    <2> DEFINE v == insertionModeCore(Here, bytes, previousBytes, coalescing)
    <2>1. u = v
      BY <1>1 DEF insertByteArray
    <2>2. Result(v)
      BY <1>1, InsertionIs
    <2>3. \A w : Chain(w, undo, text, GroupSteps) => Settled(v, w)
      BY <1>1, InsertionDuring
    <2>4. Become(v)
      BY <2>1
    <2> HIDE DEF u, v
    <2> QED BY <2>2, <2>3, <2>4, CommandHistory
  <1>2. CASE editMode = "Overwrite"
    <2> DEFINE v == overwriteModeCore(Here, bytes, previousBytes, coalescing)
               r == RangeMake(selection[1].location - previousBytes, Len(bytes))
    <2>1. u = v
      BY <1>2 DEF insertByteArray
    <2>2. Result(v)
      <3>1. (~ Within(r, text) => v = Here) /\ (Within(r, text) => Result(v))
        BY <1>2, OverwriteIs
      <3> HIDE DEF v, r
      <3> QED BY <3>1, HereIs
    <2>3. \A w : Chain(w, undo, text, GroupSteps) => Settled(v, w)
      BY <1>2, OverwriteDuring
    <2>4. Become(v)
      BY <2>1
    <2> HIDE DEF u, v
    <2> QED BY <2>2, <2>3, <2>4, CommandHistory
  <1> QED BY <1>1, <1>2

\* A digit.
LEMMA DigitHistory ==
  ASSUME Inv, OpenIsUndoable, Chained, MaxCondemned <= 1, NEW byte \in Typed, typeDigit(byte)
  PROVE  Chained' /\ HistoryStep
  <1> DEFINE second == insertionShouldDeleteLastNybble
             previousBytes == IF second THEN 1 ELSE 0
             bytes == <<byte>>
  <1>1. FewCondemned(Tail(selection)) /\ Become(insertByteArray(bytes, previousBytes, TRUE))
    BY DEF typeDigit
  <1>2. bytes \in Text /\ Len(bytes) = 1
    BY ControllerUndoAssumption DEF Text
  <1>3. Input(bytes, previousBytes, TRUE)
    <2>1. ASSUME second PROVE \E n \in Nat : selection = <<RangeMake(n + 1, 0)>>
      <3>1. omitted \in 0 .. (Len(text) - 1) /\ selection = <<RangeMake(omitted + 1, 0)>>
        BY <2>1 DEF insertionShouldDeleteLastNybble, Inv, TypeInv
      <3>2. omitted \in Nat
        BY <3>1
      <3> QED BY <3>1, <3>2
    <2> HIDE DEF bytes, second
    <2> QED BY <1>2, <2>1 DEF Input
  <1> HIDE DEF bytes, second, previousBytes
  <1>4. Len(bytes) > 0
    BY <1>2
  <1> QED BY <1>1, <1>3, <1>4, InputHistory

\* A character.
LEMMA CharacterHistory ==
  ASSUME Inv, OpenIsUndoable, Chained, MaxCondemned <= 1, NEW byte \in Typed,
         typeCharacter(byte)
  PROVE  Chained' /\ HistoryStep
  <1> DEFINE bytes == <<byte>>
  <1>1. FewCondemned(Tail(selection)) /\ Become(insertByteArray(bytes, 0, TRUE))
    BY DEF typeCharacter
  <1>2. bytes \in Text /\ Len(bytes) = 1
    BY ControllerUndoAssumption DEF Text
  <1> HIDE DEF bytes
  <1>3. Input(bytes, 0, TRUE)
    BY <1>2 DEF Input
  <1>4. Len(bytes) > 0
    BY <1>2
  <1> QED BY <1>1, <1>3, <1>4, InputHistory

\* Pasting.
LEMMA PasteHistory ==
  ASSUME Inv, OpenIsUndoable, Chained, MaxCondemned <= 1, NEW bytes \in Pasted, paste(bytes)
  PROVE  Chained' /\ HistoryStep
  <1>1. /\ FewCondemned(Tail(selection)) /\ Become(insertByteArray(bytes, 0, FALSE))
        /\ editMode = "Overwrite" => bytes # <<>>
    BY DEF paste
  <1>2. bytes \in Text
    BY ControllerUndoAssumption DEF Text
  <1>3. Input(bytes, 0, FALSE)
    BY <1>2 DEF Input
  <1>4. editMode = "Overwrite" => Len(bytes) > 0
    BY <1>1, <1>2, SeqFacts DEF Text
  <1> QED BY <1>1, <1>3, <1>4, InputHistory

\* Deleting the selection.
LEMMA SelectionDeletedHistory ==
  ASSUME Inv, OpenIsUndoable, Chained, MaxCondemned <= 1, deleteSelection
  PROVE  Chained' /\ HistoryStep
  <1> DEFINE u == commandDeleteRanges(Here, organizeAndMergeRanges(selection))
  <1>1. FewCondemned(selection) /\ Become(u)
    BY DEF deleteSelection
  <1>2. Result(u)
    BY DeletionIs
  <1>3. \A w : Chain(w, undo, text, GroupSteps) => Settled(u, w)
    BY <1>1, DeletionDuring
  <1> HIDE DEF u
  <1> QED BY <1>1, <1>2, <1>3, CommandHistory

\* Deleting beside the caret.
LEMMA DirectionHistory ==
  ASSUME Inv, OpenIsUndoable, Chained, MaxCondemned <= 1,
         NEW left \in BOOLEAN, deleteDirection(left)
  PROVE  Chained' /\ HistoryStep
  <1> DEFINE first == selection[1].location
             r == RangeMake(IF left THEN first - 1 ELSE first, 1)
             u == [CoalesceReplacing(Here, r, 0)
                      EXCEPT !.text = Replaced(@, r, <<>>),
                             !.selection = <<RangeMake(r.location, 0)>>]
  <1>1. CASE selection # <<RangeMake(first, 0)>>
    BY <1>1, SelectionDeletedHistory DEF deleteDirection
  <1>2. CASE selection = <<RangeMake(first, 0)>>
    <2>1. editMode = "Insert" /\ Within(r, text) /\ Become(u)
      BY <1>2 DEF deleteDirection
    <2>2. first \in Nat
      <3>1. selection \in Seq(HFRange) /\ selection # <<>>
        BY DEF Inv, TypeInv, Usable
      <3>2. selection[1] \in HFRange
        BY <3>1, SeqFacts
      <3> QED BY <3>2, RangeFacts
    <2> HIDE DEF first, u
    <2>3. r.location \in Int /\ r.length = 1 /\ r = RangeMake(r.location, r.length)
      BY <2>2 DEF RangeMake
    <2> HIDE DEF r
    <2>4. Result(u)
      BY <2>1, <2>3, ByteDeletionIs DEF u
    <2>5. ASSUME NEW w, Chain(w, undo, text, GroupSteps) PROVE Settled(u, w)
      BY <2>1, <2>3, <2>5, ByteDeletionDuring DEF u
    <2> QED BY <2>1, <2>4, <2>5, CommandHistory
  <1> QED BY <1>1, <1>2

\* Replace All.
LEMMA ReplaceHistory ==
  ASSUME Inv, OpenIsUndoable, Chained, NEW bytes \in Replacing, replaceByteArray(bytes)
  PROVE  Chained' /\ HistoryStep
  <1> DEFINE u == commandInsertByteArrays(Here,
                    Inserting(<<bytes>>, <<RangeMake(0, Len(text))>>, "Preserve"))
  <1>1. Become(u)
    BY DEF replaceByteArray
  <1>2. bytes \in Text
    BY ControllerUndoAssumption DEF Text
  <1>3. u.done => Result(u)
    BY <1>2, ReplacementIs
  <1>4. \A w : Chain(w, undo, text, GroupSteps) => Settled(u, w)
    BY <1>2, ReplacementDuring
  <1> HIDE DEF u
  <1>5. u.done
    BY <1>1 DEF Become
  <1> QED BY <1>1, <1>3, <1>4, <1>5, CommandHistory

\* Undoing.
LEMMA UndoHistory ==
  ASSUME Inv, Chained, undoChanges
  PROVE  Chained' /\ HistoryStep
  <1> DEFINE e == endTypingUndoCoalescing(Here)
             v == PerformGroup(e, Last(undo), FALSE)
             p == TextsFrom(text, undo)
  <1>1. /\ undo # <<>> /\ text' = v.text /\ coalescer' = v.coalescer
        /\ undo' = Front(undo) /\ redo' = Append(redo, v.group)
    BY DEF undoChanges
  <1>2. undo \in Seq(Group) /\ redo \in Seq(Group)
    BY DEF Inv, TypeInv
  <1>3. /\ e \in UsableEditor /\ e.group = <<>> /\ e.coalescer = None
        /\ e.done /\ e.text = text
    <2>1. /\ Here \in Editor /\ Usable(Here.selection, Len(Here.text)) /\ Here.group = <<>>
          /\ Here.done /\ Here.text = text
      BY HereIs DEF Here, Result
    <2> QED BY <2>1, EndIs DEF UsableEditor
  <1>4. PICK w, z : Chain(w, undo, text, GroupSteps) /\ Chain(z, redo, text, GroupSteps)
    BY DEF Chained
  <1>5. /\ \E y : Chain(y, Front(undo), v.text, GroupSteps)
        /\ \E y : Chain(y, Append(redo, v.group), v.text, GroupSteps)
        /\ p # <<>> /\ v.text = p[Len(p)] /\ v.coalescer = None
        /\ TextsFrom(v.text, Front(undo)) = SubSeq(p, 1, Len(p) - 1)
        /\ TextsFrom(v.text, Append(redo, v.group)) = Append(TextsFrom(text, redo), text)
    <2> HIDE DEF e, v, p
    <2>1. \E redoing \in BOOLEAN : v = PerformGroup(e, Last(undo), redoing)
      BY DEF v
    <2>2. /\ undo # <<>> /\ p = TextsFrom(text, undo)
          /\ Chain(w, undo, text, GroupSteps) /\ Chain(z, redo, text, GroupSteps)
      BY <1>1, <1>4 DEF p
    <2> QED BY <1>2, <1>3, <2>1, <2>2, MovedHistory
  <1> HIDE DEF v
  <1>6. Chained'
    BY <1>1, <1>5 DEF Chained
  <1>7. /\ TextsOf(undo) = p /\ TextsOf(redo) = TextsFrom(text, redo)
        /\ TextsOf(undo)' = SubSeq(p, 1, Len(p) - 1)
        /\ TextsOf(redo)' = Append(TextsFrom(text, redo), text)
    BY <1>1, <1>5, TextsOfIs
  <1> HIDE DEF p
  <1>8. History!Undo
    BY <1>1, <1>5, <1>7 DEF History!Undo, History!Last, History!Front
  <1> QED BY <1>6, <1>8 DEF HistoryStep, History!Next

\* Redoing.
LEMMA RedoHistory ==
  ASSUME Inv, Chained, redoChanges
  PROVE  Chained' /\ HistoryStep
  <1> DEFINE v == PerformGroup(Here, Last(redo), TRUE)
             p == TextsFrom(text, redo)
  <1>1. /\ redo # <<>> /\ text' = v.text /\ coalescer' = v.coalescer
        /\ undo' = Append(undo, v.group) /\ redo' = Front(redo)
    BY DEF redoChanges
  <1>2. undo \in Seq(Group) /\ redo \in Seq(Group)
    BY DEF Inv, TypeInv
  <1>3. /\ Here \in UsableEditor /\ Here.group = <<>> /\ Here.coalescer = None
        /\ Here.done /\ Here.text = text
    <2>1. coalescer = None
      BY <1>1 DEF Inv, LastEdit
    <2> QED BY <2>1, HereIs DEF Here
  <1>4. PICK w, z : Chain(w, redo, text, GroupSteps) /\ Chain(z, undo, text, GroupSteps)
    BY DEF Chained
  <1>5. /\ \E y : Chain(y, Front(redo), v.text, GroupSteps)
        /\ \E y : Chain(y, Append(undo, v.group), v.text, GroupSteps)
        /\ p # <<>> /\ v.text = p[Len(p)] /\ v.coalescer = None
        /\ TextsFrom(v.text, Front(redo)) = SubSeq(p, 1, Len(p) - 1)
        /\ TextsFrom(v.text, Append(undo, v.group)) = Append(TextsFrom(text, undo), text)
    <2> HIDE DEF v, p
    <2>1. \E redoing \in BOOLEAN : v = PerformGroup(Here, Last(redo), redoing)
      BY DEF v
    <2>2. /\ redo # <<>> /\ p = TextsFrom(text, redo)
          /\ Chain(w, redo, text, GroupSteps) /\ Chain(z, undo, text, GroupSteps)
      BY <1>1, <1>4 DEF p
    <2> QED BY <1>2, <1>3, <2>1, <2>2, MovedHistory
  <1> HIDE DEF v
  <1>6. Chained'
    BY <1>1, <1>5 DEF Chained
  <1>7. /\ TextsOf(redo) = p /\ TextsOf(undo) = TextsFrom(text, undo)
        /\ TextsOf(redo)' = SubSeq(p, 1, Len(p) - 1)
        /\ TextsOf(undo)' = Append(TextsFrom(text, undo), text)
    BY <1>1, <1>5, TextsOfIs
  <1> HIDE DEF p
  <1>8. History!Redo
    BY <1>1, <1>5, <1>7 DEF History!Redo, History!Last, History!Front
  <1> QED BY <1>6, <1>8 DEF HistoryStep, History!Next

\* With nothing to undo or redo there are no texts to give back.
LEMMA NothingChained ==
  ASSUME NEW t \in Text
  PROVE  (\E w : Chain(w, <<>>, t, GroupSteps)) /\ TextsFrom(t, <<>>) = <<>>
  <1> DEFINE k == [i \in 0 .. 0 |-> t]
  <1>1. Chain(k, <<>>, t, GroupSteps)
    BY ChainEmpty
  <1> HIDE DEF k
  <1>2. TextsFrom(t, <<>>) = <<>>
    BY DEF TextsFrom
  <1> QED BY <1>1, <1>2

\* A save that forgets the history.
LEMMA ForgetHistory ==
  ASSUME Inv, ~ ForgetsWhileTyping, removeAllUndoOperations
  PROVE  Chained' /\ HistoryStep
  <1>1. /\ coalescer' = None /\ undo' = <<>> /\ redo' = <<>> /\ text' = text
    BY DEF removeAllUndoOperations
  <1>2. (\E w : Chain(w, <<>>, text, GroupSteps)) /\ TextsFrom(text, <<>>) = <<>>
    BY NothingChained DEF Inv, TypeInv
  <1>3. Chained'
    BY <1>1, <1>2 DEF Chained
  <1>4. TextsOf(undo)' = <<>> /\ TextsOf(redo)' = <<>>
    BY <1>1, <1>2, TextsOfIs
  <1>5. History!Forget
    BY <1>1, <1>4 DEF History!Forget
  <1> QED BY <1>3, <1>5 DEF HistoryStep, History!Next

\* What leaves the text, both stacks and the coalescer alone.
LEMMA StayHistory ==
  ASSUME Chained, UNCHANGED <<text, undo, redo, coalescer>>
  PROVE  Chained' /\ HistoryStep
  BY DEF Chained, HistoryStep

\* Another mode ends the string of typing.
LEMMA ModeHistory ==
  ASSUME Chained, NEW mode \in EditModes, setEditMode(mode)
  PROVE  Chained' /\ HistoryStep
  <1>1. coalescer' = None /\ text' = text /\ undo' = undo /\ redo' = redo
    BY DEF setEditMode
  <1>2. Chained'
    BY <1>1 DEF Chained
  <1>3. TextsOf(undo)' = TextsOf(undo) /\ TextsOf(redo)' = TextsOf(redo)
    BY <1>1, TextsOfIs
  <1>4. History!Close
    BY <1>1, <1>3 DEF History!Close
  <1> QED BY <1>2, <1>4 DEF HistoryStep, History!Next

\* At first there is nothing to undo.
LEMMA InitHistory ==
  ASSUME Init
  PROVE  Chained /\ History!Init
  <1>1. text \in Text /\ undo = <<>> /\ redo = <<>> /\ coalescer = None
    BY ControllerUndoAssumption DEF Init, Text
  <1>2. (\E w : Chain(w, <<>>, text, GroupSteps)) /\ TextsFrom(text, <<>>) = <<>>
    BY <1>1, NothingChained
  <1>3. TextsOf(undo) = <<>> /\ TextsOf(redo) = <<>>
    BY <1>1, <1>2, TextsOfIs
  <1> QED BY <1>1, <1>2, <1>3 DEF Chained, History!Init

\* At every step.
LEMMA NextHistory ==
  ASSUME MaxCondemned <= 1, ~ ForgetsWhileTyping, Inv, OpenIsUndoable, Chained, [Next]_vars
  PROVE  /\ Inv' /\ OpenIsUndoable' /\ Chained'
         /\ HistoryStep
  <1>1. ASSUME NEW rs \in Selections, setSelectedContentsRanges(rs) PROVE Chained' /\ HistoryStep
    BY <1>1, StayHistory DEF setSelectedContentsRanges
  <1>2. ASSUME NEW mode \in EditModes, setEditMode(mode) PROVE Chained' /\ HistoryStep
    BY <1>2, ModeHistory
  <1>3. ASSUME NEW byte \in Typed, typeDigit(byte) PROVE Chained' /\ HistoryStep
    BY <1>3, DigitHistory
  <1>4. ASSUME NEW byte \in Typed, typeCharacter(byte) PROVE Chained' /\ HistoryStep
    BY <1>4, CharacterHistory
  <1>5. ASSUME NEW bytes \in Pasted, paste(bytes) PROVE Chained' /\ HistoryStep
    BY <1>5, PasteHistory
  <1>6. ASSUME deleteSelection PROVE Chained' /\ HistoryStep
    BY <1>6, SelectionDeletedHistory
  <1>7. ASSUME NEW left \in BOOLEAN, deleteDirection(left) PROVE Chained' /\ HistoryStep
    BY <1>7, DirectionHistory
  <1>8. ASSUME NEW bytes \in Replacing, replaceByteArray(bytes) PROVE Chained' /\ HistoryStep
    BY <1>8, ReplaceHistory
  <1>9. ASSUME removeAllUndoOperations PROVE Chained' /\ HistoryStep
    BY <1>9, ForgetHistory
  <1>10. ASSUME undoChanges PROVE Chained' /\ HistoryStep
    BY <1>10, UndoHistory
  <1>11. ASSUME redoChanges PROVE Chained' /\ HistoryStep
    BY <1>11, RedoHistory
  <1>12. ASSUME UNCHANGED vars PROVE Chained' /\ HistoryStep
    BY <1>12, StayHistory DEF vars
  <1>13. Chained' /\ HistoryStep
    BY <1>1, <1>2, <1>3, <1>4, <1>5, <1>6, <1>7, <1>8, <1>9, <1>10, <1>11, <1>12 DEF Next
  <1>14. Inv' /\ Keeps
    BY NextKeeps
  <1> QED BY <1>13, <1>14 DEF Keeps

\* What waits on a stack applies.
LEMMA ChainedApplies ==
  ASSUME Inv, Chained
  PROVE  OperationsApply
  <1>1. undo \in Seq(Group) /\ redo \in Seq(Group)
    BY DEF Inv, TypeInv
  <1>2. Here \in UsableEditor /\ Here.done /\ Here.text = text
    BY HereIs DEF Here
  <1> HIDE DEF Here
  <1>3. \A stack \in Seq(Group), redoing \in BOOLEAN :
            (\E w : Chain(w, stack, Here.text, GroupSteps)) =>
               LET applied[i \in 0 .. Len(stack)] ==
                    IF i = Len(stack) THEN Here
                    ELSE PerformGroup(applied[i + 1], stack[i + 1], redoing)
               IN  applied[0].done
    BY <1>2, StackApplies
  <1>4. /\ \E w : Chain(w, undo, Here.text, GroupSteps)
        /\ \E w : Chain(w, redo, Here.text, GroupSteps)
    BY <1>2 DEF Chained
  <1> QED BY <1>1, <1>3, <1>4 DEF OperationsApply

-----------------------------------------------------------------------------
(* Theorems: the history *)

\* While the application has forgotten nothing in the middle of a string of
\* typing, and no operation deletes several ranges at once, what waits to be
\* undone and to be redone stays a chain of edits.
THEOREM HistoryStaysChained ==
  ASSUME MaxCondemned <= 1, ~ ForgetsWhileTyping
  PROVE  Spec => [](Inv /\ OpenIsUndoable /\ Chained)
  <1> DEFINE HInv == Inv /\ OpenIsUndoable /\ Chained
  <1>1. Init => HInv
    BY InitKeeps, InitHistory
  <1>2. HInv /\ [Next]_vars => HInv'
    BY NextHistory
  <1> QED BY <1>1, <1>2, PTL DEF Spec

\* Every operation that waits lies inside the text it will be performed on.
THEOREM OperationsStayApplicable ==
  ASSUME MaxCondemned <= 1, ~ ForgetsWhileTyping
  PROVE  Spec => []OperationsApply
  <1>1. Inv /\ OpenIsUndoable /\ Chained => OperationsApply
    BY ChainedApplies
  <1> QED BY <1>1, HistoryStaysChained, PTL

\* Undoing gives back exactly the text before an edit or a whole string of
\* typing, and redoing the text after it.
THEOREM HistoryIsKept ==
  ASSUME MaxCondemned <= 1, ~ ForgetsWhileTyping
  PROVE  Spec => KeepsHistory
  <1> DEFINE HInv == Inv /\ OpenIsUndoable /\ Chained
  <1>1. Init => History!Init
    BY InitHistory
  <1>2. HInv /\ [Next]_vars
        => [UNCHANGED <<text, undo, redo, coalescer>> \/ History!Next]_vars
    BY NextHistory DEF HistoryStep
  <1>3. Spec => []HInv
    BY HistoryStaysChained
  <1> QED BY <1>1, <1>2, <1>3, PTL DEF Spec, KeepsHistory

\* The controller implements the abstract history: a step that leaves the
\* text, both stacks and the coalescer alone is a stutter of it.
THEOREM ControllerImplementsHistory ==
  ASSUME MaxCondemned <= 1, ~ ForgetsWhileTyping
  PROVE  Spec => History!Spec
  <1> DEFINE HInv == Inv /\ OpenIsUndoable /\ Chained
             stutter == UNCHANGED <<TextsOf(undo), text, TextsOf(redo),
                                    coalescer # None /\ undo # <<>>>>
  <1>1. Init => History!Init
    BY InitHistory
  <1>2. ASSUME UNCHANGED <<text, undo, redo, coalescer>>
        PROVE  stutter
    <2>1. text' = text /\ undo' = undo /\ redo' = redo /\ coalescer' = coalescer
      BY <1>2
    <2>2. TextsOf(undo)' = TextsOf(undo) /\ TextsOf(redo)' = TextsOf(redo)
      BY <2>1, TextsOfIs
    <2>3. (coalescer # None /\ undo # <<>>)' = (coalescer # None /\ undo # <<>>)
      BY <2>1
    <2> QED BY <2>1, <2>2, <2>3
  <1>3. HInv /\ [Next]_vars => History!Next \/ stutter
    <2> SUFFICES ASSUME HInv, [Next]_vars PROVE History!Next \/ stutter
      OBVIOUS
    <2>1. HistoryStep
      BY NextHistory
    <2> HIDE DEF stutter
    <2> QED BY <2>1, <1>2 DEF HistoryStep
  <1>4. Spec => []HInv
    BY HistoryStaysChained
  <1> QED BY <1>1, <1>3, <1>4, PTL DEF Spec, History!Spec

-----------------------------------------------------------------------------
(* What pasting leaves of the text *)

\* The positions of ranges are the same after merging them.
LEMMA OrganizedCovers ==
  ASSUME NEW rs \in Seq(HFRange), Ordered(rs)
  PROVE  LET m == organizeAndMergeRanges(rs)
         IN  \A x : Covers(m, Len(m), x) <=> Covers(rs, Len(rs), x)
  <1> DEFINE m == organizeAndMergeRanges(rs)
  <1>1. MergedUpTo(m, rs, Len(rs))
    BY OrganizedIs
  <1> HIDE DEF m
  <1> QED BY <1>1 DEF MergedUpTo, m

\* The positions of t that none of the ranges behind the first i covers.
Uncovered(t, rs, i) == {j \in DOMAIN t : \A k \in i + 1 .. Len(rs) : j - 1 \notin Positions(rs[k])}

\* u is what is left of t when the ranges behind the first i are deleted: what
\* is before all of them has kept its place.
Remains(u, t, rs, i) ==
    \E at : /\ KeptAt(u, t, Uncovered(t, rs, i), at)
            /\ \A b \in Nat : b <= Len(t) /\ (\A k \in i + 1 .. Len(rs) : b <= rs[k].location)
                   => b <= Len(u) /\ InPlace(at, b)

\* Deleting one more range.
LEMMA RemainsLess ==
  ASSUME NEW t \in Text, NEW rs \in Seq(HFRange), Ordered(rs), EndBy(rs, Len(t)),
         NEW i \in 0 .. Len(rs) - 1, NEW u \in Text, Remains(u, t, rs, i + 1),
         MaxRange(rs[i + 1]) <= Len(u)
  PROVE  Remains(Replaced(u, rs[i + 1], <<>>), t, rs, i)
  <1> DEFINE n == Len(rs)
             r == rs[i + 1]
             a == r.location
             l == r.length
             P == Uncovered(t, rs, i + 1)
             Q == Uncovered(t, rs, i)
             v == Replaced(u, r, <<>>)
  <1>1. /\ n \in Nat /\ DOMAIN rs = 1 .. n /\ (\A k \in 1 .. n : rs[k] \in HFRange)
        /\ Len(t) \in Nat /\ DOMAIN t = 1 .. Len(t) /\ t \in Seq(Bytes) /\ u \in Seq(Bytes)
        /\ Len(u) \in Nat
    BY SeqFacts DEF Text
  <1>2. i \in Nat /\ i + 1 \in 1 .. n /\ \A k \in i + 2 .. n : k \in 1 .. n /\ i + 1 < k
    <2> HIDE DEF n
    <2> QED BY <1>1 DEF n
  <1>3. r \in HFRange
    BY <1>1, <1>2
  <1> HIDE DEF r, v, a, l, P, Q
  <1>4. a \in Nat /\ l \in Nat /\ MaxRange(r) = a + l /\ a + l <= Len(u) /\ a + l <= Len(t)
    <2>1. MaxRange(rs[i + 1]) <= Len(t)
      BY <1>1, <1>2 DEF EndBy
    <2>2. MaxRange(r) <= Len(u)
      BY DEF r
    <2> QED BY <1>3, <2>1, <2>2, RangeFacts DEF r, a, l
  <1>5. Spliced(v, u, a, l, <<>>, Bytes) /\ v \in Text /\ Len(v) = Len(u) - l
    <2>1. <<>> \in Text /\ Len(<<>>) = 0
      BY DEF Text
    <2>2. MaxRange(r) <= Len(u)
      BY DEF r
    <2>3. Spliced(v, u, a, l, <<>>, Bytes) /\ v \in Text /\ Len(v) = Len(u) - l + Len(<<>>)
      BY <1>3, <2>1, <2>2, ReplacedIs DEF a, l, v
    <2>4. Len(u) - l + 0 = Len(u) - l
      BY <1>1, <1>4
    <2> QED BY <2>1, <2>3, <2>4
  <1>6. Positions(r) = a .. (a + l) - 1
    BY <1>4 DEF Positions, a, l
  <1>7. PICK at : /\ KeptAt(u, t, P, at)
                  /\ \A b \in Nat : b <= Len(t) /\ (\A k \in i + 2 .. n : b <= rs[k].location)
                        => b <= Len(u) /\ InPlace(at, b)
    <2>1. (i + 1) + 1 = i + 2
      BY <1>2
    <2> QED BY <2>1 DEF Remains, P
  <1>8. InPlace(at, a + l)
    <2>1. \A k \in i + 2 .. n : a + l <= rs[k].location
      BY <1>1, <1>2, <1>4 DEF Ordered, r
    <2>2. a + l \in Nat
      BY <1>4
    <2> QED BY <1>4, <1>7, <2>1, <2>2
  <1>9. Without(Q, P, t, a, l)
    <2> USE DEF Without
    <2> TAKE j \in DOMAIN t
    <2>1. j \in Nat
      BY <1>1
    <2>2. j - 1 \in Positions(r) <=> j \in a + 1 .. a + l
      BY <1>4, <1>6, <2>1
    <2>3. j \in Q <=> \A k \in i + 1 .. n : j - 1 \notin Positions(rs[k])
      BY DEF Uncovered, Q
    <2>4. j \in P <=> \A k \in i + 2 .. n : j - 1 \notin Positions(rs[k])
      <3>1. (i + 1) + 1 = i + 2
        BY <1>2
      <3> QED BY <3>1 DEF Uncovered, P
    <2>5. \A k : k \in i + 1 .. n <=> k = i + 1 \/ k \in i + 2 .. n
      <3> HIDE DEF n
      <3> QED BY <1>1, <1>2
    <2> HIDE DEF n
    <2> QED BY <2>2, <2>3, <2>4, <2>5 DEF r
  <1> HIDE DEF n
  <1>10. PICK bt : KeptAt(v, t, Q, bt) /\ InPlace(bt, a)
    <2>1. t \in Seq(Bytes) /\ u \in Seq(Bytes) /\ KeptAt(u, t, P, at)
      BY <1>1, <1>7
    <2>2. a \in Nat /\ l \in Nat /\ a + l <= Len(u) /\ Spliced(v, u, a, l, <<>>, Bytes)
      BY <1>4, <1>5
    <2> QED BY <1>8, <1>9, <2>1, <2>2, KeptLess
  <1>11. ASSUME NEW b \in Nat, b <= Len(t), \A k \in i + 1 .. n : b <= rs[k].location
         PROVE  b <= Len(v) /\ InPlace(bt, b)
    <2>1. i + 1 \in i + 1 .. n
      BY <1>1, <1>2
    <2>2. b <= a
      BY <1>11, <2>1 DEF a, r
    <2>3. b <= Len(v)
      BY <1>1, <1>4, <1>5, <2>2
    <2>4. \A k \in 1 .. b : k \in 1 .. a
      BY <1>4, <2>2
    <2> QED BY <1>10, <2>3, <2>4 DEF InPlace
  <1> QED BY <1>10, <1>11 DEF Remains, Q, n, v, r

\* Deleting ranges leaves the bytes that are not in them, in their order.
LEMMA DeletedKept ==
  ASSUME NEW t \in Text, NEW rs \in Seq(HFRange), Ordered(rs), EndBy(rs, Len(t))
  PROVE  DeleteRanges(t, rs) \in Text /\ Remains(DeleteRanges(t, rs), t, rs, 0)
  <1> DEFINE n == Len(rs)
  <1>1. n \in Nat /\ DOMAIN rs = 1 .. n
    BY SeqFacts
  <1>2. PICK f : Deletes(f, t, rs) /\ DeleteRanges(t, rs) = f[0]
    BY DeletedIs
  <1>3. /\ f \in [0 .. n -> Text] /\ f[n] = t
        /\ \A i \in 0 .. n - 1 : /\ MaxRange(rs[i + 1]) <= Len(f[i + 1])
                                 /\ f[i] = Replaced(f[i + 1], rs[i + 1], <<>>)
    BY <1>2 DEF Deletes
  <1>4. Remains(t, t, rs, n)
    <2> DEFINE l == Len(t)
               at == [k \in 1 .. l |-> k]
    <2>1. l \in Nat /\ DOMAIN t = 1 .. l
      BY SeqFacts DEF Text
    <2>2. \A k : k \notin n + 1 .. n
      BY <1>1
    <2>3. Uncovered(t, rs, n) = DOMAIN t
      BY <2>2 DEF Uncovered
    <2>4. KeptAt(t, t, DOMAIN t, at)
      BY <2>1 DEF KeptAt
    <2>5. \A b \in Nat : b <= l => InPlace(at, b)
      BY <2>1 DEF InPlace
    <2> HIDE DEF at
    <2> QED BY <2>3, <2>4, <2>5 DEF Remains
  <1> DEFINE T == {i \in 0 .. n : Remains(f[i], t, rs, i)}
  <1>5. ASSUME NEW i \in 0 .. n - 1, i + 1 \in T PROVE i \in T
    <2>1. i \in 0 .. n /\ i + 1 \in 0 .. n
      BY <1>1
    <2>2. f[i + 1] \in Text /\ Remains(f[i + 1], t, rs, i + 1) /\ MaxRange(rs[i + 1]) <= Len(f[i + 1])
      BY <1>3, <1>5, <2>1
    <2>3. Remains(Replaced(f[i + 1], rs[i + 1], <<>>), t, rs, i)
      BY <2>2, RemainsLess
    <2> QED BY <1>3, <2>1, <2>3
  <1>6. n \in T
    BY <1>1, <1>3, <1>4
  <1>7. 0 \in T
    <2> HIDE DEF T
    <2>1. \A i \in 0 .. n : i \in T
      BY <1>1, <1>5, <1>6, DownFrom
    <2> QED BY <1>1, <2>1
  <1>8. f[0] \in Text
    BY <1>1, <1>3
  <1> QED BY <1>2, <1>7, <1>8

\* Every range that is not empty is among those that are not.
LEMMA NotEmptyKeeps ==
  ASSUME NEW rs \in Seq(HFRange), NEW i \in DOMAIN rs, rs[i].length > 0
  PROVE  \E k \in DOMAIN NotEmpty(rs) : NotEmpty(rs)[k] = rs[i]
  <1> DEFINE q == NotEmpty(rs)
             P == Filled(rs)
  <1>1. q = Kept(rs, P)
    BY DEF NotEmpty
  <1>2. q \in Seq(HFRange) /\ \E at : KeptAt(q, rs, P, at)
    BY <1>1, KeptIs
  <1> HIDE DEF q
  <1>3. PICK at : KeptAt(q, rs, P, at)
    BY <1>2
  <1>4. i \in P
    BY DEF Filled
  <1>5. PICK k \in 1 .. Len(q) : at[k] = i
    BY <1>3, <1>4 DEF KeptAt
  <1>6. DOMAIN q = 1 .. Len(q)
    BY <1>2, SeqFacts
  <1>7. q[k] = rs[i]
    BY <1>3, <1>5 DEF KeptAt
  <1> QED BY <1>5, <1>6, <1>7 DEF q

\* Behind the start of the first range, the positions that are not selected are
\* the ones behind the first range that no other range covers.
LEMMA UnselectedBehind ==
  ASSUME Inv, NEW j \in Nat, j > 0
  PROVE  LET all == organizeAndMergeRanges(selection)
             others == NotEmpty(Tail(all))
         IN  j > all[1].location /\ j - 1 \notin Selected
             <=> /\ j > MaxRange(all[1])
                 /\ \A k \in 1 .. Len(others) : j - 1 \notin Positions(others[k])
  <1> DEFINE all == organizeAndMergeRanges(selection)
             n == Len(all)
             tail == Tail(all)
             others == NotEmpty(tail)
             x == j - 1
             a == all[1].location
             e == MaxRange(all[1])
  <1>1. /\ selection \in Seq(HFRange) /\ Ordered(selection)
        /\ DOMAIN selection = 1 .. Len(selection)
    BY SeqFacts DEF Inv, TypeInv, Usable
  <1>2. \A y : Covers(all, n, y) <=> Covers(selection, Len(selection), y)
    BY <1>1, OrganizedCovers
  <1>3. Usable(all, Len(text))
    BY OthersDeleted
  <1> HIDE DEF all
  <1>4. x \in Selected <=> \E k \in 1 .. n : x \in Positions(all[k])
    <2>1. x \in Selected <=> \E k \in 1 .. Len(selection) : x \in Positions(selection[k])
      <3> HIDE DEF x
      <3> QED BY <1>1 DEF Selected
    <2> HIDE DEF n, x
    <2> QED BY <1>2, <2>1 DEF Covers
  <1>5. /\ all \in Seq(HFRange) /\ all # <<>> /\ Ordered(all) /\ EndBy(all, Len(text))
        /\ n \in Nat /\ n > 0 /\ DOMAIN all = 1 .. n /\ \A k \in 1 .. n : all[k] \in HFRange
    <2>1. all \in Seq(HFRange) /\ all # <<>> /\ Ordered(all) /\ EndBy(all, Len(text))
      BY <1>3 DEF Usable
    <2> QED BY <2>1, SeqFacts
  <1>6. all[1] \in HFRange /\ 1 \in 1 .. n
    BY <1>5
  <1>7. Positions(all[1]) = a .. e - 1 /\ a \in Nat /\ e \in Nat /\ a <= e
    BY <1>6, RangeFacts DEF Positions
  <1>8. /\ tail \in Seq(HFRange) /\ Ordered(tail) /\ EndBy(tail, Len(text))
        /\ Len(tail) = n - 1 /\ DOMAIN tail = 1 .. n - 1
        /\ \A k \in 1 .. n - 1 : tail[k] = all[k + 1]
    <2>1. Len(tail) = n - 1 /\ \A k \in 1 .. Len(tail) : tail[k] = all[k + 1]
      BY <1>5, HeadTailProperties
    <2>2. tail \in Seq(HFRange) /\ Ordered(tail) /\ EndBy(tail, Len(text))
      BY <1>5, TailIs
    <2>3. DOMAIN tail = 1 .. Len(tail)
      BY <2>2, SeqFacts
    <2> HIDE DEF tail, n
    <2> QED BY <2>1, <2>2, <2>3
  <1> HIDE DEF tail, n
  <1>9. /\ others \in Seq(HFRange) /\ DOMAIN others = 1 .. Len(others)
        /\ \A k \in DOMAIN others : \E i \in DOMAIN tail : others[k] = tail[i]
    <2>1. /\ others \in Seq(HFRange)
          /\ \A k \in DOMAIN others : \E i \in DOMAIN tail : others[k] = tail[i]
      BY <1>8, NotEmptyIs
    <2> HIDE DEF others
    <2> QED BY <2>1, SeqFacts
  <1>10. \A i \in DOMAIN tail : tail[i].length > 0
             => \E k \in DOMAIN others : others[k] = tail[i]
    BY <1>8, NotEmptyKeeps
  <1> HIDE DEF others
  <1>11. x \in Nat /\ j = x + 1
    OBVIOUS
  <1>12. j > a /\ (x \notin Selected) <=>
             /\ j > e
             /\ \A k \in 1 .. Len(others) : x \notin Positions(others[k])
    <2> HIDE DEF x, a, e
    <2>1. ASSUME j > a, x \notin Selected
          PROVE  j > e /\ \A k \in 1 .. Len(others) : x \notin Positions(others[k])
      <3>1. x \notin Positions(all[1])
        BY <1>4, <1>6, <2>1
      <3>2. j > e
        BY <1>7, <1>11, <2>1, <3>1
      <3>3. ASSUME NEW k \in 1 .. Len(others) PROVE x \notin Positions(others[k])
        <4>1. PICK i \in DOMAIN tail : others[k] = tail[i]
          BY <1>9
        <4>2. i + 1 \in 1 .. n /\ tail[i] = all[i + 1]
          BY <1>5, <1>8
        <4> QED BY <1>4, <2>1, <4>1, <4>2
      <3> QED BY <3>2, <3>3
    <2>2. ASSUME j > e, \A k \in 1 .. Len(others) : x \notin Positions(others[k])
          PROVE  j > a /\ (x \notin Selected)
      <3>1. j > a /\ x >= e
        BY <1>7, <1>11, <2>2
      <3>2. ASSUME NEW k \in 1 .. n, x \in Positions(all[k]) PROVE FALSE
        <4>1. k # 1
          BY <1>7, <1>11, <3>1, <3>2
        <4> DEFINE i == k - 1
        <4>2. i \in DOMAIN tail /\ i \in 1 .. n - 1 /\ i + 1 = k
          BY <1>5, <1>8, <4>1
        <4> HIDE DEF i
        <4>3. tail[i] = all[k]
          BY <1>8, <4>2
        <4>4. all[k] \in HFRange
          BY <1>5
        <4>5. all[k].length > 0
          BY <1>11, <3>2, <4>4, RangeFacts DEF Positions
        <4>6. PICK h \in DOMAIN others : others[h] = tail[i]
          BY <1>10, <4>2, <4>3, <4>5
        <4> QED BY <1>9, <2>2, <3>2, <4>3, <4>6
      <3> QED BY <1>4, <3>1, <3>2
    <2> QED BY <2>1, <2>2
  <1> QED BY <1>12 DEF x, a, e, others, tail, all

\* What is behind the first range once the others are deleted is what is not
\* selected.
LEMMA UnselectedLeft ==
  ASSUME Inv
  PROVE  LET all == organizeAndMergeRanges(selection)
             others == NotEmpty(Tail(all))
             u == DeleteRanges(text, others)
         IN  SubSeq(u, MaxRange(all[1]) + 1, Len(u)) = UnselectedFrom(all[1].location)
  <1> DEFINE all == organizeAndMergeRanges(selection)
             others == NotEmpty(Tail(all))
             u == DeleteRanges(text, others)
             a == all[1].location
             b == MaxRange(all[1])
             P == Uncovered(text, others, 0)
             Q == {i \in DOMAIN text : i > a /\ i - 1 \notin Selected}
             v == SubSeq(u, b + 1, Len(u))
  <1>1. /\ all[1] \in HFRange /\ Usable(all, Len(text))
        /\ others \in Seq(HFRange) /\ Ordered(others) /\ EndBy(others, Len(text))
        /\ \A k \in DOMAIN others : MaxRange(all[1]) <= others[k].location
    BY OthersDeleted
  <1>2. \A j \in Nat : j > 0 =>
            (j > a /\ j - 1 \notin Selected
             <=> j > b /\ \A k \in 1 .. Len(others) : j - 1 \notin Positions(others[k]))
    BY UnselectedBehind
  <1>3. text \in Text /\ text \in Seq(Bytes)
    BY DEF Inv, TypeInv, Text
  <1> HIDE DEF all, others, u, v, a, b, P, Q
  <1>4. b \in Nat /\ b <= Len(text)
    <2>1. /\ all \in Seq(HFRange) /\ all # <<>> /\ EndBy(all, Len(text))
      BY <1>1 DEF Usable
    <2>2. 1 \in DOMAIN all
      BY <2>1, SeqFacts
    <2> QED BY <1>1, <2>1, <2>2, RangeFacts DEF b, EndBy
  <1>5. u \in Text /\ u \in Seq(Bytes) /\ Remains(u, text, others, 0)
    BY <1>1, <1>3, DeletedKept DEF u, Text
  <1>6. PICK at : /\ KeptAt(u, text, P, at)
                  /\ \A c \in Nat : c <= Len(text) /\ (\A k \in 1 .. Len(others) : c <= others[k].location)
                        => c <= Len(u) /\ InPlace(at, c)
    BY <1>5 DEF Remains, P
  <1>7. b <= Len(u) /\ InPlace(at, b)
    <2>1. DOMAIN others = 1 .. Len(others)
      BY <1>1, SeqFacts
    <2>2. \A k \in 1 .. Len(others) : b <= others[k].location
      BY <1>1, <2>1 DEF b
    <2> QED BY <1>4, <1>6, <2>2
  <1>8. \A j \in DOMAIN text : j \in Q <=> j \in P /\ j > b
    <2> TAKE j \in DOMAIN text
    <2>1. j \in Nat /\ j > 0
      BY <1>3, SeqFacts
    <2>2. j \in Q <=> j > a /\ j - 1 \notin Selected
      BY DEF Q
    <2>3. j \in P <=> \A k \in 1 .. Len(others) : j - 1 \notin Positions(others[k])
      BY DEF P, Uncovered
    <2>4. j > a /\ j - 1 \notin Selected
             <=> j > b /\ \A k \in 1 .. Len(others) : j - 1 \notin Positions(others[k])
      BY <1>2, <2>1 DEF a, b, others, all
    <2> QED BY <2>2, <2>3, <2>4
  <1>9. v \in Seq(Bytes) /\ \E bt : KeptAt(v, text, Q, bt)
    BY <1>3, <1>4, <1>5, <1>6, <1>7, <1>8, KeptBehind DEF v
  <1>10. Kept(text, Q) \in Seq(Bytes) /\ \E bt : KeptAt(Kept(text, Q), text, Q, bt)
    BY <1>3, KeptIs
  <1>11. v = Kept(text, Q)
    <2> DEFINE w == Kept(text, Q)
    <2> HIDE DEF w
    <2>1. w \in Seq(Bytes) /\ \E bt : KeptAt(w, text, Q, bt)
      BY <1>10 DEF w
    <2>2. v = w
      BY <1>3, <1>9, <2>1, KeptOnce
    <2> QED BY <2>2 DEF w
  <1> QED BY <1>11 DEF v, u, Q, a, b, others, all, UnselectedFrom

\* Pasting in insert mode replaces the selection.
LEMMA PastedIs ==
  ASSUME Inv, NEW bytes \in Text
  PROVE  insertionModeCore(Here, bytes, 0, FALSE).text
            = SubSeq(text, 1, selection[1].location) \o bytes
                    \o UnselectedFrom(selection[1].location)
  <1> DEFINE here == Here.selection
             all == organizeAndMergeRanges(here)
             others == NotEmpty(Tail(all))
             e == [RegisterCondemnedRanges(Here, others)
                     EXCEPT !.text = DeleteRanges(@, others)]
             first == all[1]
             point == first.location - 0
             l == Len(bytes)
             started == CoalesceReplacing(e, RangeMake(point, 0), 0)
             begun == endTypingUndoCoalescing(started)
             typed == CoalesceReplacing(begun, RangeMake(point, first.length), l)
             coalesced == endTypingUndoCoalescing(typed)
             r == RangeMake(point, first.length + 0)
             u == insertionModeCore(Here, bytes, 0, FALSE)
             a == selection[1].location
  <1>1. u = [coalesced EXCEPT !.text = Replaced(@, r, bytes),
                              !.selection = <<RangeMake(point + l, 0)>>]
    BY DEF insertionModeCore
  <1>2. here = selection
    BY DEF Here
  <1>3. /\ first.location = a /\ first \in HFRange /\ e \in Editor
        /\ MaxRange(first) <= Len(e.text)
        /\ e.text = DeleteRanges(text, others) /\ Begins(e.text, text, MaxRange(first))
    <2> HIDE DEF here
    <2> QED BY <1>2, OthersDeleted
  <1>4. SubSeq(e.text, MaxRange(first) + 1, Len(e.text)) = UnselectedFrom(a)
    <2>1. LET d == DeleteRanges(text, others)
          IN  SubSeq(d, MaxRange(first) + 1, Len(d)) = UnselectedFrom(first.location)
      <3> HIDE DEF here
      <3> QED BY <1>2, UnselectedLeft
    <2> HIDE DEF e, first, others, a
    <2> QED BY <1>3, <2>1
  <1> HIDE DEF here, all, others, e, first, u, a
  <1>5. /\ first.location \in Nat /\ first.length \in Nat /\ l \in Nat
        /\ first = RangeMake(first.location, first.length)
        /\ MaxRange(first) = first.location + first.length
    BY <1>3, RangeFacts, LenProperties DEF Text
  <1>6. point = first.location /\ first.length + 0 = first.length
    BY <1>5
  <1>7. RangeMake(point, first.length) = first /\ r = first
    BY <1>5, <1>6
  <1>8. started = e
    <2> DEFINE caret == RangeMake(point, 0)
    <2>1. caret.length = 0
      BY DEF RangeMake
    <2> HIDE DEF caret
    <2>2. CoalesceReplacing(e, caret, 0) = e
      BY <2>1 DEF CoalesceReplacing
    <2> QED BY <2>2 DEF caret
  <1> HIDE DEF started, r, l
  <1>9. begun \in Editor /\ begun.text = e.text
    BY <1>3, <1>8, EndIs
  <1> HIDE DEF begun
  <1>10. typed = CoalesceReplacing(begun, first, l)
    BY <1>7
  <1> HIDE DEF typed
  <1>11. typed \in Editor /\ typed.text = e.text
    <2>1. CASE l > 0 \/ first.length > 0
      <3>1. IsTyped(CoalesceReplacing(begun, first, l), begun,
                    first.location, first.location + l)
        BY <1>3, <1>5, <1>9, <2>1, ReplacingTyped
      <3> QED BY <1>9, <1>10, <3>1 DEF IsTyped
    <2>2. CASE ~ (l > 0 \/ first.length > 0)
      <3>1. l = 0 /\ first.length = 0
        BY <1>5, <2>2
      <3>2. typed = begun
        BY <1>10, <3>1 DEF CoalesceReplacing
      <3> QED BY <1>9, <3>2
    <2> QED BY <2>1, <2>2
  <1>12. coalesced \in Editor /\ coalesced.text = e.text
    BY <1>11, EndIs
  <1> HIDE DEF coalesced
  <1>13. u.text = Replaced(e.text, first, bytes)
    BY <1>1, <1>7, <1>12 DEF Editor
  <1>14. SubSeq(e.text, 1, a) = SubSeq(text, 1, a)
    <2> DEFINE t == e.text
    <2>1. t \in Seq(Bytes) /\ text \in Seq(Bytes) /\ Len(t) \in Nat /\ Len(text) \in Nat
      BY <1>3, LenProperties DEF Editor, Inv, TypeInv, Text
    <2>2. a \in Nat /\ a <= MaxRange(first)
      BY <1>3, <1>5
    <2>3. MaxRange(first) <= Len(t) /\ \A i \in 1 .. MaxRange(first) : t[i] = text[i]
      BY <1>3 DEF Begins
    <2>4. a <= Len(t) /\ MaxRange(first) \in Nat
      BY <1>5, <2>1, <2>2, <2>3
    <2>5. a <= Len(text)
      <3>1. selection \in Seq(HFRange) /\ selection # <<>> /\ EndBy(selection, Len(text))
        BY DEF Inv, TypeInv, Usable
      <3>2. 1 \in DOMAIN selection /\ selection[1] \in HFRange
        BY <3>1, SeqFacts
      <3>3. MaxRange(selection[1]) <= Len(text)
        BY <3>1, <3>2 DEF EndBy
      <3> QED BY <2>1, <3>2, <3>3, RangeFacts DEF a
    <2> HIDE DEF t
    <2>6. /\ Part(t, 0, a) \in Seq(Bytes) /\ Len(Part(t, 0, a)) = a
          /\ \A i \in 1 .. a : Part(t, 0, a)[i] = t[0 + i]
      <3>1. 0 + a <= Len(t) /\ 0 \in Nat
        BY <2>2, <2>4
      <3> QED BY <2>1, <2>2, <3>1, PartIs
    <2>7. /\ Part(text, 0, a) \in Seq(Bytes) /\ Len(Part(text, 0, a)) = a
          /\ \A i \in 1 .. a : Part(text, 0, a)[i] = text[0 + i]
      <3>1. 0 + a <= Len(text) /\ 0 \in Nat
        BY <2>2, <2>5
      <3> QED BY <2>1, <2>2, <3>1, PartIs
    <2>8. \A i \in 1 .. a : 0 + i = i /\ t[i] = text[i]
      BY <2>2, <2>3, <2>4
    <2>9. Part(t, 0, a) = Part(text, 0, a)
      BY <2>2, <2>6, <2>7, <2>8, SeqEqual
    <2>10. Part(t, 0, a) = SubSeq(t, 1, a) /\ Part(text, 0, a) = SubSeq(text, 1, a)
      BY <2>2 DEF Part
    <2> QED BY <2>9, <2>10 DEF t
  <1> QED BY <1>3, <1>4, <1>13, <1>14 DEF Replaced, u, a

\* A step that pastes.
LEMMA PasteReplaces ==
  ASSUME Inv, NEW bytes \in Pasted, editMode = "Insert", paste(bytes)
  PROVE  text' = SubSeq(text, 1, selection[1].location) \o bytes
                        \o UnselectedFrom(selection[1].location)
  <1>1. bytes \in Text
    BY ControllerUndoAssumption DEF Text
  <1> DEFINE u == insertionModeCore(Here, bytes, 0, FALSE)
  <1>2. Become(insertByteArray(bytes, 0, FALSE))
    BY DEF paste
  <1>3. insertByteArray(bytes, 0, FALSE) = u
    BY DEF insertByteArray
  <1> HIDE DEF u
  <1>4. text' = u.text
    BY <1>2, <1>3 DEF Become
  <1> QED BY <1>1, <1>4, PastedIs DEF u

-----------------------------------------------------------------------------
(* Theorem: pasting *)

\* In insert mode what is pasted takes the place of exactly the selected
\* bytes, however many ranges are selected (insertionModeCore).
THEOREM PasteTakesPlace == Spec => PasteReplacesSelection
  <1>1. Inv /\ [Next]_vars
        => [\A bytes \in Pasted : editMode = "Insert" /\ paste(bytes)
              => text' = SubSeq(text, 1, selection[1].location) \o bytes
                            \o UnselectedFrom(selection[1].location)]_vars
    BY PasteReplaces
  <1> QED BY <1>1, Invariant, PTL DEF Spec, PasteReplacesSelection
=============================================================================
