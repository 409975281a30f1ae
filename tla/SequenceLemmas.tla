--------------------------- MODULE SequenceLemmas ---------------------------
(***************************************************************************)
(* What the proofs about texts, histories and lists of ranges share:       *)
(* induction over the natural numbers in the form of sets and functions    *)
(* (the library's induction theorems speak of operators, which the provers *)
(* cannot instantiate), and parts of sequences that are replaced.          *)
(***************************************************************************)
EXTENDS Integers, SequenceTheorems, WellFoundedInduction, TLAPS

-----------------------------------------------------------------------------
(* Induction *)

\* Every set of natural numbers that is not empty has a least element.
LEMMA LeastElement ==
  ASSUME NEW T \in SUBSET Nat, T # {}
  PROVE  \E m \in T : \A n \in T : m <= n
  <1> DEFINE R == OpToRel(<, Nat)
  <1>1. \A x, y \in Nat : <<x, y>> \in R <=> x < y
    BY DEF OpToRel
  <1>2. IsWellFoundedOn(R, Nat)
    BY NatLessThanWellFounded
  <1> HIDE DEF R
  <1>3. T \subseteq Nat
    OBVIOUS
  <1>4. \E x \in T : \A y \in T : ~ (<<y, x>> \in R)
    BY <1>2, <1>3, WFMin
  <1>5. PICK m \in T : \A n \in T : ~ (<<n, m>> \in R)
    BY <1>4
  <1>6. \A n \in T : m <= n
    <2> TAKE n \in T
    <2>1. m \in Nat /\ n \in Nat
      OBVIOUS
    <2>2. ~ (n < m)
      BY <1>1, <1>5, <2>1
    <2> QED BY <2>1, <2>2
  <1> QED BY <1>6

\* A set has 0 to n if it has 0 and with each of them the next one.
LEMMA UpTo ==
  ASSUME NEW n \in Nat, NEW T, 0 \in T,
         \A i \in 1 .. n : i - 1 \in T => i \in T
  PROVE  \A i \in 0 .. n : i \in T
  <1> DEFINE U == {i \in 0 .. n : i \notin T}
  <1>1. SUFFICES ASSUME U # {} PROVE FALSE
    OBVIOUS
  <1>2. U \in SUBSET Nat
    OBVIOUS
  <1>3. PICK m \in U : \A i \in U : m <= i
    <2> HIDE DEF U
    <2> QED BY <1>1, <1>2, LeastElement
  <1>4. m \in 1 .. n /\ m - 1 \in T
    BY <1>3
  <1> QED BY <1>3, <1>4

\* The same from n down to 0.
LEMMA DownFrom ==
  ASSUME NEW n \in Nat, NEW T, n \in T,
         \A i \in 0 .. n - 1 : i + 1 \in T => i \in T
  PROVE  \A i \in 0 .. n : i \in T
  <1> DEFINE V == {i \in 0 .. n : n - i \in T}
  <1>1. 0 \in V
    OBVIOUS
  <1>2. \A i \in 1 .. n : i - 1 \in V => i \in V
    <2> TAKE i \in 1 .. n
    <2> HAVE i - 1 \in V
    <2>1. n - i \in 0 .. n - 1 /\ (n - i) + 1 = n - (i - 1)
      OBVIOUS
    <2> QED BY <2>1
  <1>3. \A i \in 0 .. n : i \in V
    <2> HIDE DEF V
    <2> QED BY <1>1, <1>2, UpTo
  <1>4. \A i \in 0 .. n : n - i \in 0 .. n /\ n - (n - i) = i
    OBVIOUS
  <1> QED BY <1>3, <1>4

\* Two functions that begin alike and go on alike are alike.
LEMMA SameUpTo ==
  ASSUME NEW n \in Nat, NEW f, NEW g, f[0] = g[0],
         \A i \in 1 .. n : f[i - 1] = g[i - 1] => f[i] = g[i]
  PROVE  \A i \in 0 .. n : f[i] = g[i]
  <1> DEFINE T == {i \in 0 .. n : f[i] = g[i]}
  <1>1. 0 \in T /\ \A i \in 1 .. n : i - 1 \in T => i \in T
    OBVIOUS
  <1> HIDE DEF T
  <1>2. \A i \in 0 .. n : i \in T
    BY <1>1, UpTo
  <1> QED BY <1>2 DEF T

\* The same from the end.
LEMMA SameDownFrom ==
  ASSUME NEW n \in Nat, NEW f, NEW g, f[n] = g[n],
         \A i \in 0 .. n - 1 : f[i + 1] = g[i + 1] => f[i] = g[i]
  PROVE  \A i \in 0 .. n : f[i] = g[i]
  <1> DEFINE T == {i \in 0 .. n : f[i] = g[i]}
  <1>1. n \in T /\ \A i \in 0 .. n - 1 : i + 1 \in T => i \in T
    OBVIOUS
  <1> HIDE DEF T
  <1>2. \A i \in 0 .. n : i \in T
    BY <1>1, DownFrom
  <1> QED BY <1>2 DEF T

\* f are the results of steps taken one after the other.
Iterated(f, n, S, base, step) ==
    /\ f \in [0 .. n -> S] /\ f[0] = base
    /\ \A i \in 1 .. n : f[i] = step[i][f[i - 1]]

\* There are such results for any steps.
LEMMA Iterates ==
  ASSUME NEW n \in Nat, NEW S, NEW base \in S, NEW step \in [1 .. n -> [S -> S]]
  PROVE  \E f : Iterated(f, n, S, base, step)
  <1> DEFINE Good(f, k) == /\ f \in [0 .. n -> S] /\ f[0] = base
                           /\ \A i \in 1 .. k : f[i] = step[i][f[i - 1]]
             T == {k \in 0 .. n : \E f \in [0 .. n -> S] : Good(f, k)}
  <1>1. 0 \in T
    <2> DEFINE h == [i \in 0 .. n |-> base]
    <2>1. h \in [0 .. n -> S] /\ Good(h, 0)
      OBVIOUS
    <2> HIDE DEF Good, h
    <2> QED BY <2>1
  <1>2. \A k \in 1 .. n : k - 1 \in T => k \in T
    <2> TAKE k \in 1 .. n
    <2> HAVE k - 1 \in T
    <2>1. PICK f \in [0 .. n -> S] : Good(f, k - 1)
      OBVIOUS
    <2> DEFINE g == [f EXCEPT ![k] = step[k][f[k - 1]]]
    <2>2. step[k][f[k - 1]] \in S
      BY <2>1
    <2>3. /\ g \in [0 .. n -> S] /\ g[k] = step[k][f[k - 1]]
          /\ \A i \in 0 .. n : i # k => g[i] = f[i]
      BY <2>1, <2>2
    <2>4. Good(g, k)
      <3> HIDE DEF g
      <3>1. g \in [0 .. n -> S] /\ g[0] = base
        BY <2>1, <2>3
      <3>2. \A i \in 1 .. k : g[i] = step[i][g[i - 1]]
        <4> TAKE i \in 1 .. k
        <4>1. i - 1 \in 0 .. n /\ i - 1 # k /\ i \in 0 .. n
          OBVIOUS
        <4>2. g[i - 1] = f[i - 1]
          BY <2>3, <4>1
        <4>3. CASE i = k
          BY <2>3, <4>2, <4>3
        <4>4. CASE i # k
          <5>1. i \in 1 .. k - 1
            BY <4>4
          <5> QED BY <2>1, <2>3, <4>1, <4>2, <4>4, <5>1
        <4> QED BY <4>3, <4>4
      <3> QED BY <3>1, <3>2
    <2>5. g \in [0 .. n -> S]
      BY <2>3
    <2> HIDE DEF Good, g
    <2> QED BY <2>4, <2>5
  <1> HIDE DEF T
  <1>3. n \in T
    <2>1. \A k \in 0 .. n : k \in T
      BY <1>1, <1>2, UpTo
    <2> QED BY <2>1
  <1> QED BY <1>3 DEF T, Iterated

\* And for steps taken from the last one to the first.
IteratedBack(g, n, S, base, step) ==
    /\ g \in [0 .. n -> S] /\ g[n] = base
    /\ \A i \in 0 .. n - 1 : g[i] = step[i + 1][g[i + 1]]

\* And from the last one back.
LEMMA IteratesBack ==
  ASSUME NEW n \in Nat, NEW S, NEW base \in S, NEW step \in [1 .. n -> [S -> S]]
  PROVE  \E g : IteratedBack(g, n, S, base, step)
  <1> DEFINE back == [i \in 1 .. n |-> step[n - i + 1]]
  <1>1. back \in [1 .. n -> [S -> S]] /\ \A i \in 1 .. n : back[i] = step[n - i + 1]
    <2>1. \A i \in 1 .. n : n - i + 1 \in 1 .. n
      OBVIOUS
    <2> QED BY <2>1
  <1> HIDE DEF back
  <1>2. PICK f : Iterated(f, n, S, base, back)
    BY <1>1, Iterates
  <1>3. /\ f \in [0 .. n -> S] /\ f[0] = base
        /\ \A i \in 1 .. n : f[i] = back[i][f[i - 1]]
    BY <1>2 DEF Iterated
  <1> DEFINE g == [i \in 0 .. n |-> f[n - i]]
  <1>4. g \in [0 .. n -> S] /\ g[n] = base /\ \A i \in 0 .. n : g[i] = f[n - i]
    <2>1. \A i \in 0 .. n : n - i \in 0 .. n
      OBVIOUS
    <2>2. n \in 0 .. n /\ n - n = 0
      OBVIOUS
    <2> QED BY <1>3, <2>1, <2>2
  <1> HIDE DEF g
  <1>5. \A i \in 0 .. n - 1 : g[i] = step[i + 1][g[i + 1]]
    <2> TAKE i \in 0 .. n - 1
    <2> DEFINE j == n - i
    <2>1. /\ j \in 1 .. n /\ n - j + 1 = i + 1 /\ j - 1 = n - (i + 1)
          /\ i \in 0 .. n /\ i + 1 \in 0 .. n
      OBVIOUS
    <2>2. g[i] = f[j] /\ g[i + 1] = f[j - 1]
      BY <1>4, <2>1
    <2> HIDE DEF j
    <2>3. f[j] = back[j][f[j - 1]] /\ back[j] = step[i + 1]
      BY <1>1, <1>3, <2>1
    <2> QED BY <2>2, <2>3
  <1>6. IteratedBack(g, n, S, base, step)
    BY <1>4, <1>5 DEF IteratedBack
  <1> QED BY <1>6

-----------------------------------------------------------------------------
(* Parts of sequences *)

\* n elements from at on, where the first element is at 0.
Part(t, at, n) == SubSeq(t, at + 1, at + n)

\* They are replaced by b.
Splice(t, at, n, b) == SubSeq(t, 1, at) \o b \o SubSeq(t, at + n + 1, Len(t))

\* The elements of a part.
LEMMA PartIs ==
  ASSUME NEW S, NEW t \in Seq(S), NEW at \in Nat, NEW n \in Nat, at + n <= Len(t)
  PROVE  /\ Part(t, at, n) \in Seq(S) /\ Len(Part(t, at, n)) = n
         /\ \A i \in 1 .. n : Part(t, at, n)[i] = t[at + i]
  <1>1. \A i \in at + 1 .. at + n : t[i] \in S
    <2> TAKE i \in at + 1 .. at + n
    <2>1. Len(t) \in Nat
      BY LenProperties
    <2>2. i \in 1 .. Len(t)
      BY <2>1
    <2> QED BY <2>2, ElementOfSeq
  <1>2. /\ SubSeq(t, at + 1, at + n) \in Seq(S)
        /\ Len(SubSeq(t, at + 1, at + n))
              = IF at + 1 <= at + n THEN at + n - (at + 1) + 1 ELSE 0
        /\ \A i \in 1 .. at + n - (at + 1) + 1 :
              SubSeq(t, at + 1, at + n)[i] = t[at + 1 + i - 1]
    <2>1. at + 1 \in Int /\ at + n \in Int
      OBVIOUS
    <2> QED BY <1>1, <2>1, SubSeqProperties
  <1>3. at + n - (at + 1) + 1 = n /\ \A i \in 1 .. n : at + 1 + i - 1 = at + i
    OBVIOUS
  <1> QED BY <1>2, <1>3 DEF Part

\* u is t with n elements from at on replaced by b.
Spliced(u, t, at, n, b, S) ==
    /\ u \in Seq(S) /\ Len(u) = Len(t) - n + Len(b)
    /\ \A i \in 1 .. at : u[i] = t[i]
    /\ \A i \in 1 .. Len(b) : u[at + i] = b[i]
    /\ \A i \in at + n + 1 .. Len(t) : u[i - n + Len(b)] = t[i]

\* The elements of a sequence of which a part is replaced.
LEMMA SpliceIs ==
  ASSUME NEW S, NEW t \in Seq(S), NEW at \in Nat, NEW n \in Nat, at + n <= Len(t),
         NEW b \in Seq(S)
  PROVE  Spliced(Splice(t, at, n, b), t, at, n, b, S)
  <1> DEFINE l == Len(t)
             x == Part(t, 0, at)
             z == Part(t, at + n, l - (at + n))
  <1>1. l \in Nat /\ Len(b) \in Nat
    BY LenProperties
  <1>2. /\ x \in Seq(S) /\ Len(x) = at
        /\ \A i \in 1 .. at : x[i] = t[i]
    <2>1. 0 + at <= Len(t)
      OBVIOUS
    <2>2. /\ x \in Seq(S) /\ Len(x) = at
          /\ \A i \in 1 .. at : x[i] = t[0 + i]
      BY <2>1, PartIs
    <2> QED BY <2>2
  <1>3. /\ z \in Seq(S) /\ Len(z) = l - (at + n)
        /\ \A i \in 1 .. l - (at + n) : z[i] = t[at + n + i]
    <2>1. at + n + (l - (at + n)) <= Len(t) /\ l - (at + n) \in Nat /\ at + n \in Nat
      BY <1>1
    <2> HIDE DEF l
    <2> QED BY <2>1, PartIs
  <1>4. Splice(t, at, n, b) = (x \o b) \o z
    <2>1. 0 + 1 = 1 /\ 0 + at = at /\ at + n + (l - (at + n)) = Len(t)
      BY <1>1
    <2> QED BY <2>1 DEF Splice, Part
  <1> HIDE DEF l, x, z
  <1>5. /\ x \o b \in Seq(S) /\ Len(x \o b) = at + Len(b)
        /\ \A i \in 1 .. at + Len(b) :
              (x \o b)[i] = IF i <= at THEN x[i] ELSE b[i - at]
    <2>1. /\ x \o b \in Seq(S) /\ Len(x \o b) = Len(x) + Len(b)
          /\ \A i \in 1 .. Len(x) + Len(b) :
                (x \o b)[i] = IF i <= Len(x) THEN x[i] ELSE b[i - Len(x)]
      BY <1>2, ConcatProperties
    <2> QED BY <1>2, <2>1
  <1> DEFINE y == x \o b
             m == at + Len(b)
             u == y \o z
  <1>6. /\ u \in Seq(S) /\ Len(u) = m + (l - (at + n))
        /\ \A i \in 1 .. m + (l - (at + n)) :
              u[i] = IF i <= m THEN y[i] ELSE z[i - m]
    <2>1. y \in Seq(S) /\ Len(y) = m
      BY <1>5
    <2> HIDE DEF y, m
    <2>2. /\ u \in Seq(S) /\ Len(u) = Len(y) + Len(z)
          /\ \A i \in 1 .. Len(y) + Len(z) :
                u[i] = IF i <= Len(y) THEN y[i] ELSE z[i - Len(y)]
      BY <1>3, <2>1, ConcatProperties, ZenonT(60)
    <2> QED BY <1>3, <2>1, <2>2
  <1>7. \A i \in 1 .. m : y[i] = IF i <= at THEN x[i] ELSE b[i - at]
    BY <1>5
  <1> HIDE DEF y, u
  <1>8. m = at + Len(b) /\ l = Len(t)
    BY DEF m, l
  <1> HIDE DEF m
  <1>9. \A i \in 1 .. at : u[i] = t[i]
    <2> TAKE i \in 1 .. at
    <2>1. i \in 1 .. m /\ i \in 1 .. m + (l - (at + n)) /\ i <= m /\ i <= at
      BY <1>1, <1>8
    <2>2. u[i] = y[i] /\ y[i] = x[i] /\ x[i] = t[i]
      BY <1>2, <1>6, <1>7, <2>1
    <2> QED BY <2>2
  <1>10. \A i \in 1 .. Len(b) : u[at + i] = b[i]
    <2> TAKE i \in 1 .. Len(b)
    <2>1. /\ at + i \in 1 .. m /\ at + i \in 1 .. m + (l - (at + n)) /\ at + i <= m
          /\ ~ (at + i <= at) /\ (at + i) - at = i
      BY <1>1, <1>8
    <2>2. u[at + i] = y[at + i]
      BY <1>6, <2>1
    <2>3. y[at + i] = b[(at + i) - at]
      BY <1>7, <2>1
    <2> QED BY <2>1, <2>2, <2>3
  <1>11. \A i \in at + n + 1 .. l : u[i - n + Len(b)] = t[i]
    <2> TAKE i \in at + n + 1 .. l
    <2> DEFINE j == i - n + Len(b)
               k == i - (at + n)
    <2>1. /\ j \in 1 .. m + (l - (at + n)) /\ ~ (j <= m) /\ j - m = k
          /\ k \in 1 .. l - (at + n) /\ at + n + k = i
      BY <1>1, <1>8
    <2> HIDE DEF j, k
    <2>2. u[j] = z[j - m]
      BY <1>6, <2>1
    <2>3. z[k] = t[at + n + k]
      BY <1>3, <2>1
    <2> QED BY <2>1, <2>2, <2>3 DEF j
  <1>12. Len(u) = Len(t) - n + Len(b)
    BY <1>1, <1>6, <1>8
  <1>13. Spliced(u, t, at, n, b, S)
    BY <1>6, <1>8, <1>9, <1>10, <1>11, <1>12 DEF Spliced
  <1> QED BY <1>4, <1>13 DEF u, y

\* What has been put in is there.
LEMMA SplicedPart ==
  ASSUME NEW S, NEW t \in Seq(S), NEW at \in Nat, NEW n \in Nat, at + n <= Len(t),
         NEW b \in Seq(S)
  PROVE  Part(Splice(t, at, n, b), at, Len(b)) = b
  <1> DEFINE u == Splice(t, at, n, b)
             m == Len(b)
             p == Part(u, at, m)
  <1>1. m \in Nat /\ Len(t) \in Nat
    BY LenProperties
  <1>2. Spliced(u, t, at, n, b, S)
    BY SpliceIs
  <1> HIDE DEF u
  <1>3. u \in Seq(S) /\ Len(u) = Len(t) - n + m /\ \A i \in 1 .. m : u[at + i] = b[i]
    BY <1>2 DEF Spliced
  <1>4. at + m <= Len(u)
    BY <1>1, <1>3
  <1> HIDE DEF m
  <1>5. p \in Seq(S) /\ Len(p) = m /\ \A i \in 1 .. m : p[i] = u[at + i]
    <2>1. u \in Seq(S) /\ m \in Nat
      BY <1>1, <1>3
    <2> QED BY <1>4, <2>1, PartIs
  <1> HIDE DEF p
  <1>6. p = b
    BY <1>3, <1>5, SeqEqual DEF m
  <1> QED BY <1>6 DEF p, u, m

\* u is v with other elements behind at, those of c.
Rewritten(u, v, at, c) ==
    /\ Len(u) = Len(v)
    /\ \A i \in 1 .. Len(c) : u[at + i] = c[i]
    /\ \A i \in 1 .. Len(u) : i <= at \/ i > at + Len(c) => u[i] = v[i]

\* Putting in the first of two sequences of the same length and then the other
\* one is putting in the other one.
LEMMA SpliceOver ==
  ASSUME NEW S, NEW t \in Seq(S), NEW at \in Nat, NEW n \in Nat, at + n <= Len(t),
         NEW b \in Seq(S), NEW c \in Seq(S), Len(b) = Len(c),
         NEW u \in Seq(S), Rewritten(u, Splice(t, at, n, b), at, c)
  PROVE  u = Splice(t, at, n, c)
  <1> DEFINE v == Splice(t, at, n, b)
             w == Splice(t, at, n, c)
             l == Len(t)
             m == Len(b)
  <1>1. m \in Nat /\ l \in Nat /\ m = Len(c)
    BY LenProperties
  <1>2. Spliced(v, t, at, n, b, S) /\ Spliced(w, t, at, n, c, S)
    BY SpliceIs
  <1>3. /\ Len(u) = Len(v) /\ \A i \in 1 .. m : u[at + i] = c[i]
        /\ \A i \in 1 .. Len(u) : i <= at \/ i > at + m => u[i] = v[i]
    BY <1>1 DEF Rewritten
  <1> HIDE DEF v, w
  <1>4. /\ v \in Seq(S) /\ Len(v) = l - n + m
        /\ \A i \in 1 .. at : v[i] = t[i]
        /\ \A i \in at + n + 1 .. l : v[i - n + m] = t[i]
    BY <1>2 DEF Spliced
  <1>5. /\ w \in Seq(S) /\ Len(w) = l - n + m
        /\ \A i \in 1 .. at : w[i] = t[i]
        /\ \A i \in 1 .. m : w[at + i] = c[i]
        /\ \A i \in at + n + 1 .. l : w[i - n + m] = t[i]
    <2>1. /\ w \in Seq(S) /\ Len(w) = Len(t) - n + Len(c)
          /\ \A i \in 1 .. at : w[i] = t[i]
          /\ \A i \in 1 .. Len(c) : w[at + i] = c[i]
          /\ \A i \in at + n + 1 .. Len(t) : w[i - n + Len(c)] = t[i]
      BY <1>2 DEF Spliced
    <2> QED BY <1>1, <2>1
  <1>6. at + n <= l
    OBVIOUS
  <1> HIDE DEF l, m
  <1>7. \A i \in 1 .. Len(u) : u[i] = w[i]
    <2> TAKE i \in 1 .. Len(u)
    <2>1. Len(u) = l - n + m
      BY <1>3, <1>4
    <2>2. CASE i <= at
      <3>1. i \in 1 .. at
        BY <2>2
      <3> QED BY <1>3, <1>4, <1>5, <2>2, <3>1
    <2>3. CASE at < i /\ i <= at + m
      <3> DEFINE j == i - at
      <3>1. j \in 1 .. m /\ at + j = i
        BY <1>1, <2>3
      <3> HIDE DEF j
      <3>2. u[at + j] = c[j] /\ w[at + j] = c[j]
        BY <1>3, <1>5, <3>1
      <3> QED BY <3>1, <3>2
    <2>4. CASE i > at + m
      <3> DEFINE j == i + n - m
      <3>1. j \in at + n + 1 .. l /\ j - n + m = i
        BY <1>1, <1>6, <2>1, <2>4
      <3> HIDE DEF j
      <3>2. v[i] = t[j] /\ w[i] = t[j]
        BY <1>4, <1>5, <3>1
      <3> QED BY <1>3, <2>4, <3>2
    <2> QED BY <1>1, <2>2, <2>3, <2>4
  <1>8. Len(u) = Len(w)
    BY <1>3, <1>4, <1>5
  <1>9. u = w
    BY <1>5, <1>7, <1>8, SeqEqual
  <1> QED BY <1>9 DEF w

\* What has been replaced can be put back.
LEMMA SpliceBack ==
  ASSUME NEW S, NEW t \in Seq(S), NEW at \in Nat, NEW n \in Nat, at + n <= Len(t),
         NEW b \in Seq(S)
  PROVE  Splice(Splice(t, at, n, b), at, Len(b), Part(t, at, n)) = t
  <1> DEFINE u == Splice(t, at, n, b)
             p == Part(t, at, n)
             l == Len(t)
             m == Len(b)
             v == Splice(u, at, m, p)
  <1>1. l \in Nat /\ m \in Nat
    BY LenProperties
  <1>2. /\ p \in Seq(S) /\ Len(p) = n
        /\ \A i \in 1 .. n : p[i] = t[at + i]
    BY PartIs
  <1>3. /\ u \in Seq(S) /\ Len(u) = l - n + m
        /\ \A i \in 1 .. at : u[i] = t[i]
        /\ \A i \in at + n + 1 .. l : u[i - n + m] = t[i]
    <2>1. Spliced(u, t, at, n, b, S)
      BY SpliceIs
    <2> HIDE DEF u
    <2> QED BY <2>1 DEF Spliced
  <1> HIDE DEF p, u
  <1>4. /\ v \in Seq(S) /\ Len(v) = Len(u) - m + Len(p)
        /\ \A i \in 1 .. at : v[i] = u[i]
        /\ \A i \in 1 .. Len(p) : v[at + i] = p[i]
        /\ \A i \in at + m + 1 .. Len(u) : v[i - m + Len(p)] = u[i]
    <2>1. at + m <= Len(u)
      BY <1>1, <1>3
    <2>2. m \in Nat /\ u \in Seq(S) /\ p \in Seq(S)
      BY <1>1, <1>2, <1>3
    <2> HIDE DEF m
    <2>3. Spliced(v, u, at, m, p, S)
      BY <2>1, <2>2, SpliceIs
    <2> HIDE DEF v
    <2> QED BY <2>3 DEF Spliced
  <1> HIDE DEF v, l, m
  <1>5. Len(v) = l
    BY <1>1, <1>2, <1>3, <1>4
  <1>6. \A i \in 1 .. l : v[i] = t[i]
    <2> TAKE i \in 1 .. l
    <2>1. CASE i <= at
      <3>1. i \in 1 .. at
        BY <2>1
      <3> QED BY <1>3, <1>4, <3>1
    <2>2. CASE at < i /\ i <= at + n
      <3>1. i - at \in 1 .. n /\ at + (i - at) = i
        BY <2>2
      <3> QED BY <1>2, <1>4, <3>1, ZenonT(60)
    <2>3. CASE at + n < i
      <3> DEFINE j == i - n + m
      <3>1. /\ i \in at + n + 1 .. l /\ j \in at + m + 1 .. Len(u) /\ j - m + n = i
        BY <1>1, <1>3, <2>3
      <3>2. u[j] = t[i]
        BY <1>3, <3>1
      <3> HIDE DEF j
      <3>3. v[j - m + Len(p)] = u[j]
        BY <1>4, <3>1
      <3> QED BY <1>2, <3>1, <3>2, <3>3
    <2> QED BY <2>1, <2>2, <2>3
  <1>7. l = Len(t) /\ v \in Seq(S)
    BY <1>4 DEF l
  <1>8. v = t
    BY <1>5, <1>6, <1>7, SeqEqual
  <1> QED BY <1>8 DEF v, u, p, m

\* e is the k elements of t behind at, then d, then the m elements of t behind
\* n.
Lengthened(e, t, at, k, d, n, m) ==
    /\ Len(e) = k + Len(d) + m
    /\ \A j \in 1 .. k : e[j] = t[at + j]
    /\ \A j \in 1 .. Len(d) : e[k + j] = d[j]
    /\ \A j \in 1 .. m : e[k + Len(d) + j] = t[n + j]

\* What is between a and n is to be replaced by d.  If p to p + l, which meets
\* n, is replaced first, what is between the lesser of a and p and the new end
\* is to be replaced by d and what has been lost on both sides of it.
LEMMA SpliceGoesOn ==
  ASSUME NEW S, NEW t \in Seq(S), NEW a \in Nat, NEW n \in Nat, a <= n, n <= Len(t),
         NEW d \in Seq(S),
         NEW p \in Nat, NEW l \in Nat, p <= n, n <= p + l, p + l <= Len(t), NEW b \in Seq(S),
         NEW a1 \in Nat, a1 <= a, a1 <= p, a1 = a \/ a1 = p,
         NEW e \in Seq(S), Lengthened(e, t, a1, a - a1, d, n, (p + l) - n)
  PROVE  Splice(Splice(t, p, l, b), a1, (p + Len(b)) - a1, e) = Splice(t, a, n - a, d)
  <1> DEFINE u == Splice(t, p, l, b)
             w == (p + Len(b)) - a1
             q == Splice(u, a1, w, e)
             s == Splice(t, a, n - a, d)
             L == Len(t)
             B == Len(b)
             D == Len(d)
             F == Len(e)
             k == a - a1
             m == (p + l) - n
  <1>1. /\ L \in Nat /\ B \in Nat /\ D \in Nat /\ F \in Nat
        /\ p + l <= L /\ n <= L
    BY LenProperties
  <1>2. /\ u \in Seq(S) /\ Len(u) = L - l + B
        /\ \A i \in 1 .. p : u[i] = t[i]
        /\ \A i \in p + l + 1 .. L : u[i - l + B] = t[i]
    <2>1. Spliced(u, t, p, l, b, S)
      BY SpliceIs
    <2> HIDE DEF u
    <2> QED BY <2>1 DEF Spliced
  <1>3. /\ s \in Seq(S) /\ Len(s) = L - (n - a) + D
        /\ \A i \in 1 .. a : s[i] = t[i]
        /\ \A i \in 1 .. D : s[a + i] = d[i]
        /\ \A i \in n + 1 .. L : s[i - (n - a) + D] = t[i]
    <2>1. n - a \in Nat /\ a + (n - a) <= L /\ a + (n - a) = n
      BY <1>1
    <2> HIDE DEF L, D
    <2>2. Spliced(s, t, a, n - a, d, S)
      BY <2>1, SpliceIs DEF L
    <2> HIDE DEF s
    <2> QED BY <2>1, <2>2 DEF Spliced, L, D
  <1>4. k \in Nat /\ m \in Nat /\ F = k + D + m /\ w \in Nat /\ a1 + w = p + B
    BY <1>1 DEF Lengthened
  <1> HIDE DEF u, s, L, B, D, F
  <1>5. a1 + w <= Len(u)
    BY <1>1, <1>2, <1>4
  <1> HIDE DEF w
  <1>6. /\ q \in Seq(S) /\ Len(q) = Len(u) - w + F
        /\ \A i \in 1 .. a1 : q[i] = u[i]
        /\ \A i \in 1 .. F : q[a1 + i] = e[i]
        /\ \A i \in a1 + w + 1 .. Len(u) : q[i - w + F] = u[i]
    <2>1. Spliced(q, u, a1, w, e, S)
      BY <1>2, <1>4, <1>5, SpliceIs
    <2> HIDE DEF q
    <2> QED BY <2>1 DEF Spliced, F
  <1> HIDE DEF q
  <1>7. Len(q) = Len(s)
    BY <1>1, <1>2, <1>3, <1>4, <1>6
  <1>8. /\ \A j \in 1 .. k : e[j] = t[a1 + j]
        /\ \A j \in 1 .. D : e[k + j] = d[j]
        /\ \A j \in 1 .. m : e[k + D + j] = t[n + j]
    BY DEF Lengthened, D
  <1>9. a1 + k = a /\ n + m = p + l
    BY <1>1
  <1> HIDE DEF k, m
  <1>10. ASSUME NEW i \in 1 .. Len(s) PROVE q[i] = s[i]
    <2>0. i \in Nat /\ i > 0 /\ i <= L - (n - a) + D
      BY <1>1, <1>3, SMTT(60)
    <2>1. CASE i <= a1
      <3>1. i \in 1 .. a1 /\ i \in 1 .. p /\ i \in 1 .. a
        BY <2>0, <2>1
      <3> QED BY <1>2, <1>3, <1>6, <3>1
    <2>2. CASE a1 < i /\ i <= a
      <3> DEFINE j == i - a1
      <3>1. j \in 1 .. k /\ j \in 1 .. F /\ a1 + j = i /\ i \in 1 .. a
        BY <1>1, <1>4, <1>9, <2>0, <2>2
      <3> HIDE DEF j
      <3>2. q[i] = e[j] /\ e[j] = t[i] /\ s[i] = t[i]
        <4>1. q[a1 + j] = e[j] /\ e[j] = t[a1 + j]
          BY <1>6, <1>8, <3>1
        <4> QED BY <1>3, <3>1, <4>1
      <3> QED BY <3>2
    <2>3. CASE a < i /\ i <= a + D
      <3> DEFINE j == i - a
      <3>1. j \in 1 .. D /\ k + j \in 1 .. F /\ a1 + (k + j) = i /\ a + j = i
        BY <1>1, <1>4, <1>9, <2>0, <2>3
      <3> HIDE DEF j
      <3>2. q[a1 + (k + j)] = e[k + j] /\ e[k + j] = d[j] /\ s[a + j] = d[j]
        BY <1>3, <1>6, <1>8, <3>1
      <3> QED BY <3>1, <3>2
    <2>4. CASE a + D < i /\ i <= a + D + m
      <3> DEFINE j == i - (a + D)
                 x == n + j
      <3>1. /\ j \in 1 .. m /\ k + D + j \in 1 .. F /\ a1 + (k + D + j) = i
            /\ x \in n + 1 .. L /\ x - (n - a) + D = i
        BY <1>1, <1>4, <1>9, <2>0, <2>4
      <3>2. e[k + D + j] = t[x]
        <4> HIDE <1>4
        <4> QED BY <1>8, <3>1
      <3> HIDE DEF j, x
      <3>3. q[a1 + (k + D + j)] = e[k + D + j]
        <4> DEFINE y == k + D + j
        <4>1. y \in 1 .. F
          BY <3>1
        <4> HIDE DEF y
        <4>2. q[a1 + y] = e[y]
          BY <1>6, <4>1
        <4> QED BY <4>2 DEF y
      <3>4. s[x - (n - a) + D] = t[x]
        BY <1>3, <3>1
      <3> QED BY <3>1, <3>2, <3>3, <3>4
    <2>5. CASE a + D + m < i
      <3> DEFINE x == i + (n - a) - D
                 y == x - l + B
      <3>1. /\ x \in p + l + 1 .. L /\ x \in n + 1 .. L /\ x - (n - a) + D = i
            /\ y \in a1 + w + 1 .. Len(u) /\ y - w + F = i
        BY <1>1, <1>2, <1>4, <1>9, <2>0, <2>5
      <3>2. u[y] = t[x]
        <4> HIDE <1>4
        <4> HIDE DEF x
        <4> QED BY <1>2, <3>1
      <3> HIDE DEF x, y
      <3>3. q[y - w + F] = u[y] /\ s[x - (n - a) + D] = t[x]
        BY <1>3, <1>6, <3>1
      <3> QED BY <3>1, <3>2, <3>3
    <2>6. a \in Int /\ D \in Int /\ m \in Int /\ i \in Int
      BY <1>1, <1>4, <2>0
    <2> QED BY <2>1, <2>2, <2>3, <2>4, <2>5, <2>6
  <1> QED BY <1>3, <1>6, <1>7, <1>10, SeqEqual DEF q, u, s, w

-----------------------------------------------------------------------------
(* Rewriting a sequence from its start *)

\* In u, o has come in place of the first p elements of t.
Fronted(u, t, p, o, S) ==
    /\ u \in Seq(S) /\ Len(u) = Len(o) + (Len(t) - p)
    /\ \A i \in 1 .. Len(o) : u[i] = o[i]
    /\ \A i \in 1 .. Len(t) - p : u[Len(o) + i] = t[p + i]

\* What a sequence is whose beginning is replaced.
LEMMA RewrittenFront ==
  ASSUME NEW S, NEW t \in Seq(S), NEW p \in Nat, p <= Len(t), NEW o \in Seq(S)
  PROVE  Fronted(Splice(t, 0, p, o), t, p, o, S)
  <1> DEFINE u == Splice(t, 0, p, o)
             n == Len(t)
             k == Len(o)
  <1>1. n \in Nat /\ k \in Nat
    BY LenProperties
  <1>2. Spliced(u, t, 0, p, o, S)
    <2>1. 0 \in Nat /\ 0 + p <= Len(t)
      OBVIOUS
    <2> QED BY <2>1, SpliceIs
  <1> HIDE DEF u
  <1>3. /\ u \in Seq(S) /\ Len(u) = n - p + k
        /\ \A i \in 1 .. k : u[0 + i] = o[i]
        /\ \A i \in 0 + p + 1 .. n : u[i - p + k] = t[i]
    BY <1>2 DEF Spliced
  <1> HIDE DEF n, k
  <1>4. \A i \in 1 .. n - p : u[k + i] = t[p + i]
    <2> TAKE i \in 1 .. n - p
    <2> DEFINE j == p + i
    <2>1. j \in 0 + p + 1 .. n /\ j - p + k = k + i
      BY <1>1
    <2> HIDE DEF j
    <2>2. u[j - p + k] = t[j]
      BY <1>3, <2>1
    <2> QED BY <2>1, <2>2 DEF j
  <1>5. \A i \in 1 .. k : u[i] = o[i]
    BY <1>1, <1>3
  <1>6. Len(u) = k + (n - p)
    BY <1>1, <1>3
  <1> QED BY <1>3, <1>4, <1>5, <1>6 DEF Fronted, u, n, k

\* It is the whole sequence at first, and nothing in the end.
LEMMA RewrittenEnds ==
  ASSUME NEW S, NEW t \in Seq(S), NEW o \in Seq(S)
  PROVE  Splice(t, 0, 0, <<>>) = t /\ Splice(t, 0, Len(t), o) = o
  <1>1. Len(t) \in Nat /\ Len(o) \in Nat /\ <<>> \in Seq(S) /\ Len(<<>>) = 0
    BY LenProperties
  <1>2. Splice(t, 0, 0, <<>>) = t
    <2> DEFINE u == Splice(t, 0, 0, <<>>)
               e == <<>>
    <2>1. 0 \in Nat /\ 0 <= Len(t) /\ e \in Seq(S) /\ Len(e) = 0
      BY <1>1
    <2>2. u = Splice(t, 0, 0, e)
      OBVIOUS
    <2> HIDE DEF u, e
    <2>3. /\ u \in Seq(S) /\ Len(u) = Len(e) + (Len(t) - 0)
          /\ \A i \in 1 .. Len(t) - 0 : u[Len(e) + i] = t[0 + i]
      <3>1. Fronted(u, t, 0, e, S)
        BY <2>1, <2>2, RewrittenFront
      <3> QED BY <3>1 DEF Fronted
    <2>4. Len(u) = Len(t) /\ \A i \in 1 .. Len(u) : u[i] = t[i]
      BY <1>1, <2>1, <2>3
    <2> QED BY <2>3, <2>4, SeqEqual DEF u
  <1>3. Splice(t, 0, Len(t), o) = o
    <2> DEFINE n == Len(t)
               u == Splice(t, 0, n, o)
    <2>1. n \in Nat /\ n <= Len(t) /\ n = Len(t)
      BY <1>1
    <2> HIDE DEF n
    <2>2. /\ u \in Seq(S) /\ Len(u) = Len(o) + (Len(t) - n)
          /\ \A i \in 1 .. Len(o) : u[i] = o[i]
      <3>1. Fronted(u, t, n, o, S)
        BY <2>1, RewrittenFront
      <3> HIDE DEF u
      <3> QED BY <3>1 DEF Fronted
    <2> HIDE DEF u
    <2>3. Len(u) = Len(o)
      BY <1>1, <2>1, <2>2
    <2> QED BY <2>2, <2>3, SeqEqual DEF u, n
  <1> QED BY <1>2, <1>3

\* A part behind it is a part of the sequence.
LEMMA RewrittenPart ==
  ASSUME NEW S, NEW t \in Seq(S), NEW p \in Nat, NEW o \in Seq(S),
         NEW a \in Nat, Len(o) <= a, NEW b \in Nat, b = p + (a - Len(o)),
         NEW l \in Nat, b + l <= Len(t)
  PROVE  Part(Splice(t, 0, p, o), a, l) = Part(t, b, l)
  <1> DEFINE u == Splice(t, 0, p, o)
             n == Len(t)
             k == Len(o)
             d == a - k
             x == Part(u, a, l)
             y == Part(t, b, l)
  <1>1. n \in Nat /\ k \in Nat /\ d \in Nat /\ b = p + d /\ a = k + d /\ p + d + l <= n /\ p <= n
    BY LenProperties
  <1> HIDE DEF d
  <1>2. /\ u \in Seq(S) /\ Len(u) = k + (n - p)
        /\ \A i \in 1 .. n - p : u[k + i] = t[p + i]
    <2>1. Fronted(u, t, p, o, S)
      BY <1>1, RewrittenFront
    <2> HIDE DEF u
    <2> QED BY <2>1 DEF Fronted
  <1>3. a = k + d /\ a \in Nat /\ a + l <= Len(u)
    BY <1>1, <1>2
  <1>4. b = p + d /\ b \in Nat /\ b + l <= Len(t)
    BY <1>1
  <1> HIDE DEF u
  <1>5. x \in Seq(S) /\ Len(x) = l /\ \A i \in 1 .. l : x[i] = u[a + i]
    <2>1. u \in Seq(S) /\ a \in Nat /\ l \in Nat /\ a + l <= Len(u)
      BY <1>2, <1>3
    <2> QED BY ONLY <2>1, PartIs
  <1>6. y \in Seq(S) /\ Len(y) = l /\ \A i \in 1 .. l : y[i] = t[b + i]
    BY <1>4, PartIs
  <1>7. \A i \in 1 .. l : u[a + i] = t[b + i]
    <2> TAKE i \in 1 .. l
    <2> DEFINE j == d + i
    <2>1. j \in 1 .. n - p /\ a + i = k + j /\ b + i = p + j
      BY <1>1, <1>3, <1>4
    <2> HIDE DEF j, n, k
    <2>2. u[k + j] = t[p + j]
      BY <1>2, <2>1
    <2> QED BY <2>1, <2>2
  <1> HIDE DEF x, y
  <1>8. x = y
    <2>1. \A i \in 1 .. l : x[i] = y[i]
      BY <1>5, <1>6, <1>7
    <2> QED BY <1>5, <1>6, <2>1, SeqEqual
  <1> QED BY <1>8 DEF x, y, u

\* Rewriting the next l elements as b.
LEMMA RewrittenNext ==
  ASSUME NEW S, NEW t \in Seq(S), NEW p \in Nat, NEW l \in Nat, p + l <= Len(t),
         NEW o \in Seq(S), NEW b \in Seq(S)
  PROVE  Splice(Splice(t, 0, p, o), Len(o), l, b) = Splice(t, 0, p + l, o \o b)
  <1> DEFINE u == Splice(t, 0, p, o)
             n == Len(t)
             k == Len(o)
             m == Len(b)
             c == o \o b
             q == p + l
             v == Splice(u, k, l, b)
             w == Splice(t, 0, q, c)
  <1>1. n \in Nat /\ k \in Nat /\ m \in Nat /\ p <= n /\ q \in Nat /\ q <= n /\ q = p + l
    BY LenProperties
  <1>2. /\ c \in Seq(S) /\ Len(c) = k + m
        /\ \A i \in 1 .. k + m : c[i] = IF i <= k THEN o[i] ELSE b[i - k]
    BY ConcatProperties
  <1>3. /\ u \in Seq(S) /\ Len(u) = k + (n - p)
        /\ \A i \in 1 .. k : u[i] = o[i]
        /\ \A i \in 1 .. n - p : u[k + i] = t[p + i]
    <2>1. Fronted(u, t, p, o, S)
      BY <1>1, RewrittenFront
    <2> HIDE DEF u
    <2> QED BY <2>1 DEF Fronted
  <1> HIDE DEF u, c, q
  <1>4. /\ v \in Seq(S) /\ Len(v) = Len(u) - l + m
        /\ \A i \in 1 .. k : v[i] = u[i]
        /\ \A i \in 1 .. m : v[k + i] = b[i]
        /\ \A i \in k + l + 1 .. Len(u) : v[i - l + m] = u[i]
    <2>1. k + l <= Len(u) /\ k \in Nat
      BY <1>1, <1>3
    <2> HIDE DEF k
    <2>2. Spliced(v, u, k, l, b, S)
      BY <1>3, <2>1, SpliceIs
    <2> HIDE DEF v
    <2> QED BY <2>2 DEF Spliced
  <1>5. /\ w \in Seq(S) /\ Len(w) = Len(c) + (n - q)
        /\ \A i \in 1 .. Len(c) : w[i] = c[i]
        /\ \A i \in 1 .. n - q : w[Len(c) + i] = t[q + i]
    <2>1. Fronted(w, t, q, c, S)
      BY <1>1, <1>2, RewrittenFront
    <2> HIDE DEF w
    <2> QED BY <2>1 DEF Fronted
  <1> HIDE DEF v, w, n, k, m
  <1>6. Len(v) = Len(w)
    <2>1. Len(v) = (k + (n - p)) - l + m /\ Len(w) = (k + m) + (n - q)
      BY <1>2, <1>3, <1>4, <1>5
    <2> QED BY <1>1, <2>1
  <1>7. \A i \in 1 .. Len(v) : v[i] = w[i]
    <2> TAKE i \in 1 .. Len(v)
    <2>1. Len(v) = k + m + (n - q)
      BY <1>1, <1>2, <1>5, <1>6
    <2>2. CASE i <= k
      <3>1. i \in 1 .. k /\ i \in 1 .. k + m /\ i \in 1 .. Len(c)
        BY <1>1, <1>2, <2>2
      <3> QED BY <1>2, <1>3, <1>4, <1>5, <2>2, <3>1
    <2>3. CASE k < i /\ i <= k + m
      <3> DEFINE j == i - k
      <3>1. j \in 1 .. m /\ k + j = i /\ ~ (i <= k) /\ i \in 1 .. k + m /\ i \in 1 .. Len(c)
        BY <1>1, <1>2, <2>3
      <3>2. w[i] = b[j]
        BY <1>2, <1>5, <3>1
      <3> HIDE DEF j
      <3> QED BY <1>4, <3>1, <3>2
    <2>4. CASE k + m < i
      <3> DEFINE h == i - (k + m)
                 j == k + l + h
      <3>1. /\ h \in 1 .. n - q /\ l + h \in 1 .. n - p /\ q + h = p + (l + h)
            /\ k + m + h = i
        BY <1>1, <2>1, <2>4
      <3>2. j \in k + l + 1 .. Len(u) /\ j - l + m = i /\ j = k + (l + h)
        BY <1>1, <1>3, <3>1
      <3> HIDE DEF h, j
      <3>3. w[i] = t[q + h]
        BY <1>2, <1>5, <3>1
      <3>4. v[i] = u[j]
        BY <1>4, <3>2
      <3>5. u[k + (l + h)] = t[p + (l + h)]
        BY <1>3, <3>1
      <3> QED BY <3>1, <3>2, <3>3, <3>4, <3>5
    <2> QED BY <1>1, <2>2, <2>3, <2>4
  <1>8. v = w
    BY <1>4, <1>5, <1>6, <1>7, SeqEqual
  <1> QED BY <1>8 DEF v, w, u, c, q, k

\* Rewriting the next element as itself.
LEMMA RewrittenSame ==
  ASSUME NEW S, NEW t \in Seq(S), NEW p \in Nat, p + 1 <= Len(t), NEW o \in Seq(S)
  PROVE  Splice(t, 0, p + 1, Append(o, t[p + 1])) = Splice(t, 0, p, o)
  <1> DEFINE x == t[p + 1]
             n == Len(t)
             k == Len(o)
             c == Append(o, x)
             q == p + 1
             v == Splice(t, 0, q, c)
             w == Splice(t, 0, p, o)
  <1>1. /\ n \in Nat /\ k \in Nat /\ p <= n /\ q \in Nat /\ q <= n /\ q = p + 1
        /\ x \in S
    <2>1. n \in Nat /\ k \in Nat
      BY LenProperties
    <2>2. q \in 1 .. n
      BY <2>1
    <2>3. t[q] \in S
      BY <2>2, ElementOfSeq
    <2> QED BY <2>1, <2>2, <2>3
  <1>2. x = t[q]
    OBVIOUS
  <1> HIDE DEF x
  <1>3. /\ c \in Seq(S) /\ Len(c) = k + 1 /\ c[k + 1] = x
        /\ \A i \in 1 .. k : c[i] = o[i]
    BY <1>1, AppendProperties
  <1> HIDE DEF c, q
  <1>4. /\ v \in Seq(S) /\ Len(v) = Len(c) + (n - q)
        /\ \A i \in 1 .. Len(c) : v[i] = c[i]
        /\ \A i \in 1 .. n - q : v[Len(c) + i] = t[q + i]
    <2>1. Fronted(v, t, q, c, S)
      BY <1>1, <1>3, RewrittenFront
    <2> HIDE DEF v
    <2> QED BY <2>1 DEF Fronted
  <1>5. /\ w \in Seq(S) /\ Len(w) = k + (n - p)
        /\ \A i \in 1 .. k : w[i] = o[i]
        /\ \A i \in 1 .. n - p : w[k + i] = t[p + i]
    <2>1. Fronted(w, t, p, o, S)
      BY <1>1, RewrittenFront
    <2> HIDE DEF w
    <2> QED BY <2>1 DEF Fronted
  <1> HIDE DEF v, w, n, k
  <1>6. Len(v) = Len(w)
    BY <1>1, <1>3, <1>4, <1>5
  <1>7. \A i \in 1 .. Len(v) : v[i] = w[i]
    <2> TAKE i \in 1 .. Len(v)
    <2>1. Len(v) = k + 1 + (n - q)
      BY <1>1, <1>3, <1>4
    <2>2. CASE i <= k
      <3>1. i \in 1 .. k /\ i \in 1 .. Len(c)
        BY <1>1, <1>3, <2>2
      <3> QED BY <1>3, <1>4, <1>5, <3>1
    <2>3. CASE i = k + 1
      <3>1. i \in 1 .. Len(c) /\ 1 \in 1 .. n - p
        BY <1>1, <1>3, <2>3
      <3>2. w[k + 1] = t[p + 1]
        BY <1>5, <3>1
      <3> QED BY <1>1, <1>2, <1>3, <1>4, <2>3, <3>1, <3>2
    <2>4. CASE k + 1 < i
      <3> DEFINE h == i - (k + 1)
      <3>1. /\ h \in 1 .. n - q /\ 1 + h \in 1 .. n - p /\ q + h = p + (1 + h)
            /\ k + 1 + h = i /\ k + (1 + h) = i
        BY <1>1, <2>1, <2>4
      <3> HIDE DEF h
      <3>2. v[i] = t[q + h]
        BY <1>3, <1>4, <3>1
      <3>3. w[k + (1 + h)] = t[p + (1 + h)]
        BY <1>5, <3>1
      <3> QED BY <3>1, <3>2, <3>3
    <2> QED BY <1>1, <2>2, <2>3, <2>4
  <1>8. v = w
    BY <1>4, <1>5, <1>6, <1>7, SeqEqual
  <1> QED BY <1>8 DEF v, w, c, q, x

-----------------------------------------------------------------------------
(* Elements that are kept, in their order *)

\* The elements of a sequence.
LEMMA SeqFacts ==
  ASSUME NEW S, NEW s \in Seq(S)
  PROVE  /\ Len(s) \in Nat /\ DOMAIN s = 1 .. Len(s)
         /\ \A i \in 1 .. Len(s) : s[i] \in S
         /\ s # <<>> <=> Len(s) > 0
  <1>1. Len(s) \in Nat /\ DOMAIN s = 1 .. Len(s)
    BY LenProperties
  <1>2. \A i \in 1 .. Len(s) : s[i] \in S
    BY <1>1, ElementOfSeq
  <1>3. s # <<>> <=> Len(s) > 0
    BY <1>1, EmptySeq
  <1> QED BY <1>1, <1>2, <1>3

\* Where the elements of s at the positions of P are in q.
KeptAt(q, s, P, at) ==
    /\ at \in [1 .. Len(q) -> DOMAIN s]
    /\ \A k \in 1 .. Len(q) : at[k] \in P /\ q[k] = s[at[k]]
    /\ \A k, l \in 1 .. Len(q) : k < l => at[k] < at[l]
    /\ \A i \in DOMAIN s : i \in P => \E k \in 1 .. Len(q) : at[k] = i

\* f are what is kept of the beginnings of s.
KeptSoFar(f, s, P, n) ==
    f = [i \in 0 .. n |->
            IF i = 0 THEN <<>>
            ELSE IF i \in P THEN Append(f[i - 1], s[i])
            ELSE f[i - 1]]

\* The elements at these positions, in their order.
LEMMA KeepingIs ==
  ASSUME NEW S, NEW s \in Seq(S), NEW P
  PROVE  LET q == (CHOOSE f : KeptSoFar(f, s, P, Len(s)))[Len(s)]
         IN  q \in Seq(S) /\ \E at : KeptAt(q, s, P, at)
  <1> DEFINE n == Len(s)
             Q == Seq(S)
             kept == CHOOSE f : KeptSoFar(f, s, P, n)
             More(q, i) == IF i \in P THEN Append(q, s[i]) ELSE q
  <1>1. n \in Nat /\ DOMAIN s = 1 .. n /\ \A i \in 1 .. n : s[i] \in S
    BY SeqFacts
  <1>3. kept = CHOOSE f : KeptSoFar(f, s, P, n)
    OBVIOUS
  <1>4. <<>> \in Q
    OBVIOUS
  <1> DEFINE step == [i \in 1 .. n |-> [q \in Q |-> More(q, i)]]
  <1>5. \A i \in 1 .. n : \A q \in Q : More(q, i) \in Q
    <2> TAKE i \in 1 .. n
    <2> TAKE q \in Q
    <2>1. Append(q, s[i]) \in Q
      BY <1>1, AppendProperties
    <2> QED BY <2>1
  <1>6. /\ step \in [1 .. n -> [Q -> Q]]
        /\ \A i \in 1 .. n : \A q \in Q : step[i][q] = More(q, i)
    <2> HIDE DEF More, Q, n
    <2> QED BY <1>5
  <1> HIDE DEF kept, step
  <1>7. PICK f : Iterated(f, n, Q, <<>>, step)
    <2>1. n \in Nat
      BY <1>1
    <2> HIDE DEF Q, n
    <2> QED BY <1>4, <1>6, <2>1, Iterates
  <1>8. /\ f \in [0 .. n -> Q] /\ f[0] = <<>>
        /\ \A i \in 1 .. n : f[i] = step[i][f[i - 1]]
    BY <1>7 DEF Iterated
  <1>9. \A i \in 1 .. n : f[i - 1] \in Q /\ f[i] = More(f[i - 1], i)
    <2> TAKE i \in 1 .. n
    <2>1. i - 1 \in 0 .. n
      BY <1>1
    <2>2. f[i - 1] \in Q
      BY <1>8, <2>1
    <2> HIDE DEF Q, More
    <2> QED BY <1>6, <1>8, <2>2
  <1>10. KeptSoFar(f, s, P, n)
    <2>1. f = [i \in 0 .. n |-> f[i]]
      BY <1>8
    <2>2. \A i \in 0 .. n : i # 0 => i \in 1 .. n
      BY <1>1
    <2>3. \A i \in 0 .. n :
            f[i] = IF i = 0 THEN <<>>
                   ELSE IF i \in P THEN Append(f[i - 1], s[i])
                   ELSE f[i - 1]
      BY <1>8, <1>9, <2>2
    <2> HIDE DEF n
    <2> QED BY <2>1, <2>3 DEF KeptSoFar
  <1>11. KeptSoFar(kept, s, P, n)
    BY <1>3, <1>10
  <1>12. kept[0] = <<>> /\ \A i \in 1 .. n : kept[i] = More(kept[i - 1], i)
    <2>1. 0 \in 0 .. n /\ \A i \in 1 .. n : i \in 0 .. n /\ i # 0
      BY <1>1
    <2> HIDE DEF n
    <2> QED BY <1>11, <2>1 DEF KeptSoFar
  <1> DEFINE At(q, i, at) ==
                /\ at \in [1 .. Len(q) -> 1 .. i]
                /\ \A k \in 1 .. Len(q) : at[k] \in P /\ q[k] = s[at[k]]
                /\ \A k, l \in 1 .. Len(q) : k < l => at[k] < at[l]
                /\ \A j \in 1 .. i : j \in P => \E k \in 1 .. Len(q) : at[k] = j
             Good(i) == kept[i] \in Q /\ \E at : At(kept[i], i, at)
             T == {i \in 0 .. n : Good(i)}
  <1>13. Good(0)
    <2> DEFINE at == [k \in 1 .. 0 |-> 0]
    <2>1. At(<<>>, 0, at)
      OBVIOUS
    <2> HIDE DEF at, At
    <2> QED BY <1>4, <1>12, <2>1
  <1>14. \A i \in 1 .. n : Good(i - 1) => Good(i)
    <2> TAKE i \in 1 .. n
    <2> HAVE Good(i - 1)
    <2> DEFINE q == kept[i - 1]
               m == Len(q)
    <2>1. q \in Q /\ m \in Nat
      BY LenProperties
    <2>2. PICK at : At(q, i - 1, at)
      OBVIOUS
    <2>3. kept[i] = More(q, i) /\ s[i] \in S
      BY <1>1, <1>12
    <2>4. CASE i \notin P
      <3>1. kept[i] = q
        BY <2>3, <2>4
      <3>2. At(q, i, at)
        <4>1. 1 .. i - 1 \subseteq 1 .. i /\ \A j \in 1 .. i : j \in P => j \in 1 .. i - 1
          BY <2>4
        <4> HIDE DEF q
        <4> QED BY <2>2, <4>1
      <3> HIDE DEF At, q
      <3> QED BY <2>1, <3>1, <3>2
    <2>5. CASE i \in P
      <3> DEFINE p == Append(q, s[i])
                 to == [k \in 1 .. m + 1 |-> IF k = m + 1 THEN i ELSE at[k]]
      <3>1. kept[i] = p
        BY <2>3, <2>5
      <3> HIDE DEF q, At
      <3>2. /\ p \in Q /\ Len(p) = m + 1 /\ p[m + 1] = s[i]
            /\ \A k \in 1 .. m : p[k] = q[k]
        BY <2>1, <2>3, AppendProperties
      <3> HIDE DEF p
      <3>3. /\ at \in [1 .. m -> 1 .. i - 1]
            /\ \A k \in 1 .. m : at[k] \in P /\ q[k] = s[at[k]]
            /\ \A k, l \in 1 .. m : k < l => at[k] < at[l]
            /\ \A j \in 1 .. i - 1 : j \in P => \E k \in 1 .. m : at[k] = j
        BY <2>2 DEF At
      <3> HIDE DEF m
      <3>4. \A k \in 1 .. m + 1 : k # m + 1 => k \in 1 .. m
        BY <2>1
      <3>5. \A k \in 1 .. m : k \in 1 .. m + 1 /\ k # m + 1 /\ at[k] \in 1 .. i - 1 /\ at[k] \in 1 .. i
        BY <2>1, <3>3
      <3>6. m + 1 \in 1 .. m + 1 /\ i \in 1 .. i
        BY <2>1
      <3>7. to[m + 1] = i /\ \A k \in 1 .. m : to[k] = at[k]
        BY <3>5, <3>6
      <3>8. to \in [1 .. m + 1 -> 1 .. i]
        BY <3>4, <3>5, <3>6
      <3> HIDE DEF to
      <3>9. \A k \in 1 .. m + 1 : to[k] \in P /\ p[k] = s[to[k]]
        BY <2>5, <3>2, <3>3, <3>4, <3>7
      <3>10. \A k, l \in 1 .. m + 1 : k < l => to[k] < to[l]
        <4> TAKE k, l \in 1 .. m + 1
        <4> HAVE k < l
        <4>1. k \in 1 .. m /\ to[k] = at[k] /\ at[k] \in 1 .. i - 1
          BY <2>1, <3>5, <3>7
        <4>2. CASE l = m + 1
          BY <3>7, <4>1, <4>2
        <4>3. CASE l # m + 1
          BY <3>3, <3>4, <3>7, <4>1, <4>3
        <4> QED BY <4>2, <4>3
      <3>11. \A j \in 1 .. i : j \in P => \E k \in 1 .. m + 1 : to[k] = j
        <4> TAKE j \in 1 .. i
        <4> HAVE j \in P
        <4>1. CASE j = i
          BY <3>6, <3>7, <4>1
        <4>2. CASE j # i
          <5>1. PICK k \in 1 .. m : at[k] = j
            BY <3>3, <4>2
          <5> QED BY <3>5, <3>7, <5>1
        <4> QED BY <4>1, <4>2
      <3>12. At(p, i, to)
        BY <3>2, <3>8, <3>9, <3>10, <3>11 DEF At
      <3> QED BY <3>1, <3>2, <3>12
    <2> QED BY <2>4, <2>5
  <1> HIDE DEF Good
  <1>15. 0 \in T /\ \A i \in 1 .. n : i - 1 \in T => i \in T
    BY <1>1, <1>13, <1>14
  <1>16. n \in T
    <2> HIDE DEF T
    <2>1. \A i \in 0 .. n : i \in T
      BY <1>1, <1>15, UpTo
    <2> QED BY <1>1, <2>1
  <1>17. Good(n)
    BY <1>16
  <1>18. kept[n] \in Seq(S)
    BY <1>17 DEF Good
  <1>19. \E at : KeptAt(kept[n], s, P, at)
    BY <1>1, <1>17 DEF Good, KeptAt
  <1> QED BY <1>18, <1>19 DEF kept

\* Where Kept finds its elements does not depend on how it is found.
LEMMA KeptAgrees ==
  ASSUME NEW S, NEW s \in Seq(S), NEW P,
         NEW q \in Seq(S), NEW at, KeptAt(q, s, P, at),
         NEW p \in Seq(S), NEW bt, KeptAt(p, s, P, bt),
         NEW m \in Nat, m <= Len(q), m <= Len(p)
  PROVE  \A k \in 1 .. m : at[k] = bt[k]
  <1> DEFINE n == Len(q)
             l == Len(p)
             T == {i \in 0 .. m : \A k \in 1 .. i : at[k] = bt[k]}
  <1>1. n \in Nat /\ l \in Nat /\ DOMAIN s = 1 .. Len(s) /\ Len(s) \in Nat
    BY SeqFacts
  <1>2. /\ \A k \in 1 .. n : at[k] \in DOMAIN s /\ at[k] \in P
        /\ \A k, j \in 1 .. n : k < j => at[k] < at[j]
        /\ \A i \in DOMAIN s : i \in P => \E k \in 1 .. n : at[k] = i
    BY DEF KeptAt
  <1>3. /\ \A k \in 1 .. l : bt[k] \in DOMAIN s /\ bt[k] \in P
        /\ \A k, j \in 1 .. l : k < j => bt[k] < bt[j]
        /\ \A i \in DOMAIN s : i \in P => \E k \in 1 .. l : bt[k] = i
    BY DEF KeptAt
  <1>4. m <= n /\ m <= l
    OBVIOUS
  <1> HIDE DEF n, l
  <1>5. (\A k \in 1 .. n : at[k] \in Nat) /\ \A k \in 1 .. l : bt[k] \in Nat
    BY <1>1, <1>2, <1>3
  <1>6. 0 \in T
    OBVIOUS
  <1>7. ASSUME NEW i \in 1 .. m, i - 1 \in T PROVE i \in T
    <2>1. i \in 1 .. n /\ i \in 1 .. l
      BY <1>1, <1>4
    <2>2. \A k \in 1 .. i - 1 : at[k] = bt[k]
      BY <1>7
    <2>3. PICK j \in 1 .. l : bt[j] = at[i]
      BY <1>2, <1>3, <2>1
    <2>4. PICK h \in 1 .. n : at[h] = bt[i]
      BY <1>2, <1>3, <2>1
    <2>5. bt[i] <= at[i]
      <3>1. CASE j < i
        <4>1. j \in 1 .. i - 1 /\ j \in 1 .. n
          BY <1>1, <2>1, <3>1
        <4>2. at[j] = at[i] /\ at[j] < at[i]
          BY <1>2, <2>1, <2>2, <2>3, <3>1, <4>1
        <4> QED BY <1>5, <2>1, <4>1, <4>2
      <3>2. CASE j = i
        BY <1>5, <2>1, <2>3, <3>2
      <3>3. CASE i < j
        <4>1. bt[i] < bt[j]
          BY <1>3, <2>1, <3>3
        <4> QED BY <1>5, <2>1, <2>3, <4>1
      <3> QED BY <1>1, <2>1, <3>1, <3>2, <3>3
    <2>6. at[i] <= bt[i]
      <3>1. CASE h < i
        <4>1. h \in 1 .. i - 1 /\ h \in 1 .. l
          BY <1>1, <2>1, <3>1
        <4>2. bt[h] = bt[i] /\ bt[h] < bt[i]
          BY <1>3, <2>1, <2>2, <2>4, <3>1, <4>1
        <4> QED BY <1>5, <2>1, <4>1, <4>2
      <3>2. CASE h = i
        BY <1>5, <2>1, <2>4, <3>2
      <3>3. CASE i < h
        <4>1. at[i] < at[h]
          BY <1>2, <2>1, <3>3
        <4> QED BY <1>5, <2>1, <2>4, <4>1
      <3> QED BY <1>1, <2>1, <3>1, <3>2, <3>3
    <2>7. at[i] = bt[i]
      BY <1>5, <2>1, <2>5, <2>6
    <2>8. \A k \in 1 .. i : k \in 1 .. i - 1 \/ k = i
      OBVIOUS
    <2> QED BY <2>2, <2>7, <2>8
  <1>8. \A i \in 0 .. m : i \in T
    <2> HIDE DEF T
    <2> QED BY <1>6, <1>7, UpTo
  <1> QED BY <1>8

\* There is no further element.
LEMMA KeptNoLonger ==
  ASSUME NEW S, NEW s \in Seq(S), NEW P,
         NEW q \in Seq(S), NEW at, KeptAt(q, s, P, at),
         NEW p \in Seq(S), NEW bt, KeptAt(p, s, P, bt)
  PROVE  Len(p) <= Len(q)
  <1> DEFINE m == Len(q)
             l == Len(p)
  <1>1. m \in Nat /\ l \in Nat /\ DOMAIN s = 1 .. Len(s) /\ Len(s) \in Nat
    BY SeqFacts
  <1> SUFFICES ASSUME m < l PROVE FALSE
    <2> HIDE DEF m, l
    <2>1. m < l \/ l <= m
      BY <1>1
    <2> QED BY <2>1 DEF m, l
  <1>2. \A k \in 1 .. m : at[k] = bt[k]
    <2>1. m <= Len(q) /\ m <= Len(p)
      BY <1>1
    <2> HIDE DEF m
    <2> QED BY <1>1, <2>1, KeptAgrees
  <1>3. \A i \in DOMAIN s : i \in P => \E k \in 1 .. m : at[k] = i
    BY DEF KeptAt
  <1>4. /\ \A k \in 1 .. l : bt[k] \in DOMAIN s /\ bt[k] \in P
        /\ \A k, j \in 1 .. l : k < j => bt[k] < bt[j]
    BY DEF KeptAt
  <1> HIDE DEF m, l
  <1>5. m + 1 \in 1 .. l
    BY <1>1
  <1>6. PICK k \in 1 .. m : at[k] = bt[m + 1]
    BY <1>3, <1>4, <1>5
  <1>7. k \in 1 .. l /\ k < m + 1
    BY <1>1
  <1>8. bt[k] < bt[m + 1] /\ bt[k] = bt[m + 1] /\ bt[k] \in Nat
    BY <1>1, <1>2, <1>4, <1>5, <1>6, <1>7
  <1> QED BY <1>8

\* So there is one sequence that keeps these elements.
LEMMA KeptOnce ==
  ASSUME NEW S, NEW s \in Seq(S), NEW P,
         NEW q \in Seq(S), NEW at, KeptAt(q, s, P, at),
         NEW p \in Seq(S), NEW bt, KeptAt(p, s, P, bt)
  PROVE  q = p
  <1>1. Len(p) <= Len(q)
    BY KeptNoLonger
  <1>2. Len(q) <= Len(p)
    BY KeptNoLonger
  <1> DEFINE m == Len(q)
  <1>3. m \in Nat /\ Len(p) = m
    BY <1>1, <1>2, SeqFacts
  <1>4. \A k \in 1 .. m : at[k] = bt[k]
    <2>1. m <= Len(q) /\ m <= Len(p)
      BY <1>3
    <2> HIDE DEF m
    <2> QED BY <1>3, <2>1, KeptAgrees
  <1>5. \A k \in 1 .. m : q[k] = p[k]
    <2>1. \A k \in 1 .. m : q[k] = s[at[k]]
      BY DEF KeptAt
    <2>2. \A k \in 1 .. m : p[k] = s[bt[k]]
      BY <1>3 DEF KeptAt
    <2> QED BY <1>4, <2>1, <2>2
  <1> QED BY <1>3, <1>5, SeqEqual

\* The first b elements have kept their places.
InPlace(at, b) == \A k \in 1 .. b : at[k] = k

\* Q are the positions of P without l of them behind the first a.
Without(Q, P, t, a, l) ==
    \A j \in DOMAIN t : j \in Q <=> j \in P /\ j \notin a + 1 .. a + l

\* What is kept when a part of what was kept in its place is taken out.
LEMMA KeptLess ==
  ASSUME NEW S, NEW t \in Seq(S), NEW P, NEW u \in Seq(S), NEW at, KeptAt(u, t, P, at),
         NEW a \in Nat, NEW l \in Nat, a + l <= Len(u), InPlace(at, a + l),
         NEW v, Spliced(v, u, a, l, <<>>, S),
         NEW Q, Without(Q, P, t, a, l)
  PROVE  \E bt : KeptAt(v, t, Q, bt) /\ InPlace(bt, a)
  <1> USE DEF InPlace, Without
  <1> DEFINE n == Len(u)
             m == Len(v)
             Spot(k) == IF k <= a THEN k ELSE k + l
             bt == [k \in 1 .. m |-> at[Spot(k)]]
  <1>1. n \in Nat /\ DOMAIN t = 1 .. Len(t) /\ Len(t) \in Nat
    BY SeqFacts
  <1>2. m \in Nat /\ m = n - l /\ (\A k \in 1 .. a : v[k] = u[k])
        /\ \A i \in a + l + 1 .. n : v[i - l] = u[i]
    <2>1. Len(<<>>) = 0 /\ v \in Seq(S)
      BY DEF Spliced
    <2>2. m \in Nat /\ m = n - l + 0 /\ (\A k \in 1 .. a : v[k] = u[k])
          /\ \A i \in a + l + 1 .. n : v[i - l + 0] = u[i]
      BY <2>1, LenProperties DEF Spliced
    <2> HIDE DEF m, n
    <2>3. \A i \in a + l + 1 .. n : i - l + 0 = i - l
      BY <1>1
    <2>4. n - l + 0 = n - l
      BY <1>1
    <2> QED BY <2>2, <2>3, <2>4
  <1>3. /\ \A k \in 1 .. n : at[k] \in DOMAIN t /\ at[k] \in P /\ u[k] = t[at[k]]
        /\ \A k, j \in 1 .. n : k < j => at[k] < at[j]
        /\ \A i \in DOMAIN t : i \in P => \E k \in 1 .. n : at[k] = i
    BY DEF KeptAt
  <1>4. a + l <= n
    OBVIOUS
  <1> HIDE DEF n, m
  <1>5. \A k \in 1 .. m : Spot(k) \in 1 .. n
    BY <1>1, <1>2, <1>4
  <1>6. \A k, j \in 1 .. m : k < j => Spot(k) < Spot(j)
    BY <1>2
  <1>7. \A k \in 1 .. m : v[k] = u[Spot(k)]
    <2> TAKE k \in 1 .. m
    <2>1. CASE k <= a
      <3>1. k \in 1 .. a
        BY <1>2, <2>1
      <3> QED BY <1>2, <2>1, <3>1
    <2>2. CASE ~ (k <= a)
      <3> DEFINE i == k + l
      <3>1. i \in a + l + 1 .. n /\ i - l = k
        BY <1>1, <1>2, <2>2
      <3> HIDE DEF i
      <3>2. v[i - l] = u[i]
        BY <1>2, <3>1
      <3> QED BY <2>2, <3>1, <3>2 DEF i
    <2> QED BY <2>1, <2>2
  <1>8. \A k \in 1 .. m : Spot(k) \in 1 .. a \/ Spot(k) \in a + l + 1 .. n
    BY <1>1, <1>2, <1>4
  <1> HIDE DEF Spot
  <1>9. \A k \in 1 .. m : at[Spot(k)] \notin a + 1 .. a + l
    <2> SUFFICES ASSUME NEW k \in 1 .. m, at[Spot(k)] \in a + 1 .. a + l PROVE FALSE
      OBVIOUS
    <2> DEFINE h == Spot(k)
               e == a + l
    <2>1. h \in 1 .. n /\ (h \in 1 .. a \/ h \in e + 1 .. n) /\ at[h] \in a + 1 .. e
      BY <1>5, <1>8
    <2> HIDE DEF h
    <2>2. CASE h \in 1 .. a
      <3>1. h \in 1 .. a + l
        BY <2>2
      <3>2. at[h] = h
        BY <3>1
      <3> QED BY <2>1, <2>2, <3>2
    <2>3. CASE h \in e + 1 .. n
      <3>1. e \in 1 .. e /\ e \in 1 .. n /\ e \in Nat
        BY <1>1, <1>4, <2>1
      <3>2. at[e] = e
        BY <3>1
      <3>3. e < h
        BY <1>1, <2>3, <3>1
      <3> HIDE DEF e
      <3>4. at[e] < at[h]
        BY <1>3, <2>1, <3>1, <3>3
      <3> QED BY <2>1, <3>1, <3>2, <3>4
    <2> QED BY <2>1, <2>2, <2>3
  <1>10. bt \in [1 .. m -> DOMAIN t]
    BY <1>3, <1>5
  <1>11. \A k \in 1 .. m : bt[k] \in Q /\ v[k] = t[bt[k]]
    <2> TAKE k \in 1 .. m
    <2>1. bt[k] = at[Spot(k)] /\ Spot(k) \in 1 .. n
      BY <1>5
    <2> HIDE DEF bt
    <2>2. bt[k] \in DOMAIN t /\ bt[k] \in P /\ u[Spot(k)] = t[bt[k]]
      BY <1>3, <2>1
    <2>3. bt[k] \notin a + 1 .. a + l
      BY <1>9, <2>1
    <2> QED BY <1>7, <2>2, <2>3
  <1>12. \A k, j \in 1 .. m : k < j => bt[k] < bt[j]
    <2> TAKE k, j \in 1 .. m
    <2> HAVE k < j
    <2>1. bt[k] = at[Spot(k)] /\ bt[j] = at[Spot(j)] /\ Spot(k) \in 1 .. n /\ Spot(j) \in 1 .. n
      BY <1>5
    <2>2. Spot(k) < Spot(j)
      BY <1>6
    <2> QED BY <1>3, <2>1, <2>2
  <1>13. \A k \in 1 .. a : bt[k] = k
    <2> TAKE k \in 1 .. a
    <2>1. k \in 1 .. m /\ k \in 1 .. a + l
      BY <1>1, <1>2, <1>4
    <2>2. bt[k] = at[k]
      BY <2>1 DEF Spot
    <2> HIDE DEF bt
    <2> QED BY <2>1, <2>2
  <1>14. \A j \in DOMAIN t : j \in Q => \E k \in 1 .. m : bt[k] = j
    <2> TAKE j \in DOMAIN t
    <2> HAVE j \in Q
    <2>1. j \in P /\ j \notin a + 1 .. a + l
      OBVIOUS
    <2>2. PICK i \in 1 .. n : at[i] = j
      BY <1>3, <2>1
    <2>3. i \in Nat /\ i > 0 /\ i <= n
      BY <1>1, <2>2
    <2>4. CASE i <= a
      <3>1. i \in 1 .. m /\ Spot(i) = i
        BY <1>1, <1>2, <1>4, <2>3, <2>4 DEF Spot
      <3>2. bt[i] = j
        BY <2>2, <3>1
      <3> QED BY <3>1, <3>2
    <2>5. CASE i > a
      <3>1. i > a + l
        <4> SUFFICES ASSUME ~ (i > a + l) PROVE FALSE
          OBVIOUS
        <4>1. i \in 1 .. a + l /\ i \in a + 1 .. a + l
          BY <2>3, <2>5
        <4>2. at[i] = i
          BY <4>1
        <4> QED BY <2>1, <2>2, <4>1, <4>2
      <3> DEFINE k == i - l
      <3>2. k \in 1 .. m /\ ~ (k <= a) /\ k + l = i
        BY <1>1, <1>2, <2>3, <3>1
      <3> HIDE DEF k
      <3>3. Spot(k) = i
        BY <3>2 DEF Spot
      <3>4. bt[k] = j
        BY <2>2, <3>2, <3>3
      <3> QED BY <3>2, <3>4
    <2> QED BY <2>3, <2>4, <2>5
  <1> HIDE DEF bt
  <1>15. KeptAt(v, t, Q, bt)
    BY <1>10, <1>11, <1>12, <1>14 DEF KeptAt, m
  <1> QED BY <1>13, <1>15

\* What is kept behind what was kept in its place.
LEMMA KeptBehind ==
  ASSUME NEW S, NEW t \in Seq(S), NEW P, NEW u \in Seq(S), NEW at, KeptAt(u, t, P, at),
         NEW b \in Nat, b <= Len(u), InPlace(at, b),
         NEW Q, \A j \in DOMAIN t : j \in Q <=> j \in P /\ j > b
  PROVE  LET v == SubSeq(u, b + 1, Len(u))
         IN  v \in Seq(S) /\ \E bt : KeptAt(v, t, Q, bt)
  <1> USE DEF InPlace
  <1> DEFINE n == Len(u)
             v == SubSeq(u, b + 1, n)
             m == n - b
  <1>1. n \in Nat /\ DOMAIN t = 1 .. Len(t) /\ Len(t) \in Nat /\ b <= n
    BY SeqFacts
  <1>2. v \in Seq(S) /\ Len(v) = m /\ \A i \in 1 .. m : v[i] = u[b + i]
    <2>1. b + m = n /\ m \in Nat /\ b + m <= Len(u)
      BY <1>1
    <2> HIDE DEF m, n
    <2>2. /\ Part(u, b, m) \in Seq(S) /\ Len(Part(u, b, m)) = m
          /\ \A i \in 1 .. m : Part(u, b, m)[i] = u[b + i]
      BY <2>1, PartIs
    <2>3. Part(u, b, m) = v
      BY <2>1 DEF Part
    <2> QED BY <2>2, <2>3
  <1>3. /\ \A k \in 1 .. n : at[k] \in DOMAIN t /\ at[k] \in P /\ u[k] = t[at[k]]
        /\ \A k, j \in 1 .. n : k < j => at[k] < at[j]
        /\ \A i \in DOMAIN t : i \in P => \E k \in 1 .. n : at[k] = i
    BY DEF KeptAt
  <1> HIDE DEF v, n
  <1>4. m \in Nat /\ \A k \in 1 .. m : b + k \in 1 .. n
    BY <1>1
  <1> DEFINE bt == [k \in 1 .. m |-> at[b + k]]
  <1>5. \A k \in 1 .. m : at[b + k] > b
    <2> TAKE k \in 1 .. m
    <2>1. b + k \in 1 .. n /\ at[b + k] \in 1 .. Len(t)
      BY <1>1, <1>3, <1>4
    <2>2. CASE b = 0
      BY <2>1, <2>2
    <2>3. CASE b > 0
      <3>1. b \in 1 .. b /\ b \in 1 .. n /\ b < b + k
        BY <1>1, <2>3
      <3>2. at[b] = b
        BY <3>1
      <3>3. at[b] < at[b + k]
        BY <1>3, <2>1, <3>1
      <3> QED BY <1>1, <2>1, <3>2, <3>3
    <2> QED BY <2>2, <2>3
  <1> HIDE DEF m
  <1>6. bt \in [1 .. m -> DOMAIN t]
    BY <1>3, <1>4
  <1>7. \A k \in 1 .. m : bt[k] \in Q /\ v[k] = t[bt[k]]
    <2> TAKE k \in 1 .. m
    <2>1. bt[k] = at[b + k] /\ b + k \in 1 .. n
      BY <1>4
    <2> HIDE DEF bt
    <2>2. bt[k] \in DOMAIN t /\ bt[k] \in P /\ u[b + k] = t[bt[k]] /\ bt[k] > b
      BY <1>3, <1>5, <2>1
    <2> QED BY <1>2, <2>2
  <1>8. \A k, j \in 1 .. m : k < j => bt[k] < bt[j]
    <2> TAKE k, j \in 1 .. m
    <2> HAVE k < j
    <2>1. bt[k] = at[b + k] /\ bt[j] = at[b + j] /\ b + k \in 1 .. n /\ b + j \in 1 .. n
      BY <1>4
    <2>2. b + k < b + j
      BY <1>4
    <2> QED BY <1>3, <2>1, <2>2
  <1>9. \A j \in DOMAIN t : j \in Q => \E k \in 1 .. m : bt[k] = j
    <2> TAKE j \in DOMAIN t
    <2> HAVE j \in Q
    <2>1. j \in P /\ j > b
      OBVIOUS
    <2>2. PICK i \in 1 .. n : at[i] = j
      BY <1>3, <2>1
    <2>3. i > b
      <3> SUFFICES ASSUME ~ (i > b) PROVE FALSE
        OBVIOUS
      <3>1. i \in 1 .. b
        BY <1>1, <2>2
      <3>2. at[i] = i
        BY <3>1
      <3> QED BY <2>1, <2>2, <3>1, <3>2
    <2> DEFINE k == i - b
    <2>4. k \in 1 .. m /\ b + k = i
      BY <1>1, <2>2, <2>3 DEF m
    <2> HIDE DEF k
    <2>5. bt[k] = j
      BY <2>2, <2>4
    <2> QED BY <2>4, <2>5
  <1> HIDE DEF bt
  <1>10. KeptAt(v, t, Q, bt)
    BY <1>2, <1>6, <1>7, <1>8, <1>9 DEF KeptAt
  <1> QED BY <1>2, <1>10 DEF v, n
=============================================================================
