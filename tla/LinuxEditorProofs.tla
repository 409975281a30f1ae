------------------------- MODULE LinuxEditorProofs -------------------------
(***************************************************************************)
(* Proofs about LinuxEditor, for any documents, limits and sets of what    *)
(* the user may type, paste, search for and select.                        *)
(*                                                                         *)
(* The argument: every edit leaves in the history operations that lead     *)
(* from the text before it to the text after it (Edits); operations that   *)
(* do can be undone and redone exactly; so there is a text for each edit   *)
(* of either stack (PastLeads, FutureLeads).  Edits are shown to be of     *)
(* this kind one by one; what becomes of the stacks is shown once for each *)
(* kind of step.                                                           *)
(*                                                                         *)
(* A hexadecimal digit typed over several ranges spoils the texts of the   *)
(* history (DigitsInOneRange excludes it), but not their lengths: that     *)
(* every operation can be applied, and that undoing restores the           *)
(* selection, is shown from lengths alone (CanUndo, CanRedo), without      *)
(* that hypothesis.                                                        *)
(*                                                                         *)
(* What deleting a selection leaves is described by where its bytes were   *)
(* (KeptAt of SequenceLemmas): each range taken out, from the last one to  *)
(* the first, leaves the bytes before it in their places (Remains), and    *)
(* no two texts keep the same positions (KeptOnce).                        *)
(*                                                                         *)
(* Replacing all matches is compared with one reading of the text: what    *)
(* has been replaced is what has been written (Replaces), and what is      *)
(* found behind it is what is found in the text (FoundBehind).             *)
(***************************************************************************)
EXTENDS LinuxEditor, SequenceLemmas, FiniteSetTheorems

-----------------------------------------------------------------------------
(* Operations and the texts between them *)

Text == Seq(Byte)

EditOperations == [offset : Nat, old : Text, new : Text]

\* The operation o leads from t to u.
Turns(t, o, u) ==
    /\ o.offset + Len(o.old) <= Len(t)
    /\ BytesAt(t, o.offset, Len(o.old)) = o.old
    /\ u = Replaced(t, o.offset, Len(o.old), o.new)

\* ts are the texts between the operations os.
TextsBetween(ts, t, os, u) ==
    /\ ts \in [0 .. Len(os) -> Text]
    /\ ts[0] = t /\ ts[Len(os)] = u
    /\ \A i \in 1 .. Len(os) : Turns(ts[i - 1], os[i], ts[i])

\* The operations os lead from t to u.
Edits(t, os, u) == \E ts \in [0 .. Len(os) -> Text] : TextsBetween(ts, t, os, u)

\* Replaced and BytesAt are the Splice and the Part of SequenceLemmas.
LEMMA ReplacedIsSplice ==
  ASSUME NEW t, NEW at, NEW n, NEW b
  PROVE  Replaced(t, at, n, b) = Splice(t, at, n, b) /\ BytesAt(t, at, n) = Part(t, at, n)
  BY DEF Replaced, Splice, BytesAt, Part

\* Replacing a range that is in the text.
LEMMA ReplacedType ==
  ASSUME NEW t \in Text, NEW at \in Nat, NEW n \in Nat, InDocument(t, at, n),
         NEW b \in Text
  PROVE  /\ Replaced(t, at, n, b) \in Text
         /\ Len(Replaced(t, at, n, b)) = Len(t) - n + Len(b)
         /\ Len(t) \in Nat /\ Len(b) \in Nat
  <1> DEFINE u == Splice(t, at, n, b)
  <1>1. Spliced(u, t, at, n, b, Byte)
    BY SpliceIs DEF Text, InDocument
  <1> HIDE DEF u
  <1>2. u \in Text /\ Len(u) = Len(t) - n + Len(b)
    BY <1>1 DEF Spliced, Text
  <1>3. Len(t) \in Nat /\ Len(b) \in Nat
    BY LenProperties DEF Text
  <1> QED BY <1>2, <1>3, ReplacedIsSplice DEF u

\* What an operation has done can be undone.
LEMMA TurnsBack ==
  ASSUME NEW t \in Text, NEW o \in EditOperations, NEW u, Turns(t, o, u)
  PROVE  /\ u \in Text
         /\ InDocument(t, o.offset, Len(o.old))
         /\ InDocument(u, o.offset, Len(o.new))
         /\ Replaced(u, o.offset, Len(o.new), o.old) = t
  <1> DEFINE at == o.offset
             n == Len(o.old)
             b == o.new
  <1>1. at \in Nat /\ b \in Text /\ o.old \in Text
    BY DEF EditOperations
  <1>2. n \in Nat /\ Len(b) \in Nat /\ Len(t) \in Nat
    BY <1>1, LenProperties DEF Text
  <1>3. at + n <= Len(t) /\ o.old = Part(t, at, n) /\ u = Splice(t, at, n, b)
    BY ReplacedIsSplice DEF Turns
  <1> HIDE DEF at, n, b
  <1>4. Spliced(u, t, at, n, b, Byte)
    BY <1>1, <1>2, <1>3, SpliceIs DEF Text
  <1>5. u \in Text /\ Len(u) = Len(t) - n + Len(b)
    BY <1>4 DEF Spliced, Text
  <1>6. Splice(u, at, Len(b), o.old) = t
    BY <1>1, <1>2, <1>3, SpliceBack DEF Text
  <1>7. at + Len(b) <= Len(u)
    BY <1>1, <1>2, <1>3, <1>5
  <1>8. Replaced(u, at, Len(b), o.old) = t
    BY <1>6, ReplacedIsSplice
  <1>9. InDocument(t, at, n) /\ InDocument(u, at, Len(b))
    BY <1>3, <1>7 DEF InDocument
  <1> QED BY <1>5, <1>8, <1>9 DEF at, n, b

\* No operation leaves the text as it is.
LEMMA NoEdits ==
  ASSUME NEW t \in Text
  PROVE  Edits(t, <<>>, t)
  <1> DEFINE ts == [i \in 0 .. 0 |-> t]
  <1>1. ts \in [0 .. Len(<<>>) -> Text] /\ TextsBetween(ts, t, <<>>, t)
    BY DEF TextsBetween
  <1> QED BY <1>1 DEF Edits

\* One more operation.
LEMMA OneMoreEdit ==
  ASSUME NEW t, NEW os \in Seq(EditOperations), NEW u, Edits(t, os, u),
         NEW o \in EditOperations, NEW w, Turns(u, o, w)
  PROVE  Edits(t, Append(os, o), w)
  <1> DEFINE n == Len(os)
             more == Append(os, o)
  <1>1. n \in Nat
    BY LenProperties
  <1>2. PICK ts \in [0 .. n -> Text] : TextsBetween(ts, t, os, u)
    BY DEF Edits
  <1>3. u \in Text
    BY <1>1, <1>2 DEF TextsBetween
  <1>4. w \in Text
    BY <1>3, TurnsBack
  <1>5. Len(more) = n + 1 /\ more[n + 1] = o /\ \A i \in 1 .. n : more[i] = os[i]
    BY AppendProperties
  <1> DEFINE us == [i \in 0 .. n + 1 |-> IF i <= n THEN ts[i] ELSE w]
  <1> HIDE DEF more, n
  <1>6. us \in [0 .. n + 1 -> Text]
    BY <1>1, <1>4
  <1>7. us[0] = t /\ us[n + 1] = w
    BY <1>1, <1>2 DEF TextsBetween, n
  <1>8. \A i \in 1 .. n + 1 : Turns(us[i - 1], more[i], us[i])
    <2> TAKE i \in 1 .. n + 1
    <2>1. CASE i <= n
      <3>1. i \in 1 .. n /\ us[i - 1] = ts[i - 1] /\ us[i] = ts[i] /\ more[i] = os[i]
        BY <1>1, <1>5, <2>1
      <3>2. Turns(ts[i - 1], os[i], ts[i])
        BY <1>2, <3>1 DEF TextsBetween, n
      <3> QED BY <3>1, <3>2
    <2>2. CASE i = n + 1
      <3>1. us[i - 1] = ts[n] /\ us[i] = w /\ more[i] = o
        BY <1>1, <1>5, <2>2
      <3>2. ts[n] = u
        BY <1>2 DEF TextsBetween, n
      <3> QED BY <3>1, <3>2
    <2> QED BY <1>1, <2>1, <2>2
  <1>9. TextsBetween(us, t, more, w)
    BY <1>5, <1>6, <1>7, <1>8 DEF TextsBetween
  <1> QED BY <1>5, <1>6, <1>9 DEF Edits, more

\* An operation that is not refused.
LEMMA Applied ==
  ASSUME NEW t, NEW at, NEW n, NEW b, InDocument(t, at, n)
  PROVE  ApplyOperation([text |-> t, done |-> TRUE], at, n, b)
            = [text |-> Replaced(t, at, n, b), done |-> TRUE]
  BY DEF ApplyOperation

\* Undoing the operations that led from t to u leads back to t.
LEMMA EditsUndone ==
  ASSUME NEW t \in Text, NEW transaction,
         transaction.operations \in Seq(EditOperations),
         NEW u, Edits(t, transaction.operations, u)
  PROVE  Undone(u, transaction) = [text |-> t, done |-> TRUE]
  <1> DEFINE os == transaction.operations
             n == Len(os)
             undone[i \in 0 .. n] ==
                IF i = n THEN [text |-> u, done |-> TRUE]
                ELSE ApplyOperation(undone[i + 1], os[i + 1].offset,
                                    Len(os[i + 1].new), os[i + 1].old)
  <1>1. n \in Nat /\ \A i \in 1 .. n : os[i] \in EditOperations
    BY LenProperties, ElementOfSeq
  <1>2. PICK ts \in [0 .. n -> Text] : TextsBetween(ts, t, os, u)
    BY DEF Edits
  <1>3. Undone(u, transaction) = undone[0]
    BY DEF Undone
  <1> DEFINE back == [i \in 0 .. n |-> [text |-> ts[i], done |-> TRUE]]
  <1> DEFINE Equation(f) ==
        f = [i \in 0 .. n |->
                IF i = n THEN [text |-> u, done |-> TRUE]
                ELSE ApplyOperation(f[i + 1], os[i + 1].offset,
                                    Len(os[i + 1].new), os[i + 1].old)]
  <1>4. \A i \in 0 .. n - 1 :
           ApplyOperation(back[i + 1], os[i + 1].offset, Len(os[i + 1].new), os[i + 1].old)
              = back[i]
    <2> TAKE i \in 0 .. n - 1
    <2>1. i + 1 \in 1 .. n /\ i \in 0 .. n /\ i + 1 \in 0 .. n /\ (i + 1) - 1 = i
      BY <1>1
    <2>2. Turns(ts[i], os[i + 1], ts[i + 1])
      BY <1>2, <2>1 DEF TextsBetween
    <2>3. /\ InDocument(ts[i + 1], os[i + 1].offset, Len(os[i + 1].new))
          /\ Replaced(ts[i + 1], os[i + 1].offset, Len(os[i + 1].new), os[i + 1].old) = ts[i]
      BY <1>1, <1>2, <2>1, <2>2, TurnsBack
    <2>4. back[i] = [text |-> ts[i], done |-> TRUE] /\ back[i + 1] = [text |-> ts[i + 1], done |-> TRUE]
      BY <2>1
    <2> HIDE DEF back, os
    <2> QED BY <2>3, <2>4, Applied
  <1>5. back[n] = [text |-> u, done |-> TRUE] /\ back[0] = [text |-> t, done |-> TRUE]
    <2>1. ts[0] = t /\ ts[n] = u
      BY <1>2 DEF TextsBetween
    <2> HIDE DEF n
    <2> QED BY <1>1, <2>1
  <1>6. Equation(back)
    <2>1. back = [i \in 0 .. n |-> back[i]]
      OBVIOUS
    <2>2. \A i \in 0 .. n :
             back[i] = IF i = n THEN [text |-> u, done |-> TRUE]
                       ELSE ApplyOperation(back[i + 1], os[i + 1].offset,
                                           Len(os[i + 1].new), os[i + 1].old)
      <3> TAKE i \in 0 .. n
      <3>1. CASE i = n
        BY <1>5, <3>1
      <3>2. CASE i # n
        <4>1. i \in 0 .. n - 1
          BY <1>1, <3>2
        <4> HIDE DEF back
        <4> QED BY <1>4, <3>2, <4>1
      <3> QED BY <3>1, <3>2
    <2> HIDE DEF back, os
    <2> QED BY <2>1, <2>2
  <1>7. undone = CHOOSE f : Equation(f)
    OBVIOUS
  <1> HIDE DEF undone, Equation, back
  <1>8. Equation(undone)
    BY <1>6, <1>7
  <1>9. \A i \in 0 .. n : undone[i] = back[i]
    <2>1. undone[n] = back[n]
      BY <1>1, <1>5, <1>8 DEF Equation
    <2>2. \A i \in 0 .. n - 1 : undone[i + 1] = back[i + 1] => undone[i] = back[i]
      <3> TAKE i \in 0 .. n - 1
      <3>1. i \in 0 .. n /\ i # n
        BY <1>1
      <3>2. undone[i] = ApplyOperation(undone[i + 1], os[i + 1].offset,
                                       Len(os[i + 1].new), os[i + 1].old)
        BY <1>8, <3>1 DEF Equation
      <3> QED BY <1>4, <3>2
    <2> HIDE DEF os, n
    <2> QED BY <1>1, <2>1, <2>2, SameDownFrom
  <1> QED BY <1>1, <1>3, <1>5, <1>9

\* Redoing the operations that led from t to u leads to u.
LEMMA EditsRedone ==
  ASSUME NEW t \in Text, NEW transaction,
         transaction.operations \in Seq(EditOperations),
         NEW u, Edits(t, transaction.operations, u)
  PROVE  Redone(t, transaction) = [text |-> u, done |-> TRUE]
  <1> DEFINE os == transaction.operations
             n == Len(os)
             redone[i \in 0 .. n] ==
                IF i = 0 THEN [text |-> t, done |-> TRUE]
                ELSE ApplyOperation(redone[i - 1], os[i].offset,
                                    Len(os[i].old), os[i].new)
             Equation(f) ==
                f = [i \in 0 .. n |->
                        IF i = 0 THEN [text |-> t, done |-> TRUE]
                        ELSE ApplyOperation(f[i - 1], os[i].offset,
                                            Len(os[i].old), os[i].new)]
  <1>1. n \in Nat /\ \A i \in 1 .. n : os[i] \in EditOperations
    BY LenProperties, ElementOfSeq
  <1>2. PICK ts \in [0 .. n -> Text] : TextsBetween(ts, t, os, u)
    BY DEF Edits
  <1>3. Redone(t, transaction) = redone[n]
    BY DEF Redone
  <1> DEFINE forth == [i \in 0 .. n |-> [text |-> ts[i], done |-> TRUE]]
  <1>4. \A i \in 1 .. n :
           ApplyOperation(forth[i - 1], os[i].offset, Len(os[i].old), os[i].new)
              = forth[i]
    <2> TAKE i \in 1 .. n
    <2>1. i \in 0 .. n /\ i - 1 \in 0 .. n
      BY <1>1
    <2>2. Turns(ts[i - 1], os[i], ts[i])
      BY <1>2, <2>1 DEF TextsBetween
    <2>3. /\ InDocument(ts[i - 1], os[i].offset, Len(os[i].old))
          /\ Replaced(ts[i - 1], os[i].offset, Len(os[i].old), os[i].new) = ts[i]
      BY <2>2 DEF Turns, InDocument
    <2>4. forth[i - 1] = [text |-> ts[i - 1], done |-> TRUE] /\ forth[i] = [text |-> ts[i], done |-> TRUE]
      BY <2>1
    <2> HIDE DEF forth, os
    <2> QED BY <2>3, <2>4, Applied
  <1>5. forth[n] = [text |-> u, done |-> TRUE] /\ forth[0] = [text |-> t, done |-> TRUE]
    <2>1. ts[0] = t /\ ts[n] = u
      BY <1>2 DEF TextsBetween
    <2> HIDE DEF n
    <2> QED BY <1>1, <2>1
  <1>6. Equation(forth)
    <2>1. forth = [i \in 0 .. n |-> forth[i]]
      OBVIOUS
    <2>2. \A i \in 0 .. n :
             forth[i] = IF i = 0 THEN [text |-> t, done |-> TRUE]
                        ELSE ApplyOperation(forth[i - 1], os[i].offset,
                                            Len(os[i].old), os[i].new)
      <3> TAKE i \in 0 .. n
      <3>1. CASE i = 0
        BY <1>5, <3>1
      <3>2. CASE i # 0
        <4>1. i \in 1 .. n
          BY <1>1, <3>2
        <4> HIDE DEF forth
        <4> QED BY <1>4, <3>2, <4>1
      <3> QED BY <3>1, <3>2
    <2> HIDE DEF forth, os
    <2> QED BY <2>1, <2>2
  <1>7. redone = CHOOSE f : Equation(f)
    OBVIOUS
  <1> HIDE DEF redone, Equation, forth
  <1>8. Equation(redone)
    BY <1>6, <1>7
  <1>9. \A i \in 0 .. n : redone[i] = forth[i]
    <2>1. redone[0] = forth[0]
      BY <1>1, <1>5, <1>8 DEF Equation
    <2>2. \A i \in 1 .. n : redone[i - 1] = forth[i - 1] => redone[i] = forth[i]
      <3> TAKE i \in 1 .. n
      <3>1. i \in 0 .. n /\ i # 0
        BY <1>1
      <3>2. redone[i] = ApplyOperation(redone[i - 1], os[i].offset,
                                       Len(os[i].old), os[i].new)
        BY <1>8, <3>1 DEF Equation
      <3> QED BY <1>4, <3>2
    <2> HIDE DEF os, n
    <2> QED BY <1>1, <2>1, <2>2, SameUpTo, ZenonT(60)
  <1> QED BY <1>1, <1>3, <1>5, <1>9

-----------------------------------------------------------------------------
(* The texts of the history *)

\* A selection, as the history keeps it.
Selection == [offset : Nat, length : Nat, anchor : Nat, additional : SUBSET Nat]

Transactions == [before : Selection, after : Selection,
                 operations : Seq(EditOperations) \ {<<>>}]

\* The selection s is in the text t.
Inside(s, t) ==
    /\ s.offset + s.length <= Len(t) /\ s.anchor <= Len(t)
    /\ s.additional \subseteq 0 .. (Len(t) - 1)

\* The transaction leads from t, where its first selection is, to u.
Leads(t, transaction, u) ==
    Edits(t, transaction.operations, u) /\ Inside(transaction.before, t)

\* past[i] is a text to which undoing leads back from t, the i-th of the stack
\* having led from past[i - 1] to past[i].
PastLeads(past, t, stack) ==
    /\ past \in [0 .. Len(stack) -> Text]
    /\ past[Len(stack)] = t
    /\ \A i \in 1 .. Len(stack) : Leads(past[i - 1], stack[i], past[i])

\* future[i] is the text after redoing i edits.
FutureLeads(future, t, stack) ==
    /\ future \in [0 .. Len(stack) -> Text]
    /\ future[0] = t
    /\ \A i \in 1 .. Len(stack) :
          Leads(future[i - 1], stack[Len(stack) - i + 1], future[i])

\* There is only one such past, that of undoing.
LEMMA PastIs ==
  ASSUME NEW t, NEW stack \in Seq(Transactions), NEW past, PastLeads(past, t, stack)
  PROVE  PastTexts(t, stack) = past
  <1> DEFINE n == Len(stack)
             before[i \in 0 .. n] ==
                IF i = n THEN t ELSE Undone(before[i + 1], stack[i + 1]).text
             Equation(f) ==
                f = [i \in 0 .. n |->
                        IF i = n THEN t ELSE Undone(f[i + 1], stack[i + 1]).text]
  <1>1. n \in Nat /\ \A i \in 1 .. n : stack[i].operations \in Seq(EditOperations)
    <2>1. n \in Nat /\ \A i \in 1 .. n : stack[i] \in Transactions
      BY LenProperties, ElementOfSeq
    <2> QED BY <2>1 DEF Transactions
  <1>2. PastTexts(t, stack) = before
    BY DEF PastTexts
  <1>3. \A i \in 0 .. n - 1 : Undone(past[i + 1], stack[i + 1]).text = past[i]
    <2> TAKE i \in 0 .. n - 1
    <2>1. i + 1 \in 1 .. n /\ i \in 0 .. n /\ (i + 1) - 1 = i
      BY <1>1
    <2>2. Edits(past[i], stack[i + 1].operations, past[i + 1]) /\ past[i] \in Text
      BY <2>1 DEF PastLeads, Leads
    <2>3. Undone(past[i + 1], stack[i + 1]) = [text |-> past[i], done |-> TRUE]
      BY <1>1, <2>1, <2>2, EditsUndone
    <2> QED BY <2>3
  <1>4. Equation(past)
    <2>1. past = [i \in 0 .. n |-> past[i]] /\ past[n] = t
      BY DEF PastLeads
    <2>2. \A i \in 0 .. n :
             past[i] = IF i = n THEN t ELSE Undone(past[i + 1], stack[i + 1]).text
      <3> TAKE i \in 0 .. n
      <3>1. i # n => i \in 0 .. n - 1
        BY <1>1
      <3> QED BY <1>3, <2>1, <3>1
    <2> QED BY <2>1, <2>2
  <1>5. before = CHOOSE f : Equation(f)
    OBVIOUS
  <1> HIDE DEF before, Equation
  <1>6. Equation(before)
    BY <1>4, <1>5
  <1>7. \A i \in 0 .. n : before[i] = past[i]
    <2>1. before[n] = past[n]
      BY <1>1, <1>4, <1>6 DEF Equation
    <2>2. \A i \in 0 .. n - 1 : before[i + 1] = past[i + 1] => before[i] = past[i]
      <3> TAKE i \in 0 .. n - 1
      <3>1. i \in 0 .. n /\ i # n
        BY <1>1
      <3>2. before[i] = Undone(before[i + 1], stack[i + 1]).text
        BY <1>6, <3>1 DEF Equation
      <3> QED BY <1>3, <3>2
    <2> HIDE DEF n
    <2> QED BY <1>1, <2>1, <2>2, SameDownFrom
  <1>8. before = [i \in 0 .. n |-> before[i]] /\ past = [i \in 0 .. n |-> past[i]]
    <2>1. before = [i \in 0 .. n |-> before[i]]
      BY <1>6 DEF Equation
    <2> QED BY <2>1 DEF PastLeads
  <1> HIDE DEF n
  <1>9. before = past
    BY <1>7, <1>8
  <1> QED BY <1>2, <1>9

\* And only one such future, that of redoing.
LEMMA FutureIs ==
  ASSUME NEW t, NEW stack \in Seq(Transactions), NEW future, FutureLeads(future, t, stack)
  PROVE  FutureTexts(t, stack) = future
  <1> DEFINE n == Len(stack)
             after[i \in 0 .. n] ==
                IF i = 0 THEN t ELSE Redone(after[i - 1], stack[n - i + 1]).text
             Equation(f) ==
                f = [i \in 0 .. n |->
                        IF i = 0 THEN t ELSE Redone(f[i - 1], stack[n - i + 1]).text]
  <1>1. n \in Nat /\ \A i \in 1 .. n : stack[i].operations \in Seq(EditOperations)
    <2>1. n \in Nat /\ \A i \in 1 .. n : stack[i] \in Transactions
      BY LenProperties, ElementOfSeq
    <2> QED BY <2>1 DEF Transactions
  <1>2. FutureTexts(t, stack) = after
    BY DEF FutureTexts
  <1>3. \A i \in 1 .. n : Redone(future[i - 1], stack[n - i + 1]).text = future[i]
    <2> TAKE i \in 1 .. n
    <2>1. n - i + 1 \in 1 .. n /\ i - 1 \in 0 .. n
      BY <1>1
    <2>2. Edits(future[i - 1], stack[n - i + 1].operations, future[i]) /\ future[i - 1] \in Text
      BY <2>1 DEF FutureLeads, Leads
    <2>3. Redone(future[i - 1], stack[n - i + 1]) = [text |-> future[i], done |-> TRUE]
      BY <1>1, <2>1, <2>2, EditsRedone
    <2> QED BY <2>3
  <1>4. Equation(future)
    <2>1. future = [i \in 0 .. n |-> future[i]] /\ future[0] = t
      BY DEF FutureLeads
    <2>2. \A i \in 0 .. n :
             future[i] = IF i = 0 THEN t ELSE Redone(future[i - 1], stack[n - i + 1]).text
      <3> TAKE i \in 0 .. n
      <3>1. i # 0 => i \in 1 .. n
        BY <1>1
      <3> QED BY <1>3, <2>1, <3>1
    <2> QED BY <2>1, <2>2
  <1>5. after = CHOOSE f : Equation(f)
    OBVIOUS
  <1> HIDE DEF after, Equation
  <1>6. Equation(after)
    BY <1>4, <1>5
  <1>7. \A i \in 0 .. n : after[i] = future[i]
    <2>1. after[0] = future[0]
      BY <1>1, <1>4, <1>6 DEF Equation
    <2>2. \A i \in 1 .. n : after[i - 1] = future[i - 1] => after[i] = future[i]
      <3> TAKE i \in 1 .. n
      <3>1. i \in 0 .. n /\ i # 0
        BY <1>1
      <3>2. after[i] = Redone(after[i - 1], stack[n - i + 1]).text
        BY <1>6, <3>1 DEF Equation
      <3> QED BY <1>3, <3>2
    <2> HIDE DEF n
    <2> QED BY <1>1, <2>1, <2>2, SameUpTo, ZenonT(60)
  <1>8. after = [i \in 0 .. n |-> after[i]] /\ future = [i \in 0 .. n |-> future[i]]
    <2>1. after = [i \in 0 .. n |-> after[i]]
      BY <1>6 DEF Equation
    <2> QED BY <2>1 DEF FutureLeads
  <1> HIDE DEF n
  <1>9. after = future
    BY <1>7, <1>8
  <1> QED BY <1>2, <1>9

-----------------------------------------------------------------------------
(* Ranges of a set of positions *)

\* A finite set of natural numbers that is not empty has a greatest element.
LEMMA GreatestElement ==
  ASSUME NEW S \in SUBSET Nat, S # {}, IsFiniteSet(S)
  PROVE  \E m \in S : \A n \in S : n <= m
  <1> DEFINE Above(x) == {y \in S : y > x}
             sizes == {Cardinality(Above(x)) : x \in S}
  <1>1. \A x \in S : IsFiniteSet(Above(x)) /\ Cardinality(Above(x)) \in Nat
    <2> TAKE x \in S
    <2>1. Above(x) \in SUBSET S
      OBVIOUS
    <2> HIDE DEF Above
    <2>2. IsFiniteSet(Above(x))
      BY <2>1, FS_Subset
    <2> QED BY <2>2, FS_CardinalityType
  <1>2. PICK m \in S : \A n \in S : Cardinality(Above(m)) <= Cardinality(Above(n))
    <2>1. sizes \in SUBSET Nat /\ sizes # {}
      BY <1>1
    <2>2. PICK c \in sizes : \A d \in sizes : c <= d
      <3> HIDE DEF sizes
      <3> QED BY <2>1, LeastElement
    <2> QED BY <2>2
  <1>3. SUFFICES ASSUME NEW n \in S, ~ (n <= m) PROVE FALSE
    OBVIOUS
  <1>4. Above(n) \in SUBSET Above(m) /\ n \in Above(m) /\ n \notin Above(n)
    <2>1. m \in Nat /\ n \in Nat /\ m < n
      BY <1>3
    <2>2. \A y \in S : y \in Nat
      OBVIOUS
    <2>3. \A y \in S : y > n => y > m
      BY <2>1, <2>2
    <2>4. Above(n) \in SUBSET Above(m)
      BY <2>3
    <2>5. n \in Above(m) /\ n \notin Above(n)
      BY <2>1, <1>3
    <2> QED BY <2>4, <2>5
  <1> HIDE DEF Above
  <1>5. Cardinality(Above(n)) <= Cardinality(Above(m)) /\ Cardinality(Above(m)) # Cardinality(Above(n))
    <2>1. Above(n) # Above(m)
      BY <1>4
    <2> QED BY <1>1, <1>4, <2>1, FS_Subset
  <1>6. Cardinality(Above(n)) \in Nat /\ Cardinality(Above(m)) \in Nat
    BY <1>1
  <1> QED BY <1>2, <1>3, <1>5, <1>6

\* What a range of positions is.
IsRange(r, S) ==
    /\ r \in [offset : Nat, length : Nat \ {0}]
    /\ Positions(r.offset, r.length) \subseteq S
    /\ r.offset - 1 \notin S /\ r.offset + r.length \notin S

\* Ranges(S) are the longest runs of positions in S.
LEMMA RangesAre ==
  ASSUME NEW S \in SUBSET Nat, NEW r
  PROVE  r \in Ranges(S) <=> IsRange(r, S)
  <1>1. ASSUME r \in Ranges(S) PROVE IsRange(r, S)
    <2>1. PICK p \in S \X S :
             /\ r = [offset |-> p[1], length |-> p[2] - p[1] + 1]
             /\ p[1] <= p[2] /\ p[1] .. p[2] \subseteq S
             /\ p[1] - 1 \notin S /\ p[2] + 1 \notin S
      BY <1>1 DEF Ranges
    <2>2. p[1] \in Nat /\ p[2] \in Nat
      BY <2>1
    <2>3. p[1] + (p[2] - p[1] + 1) = p[2] + 1 /\ p[1] + (p[2] - p[1] + 1) - 1 = p[2]
      BY <2>2
    <2> QED BY <2>1, <2>2, <2>3 DEF IsRange, Positions
  <1>2. ASSUME IsRange(r, S) PROVE r \in Ranges(S)
    <2> DEFINE p == <<r.offset, r.offset + r.length - 1>>
    <2>1. r.offset \in Nat /\ r.length \in Nat /\ r.length > 0
      BY <1>2 DEF IsRange
    <2>2. r.offset .. r.offset + r.length - 1 \subseteq S
      BY <1>2 DEF IsRange, Positions
    <2>3. p \in S \X S /\ p[1] <= p[2] /\ p[1] .. p[2] \subseteq S
      BY <2>1, <2>2
    <2>4. p[1] - 1 \notin S /\ p[2] + 1 \notin S
      <3>1. r.offset + r.length - 1 + 1 = r.offset + r.length
        BY <2>1
      <3> QED BY <1>2, <3>1 DEF IsRange
    <2>5. r = [offset |-> p[1], length |-> p[2] - p[1] + 1]
      <3>1. r.offset + r.length - 1 - r.offset + 1 = r.length
        BY <2>1
      <3> QED BY <1>2, <3>1 DEF IsRange
    <2> HIDE DEF p
    <2> QED BY <2>3, <2>4, <2>5 DEF Ranges
  <1> QED BY <1>1, <1>2

\* Of two ranges one ends before the other begins.
LEMMA RangesApart ==
  ASSUME NEW S \in SUBSET Nat, NEW r \in Ranges(S), NEW s \in Ranges(S),
         r.offset <= s.offset
  PROVE  r = s \/ r.offset + r.length < s.offset
  <1>1. IsRange(r, S) /\ IsRange(s, S)
    BY RangesAre
  <1>2. /\ r.offset \in Nat /\ r.length \in Nat /\ r.length > 0
        /\ s.offset \in Nat /\ s.length \in Nat /\ s.length > 0
    BY <1>1 DEF IsRange
  <1>3. CASE r.offset = s.offset
    <2>1. ~ (r.length < s.length)
      <3> SUFFICES ASSUME r.length < s.length PROVE FALSE
        OBVIOUS
      <3>1. r.offset + r.length \in Positions(s.offset, s.length)
        BY <1>2, <1>3 DEF Positions
      <3> QED BY <1>1, <3>1 DEF IsRange
    <2>2. ~ (s.length < r.length)
      <3> SUFFICES ASSUME s.length < r.length PROVE FALSE
        OBVIOUS
      <3>1. s.offset + s.length \in Positions(r.offset, r.length)
        BY <1>2, <1>3 DEF Positions
      <3> QED BY <1>1, <3>1 DEF IsRange
    <2>3. r.length = s.length
      BY <1>2, <2>1, <2>2
    <2> QED BY <1>1, <1>3, <2>3 DEF IsRange
  <1>4. CASE r.offset < s.offset
    <2>1. ~ (s.offset <= r.offset + r.length)
      <3> SUFFICES ASSUME s.offset <= r.offset + r.length PROVE FALSE
        OBVIOUS
      <3>1. s.offset - 1 \in Positions(r.offset, r.length)
        BY <1>2, <1>4 DEF Positions
      <3> QED BY <1>1, <3>1 DEF IsRange
    <2> QED BY <1>2, <2>1
  <1> QED BY <1>2, <1>3, <1>4

\* There are as many ranges as there are starts of ranges.
LEMMA RangesFinite ==
  ASSUME NEW S \in SUBSET Nat, IsFiniteSet(S)
  PROVE  IsFiniteSet(Ranges(S))
  <1> DEFINE start == [r \in Ranges(S) |-> r.offset]
  <1>1. \A r \in Ranges(S) : r.offset \in S /\ r.offset \in Nat
    <2> TAKE r \in Ranges(S)
    <2>1. IsRange(r, S)
      BY RangesAre
    <2>2. r.offset \in Nat /\ r.length \in Nat /\ r.length > 0
      BY <2>1 DEF IsRange
    <2>3. r.offset \in Positions(r.offset, r.length)
      BY <2>2 DEF Positions
    <2> QED BY <2>1, <2>2, <2>3 DEF IsRange
  <1>2. \A r, s \in Ranges(S) : r.offset = s.offset => r = s
    <2> TAKE r, s \in Ranges(S)
    <2> HAVE r.offset = s.offset
    <2>1. IsRange(r, S) /\ r.offset \in Nat
      BY <1>1, RangesAre
    <2>2. r.length \in Nat
      BY <2>1 DEF IsRange
    <2>3. r = s \/ r.offset + r.length < s.offset
      BY <2>1, RangesApart
    <2> QED BY <2>1, <2>2, <2>3
  <1>3. start \in [Ranges(S) -> S]
    BY <1>1
  <1>4. \A r, s \in Ranges(S) : start[r] = start[s] => r = s
    BY <1>2
  <1> HIDE DEF start
  <1>5. start \in Injection(Ranges(S), S)
    BY <1>3, <1>4 DEF Injection, IsInjective
  <1> QED BY <1>5, FS_Injection

\* Every position of S is in one of its ranges.
LEMMA RangesCover ==
  ASSUME NEW S \in SUBSET Nat, IsFiniteSet(S), NEW x \in S
  PROVE  \E r \in Ranges(S) : x \in Positions(r.offset, r.length)
  <1> DEFINE ends == {e \in S : x .. e \subseteq S}
  <1>1. PICK z \in ends : \A e \in ends : e <= z
    <2>1. x .. x = {x}
      OBVIOUS
    <2>2. ends \in SUBSET Nat /\ ends \in SUBSET S /\ x \in ends
      BY <2>1
    <2>3. IsFiniteSet(ends)
      BY <2>2, FS_Subset
    <2> HIDE DEF ends
    <2> QED BY <2>2, <2>3, GreatestElement
  <1> DEFINE starts == {a \in S : a .. z \subseteq S}
  <1>2. starts \in SUBSET Nat /\ x \in starts
    BY <1>1
  <1>3. PICK a \in starts : \A b \in starts : a <= b
    <2> HIDE DEF starts
    <2> QED BY <1>2, LeastElement
  <1> DEFINE r == [offset |-> a, length |-> z - a + 1]
  <1>4. a \in Nat /\ z \in Nat /\ x \in Nat /\ a <= x
    BY <1>1, <1>2, <1>3
  <1>5. x <= z
    <2> SUFFICES ASSUME ~ (x <= z) PROVE FALSE
      OBVIOUS
    <2>1. x .. x = {x}
      OBVIOUS
    <2>2. x \in ends
      BY <2>1
    <2> HIDE DEF ends
    <2> QED BY <1>1, <2>2
  <1>6. a - 1 \notin S
    <2> SUFFICES ASSUME a - 1 \in S PROVE FALSE
      OBVIOUS
    <2>1. a - 1 .. z \subseteq S
      <3>1. a .. z \subseteq S
        BY <1>3
      <3>2. \A i \in a - 1 .. z : i = a - 1 \/ i \in a .. z
        BY <1>4
      <3> QED BY <3>1, <3>2
    <2>2. a - 1 \in starts
      BY <2>1
    <2> HIDE DEF starts
    <2> QED BY <1>3, <1>4, <2>2
  <1>7. z + 1 \notin S
    <2> SUFFICES ASSUME z + 1 \in S PROVE FALSE
      OBVIOUS
    <2>1. x .. z + 1 \subseteq S
      <3>1. x .. z \subseteq S
        BY <1>1
      <3>2. \A i \in x .. z + 1 : i = z + 1 \/ i \in x .. z
        BY <1>4
      <3> QED BY <3>1, <3>2
    <2>2. z + 1 \in ends
      BY <2>1
    <2> HIDE DEF ends
    <2> QED BY <1>1, <1>4, <2>2
  <1>8. a + (z - a + 1) = z + 1 /\ a + (z - a + 1) - 1 = z /\ z - a + 1 \in Nat \ {0}
    BY <1>4, <1>5
  <1>9. IsRange(r, S)
    <2>1. r \in [offset : Nat, length : Nat \ {0}]
      BY <1>4, <1>8
    <2>2. Positions(r.offset, r.length) \subseteq S
      BY <1>3, <1>8 DEF Positions
    <2> QED BY <1>6, <1>7, <1>8, <2>1, <2>2 DEF IsRange
  <1>10. x \in Positions(r.offset, r.length)
    BY <1>4, <1>5, <1>8 DEF Positions
  <1> HIDE DEF r
  <1> QED BY <1>9, <1>10, RangesAre

\* The ranges rs, of S, come one before the other from the end.
FromEnd(rs, S) ==
    /\ rs \in Seq(Ranges(S))
    /\ \A i, j \in 1 .. Len(rs) :
          i < j => rs[j].offset + rs[j].length < rs[i].offset

\* So does RangesFromEnd give them, and all of them; if any position is
\* selected, there is one.
LEMMA RangesInOrder ==
  ASSUME NEW S \in SUBSET Nat, IsFiniteSet(S)
  PROVE  /\ FromEnd(RangesFromEnd(S), S)
         /\ \A r \in Ranges(S) : \E i \in 1 .. Len(RangesFromEnd(S)) : RangesFromEnd(S)[i] = r
         /\ S # {} => RangesFromEnd(S) # <<>>
  <1> DEFINE n == Cardinality(Ranges(S))
             Behind(r) == {s \in Ranges(S) : s.offset > r.offset}
             rank == [r \in Ranges(S) |-> Cardinality(Behind(r))]
             rs == RangesFromEnd(S)
  <1>1. IsFiniteSet(Ranges(S)) /\ n \in Nat
    BY RangesFinite, FS_CardinalityType
  <1>2. \A r \in Ranges(S) : r.offset \in Nat /\ r.length \in Nat
    BY RangesAre DEF IsRange
  <1>3. \A r \in Ranges(S) :
           /\ Behind(r) \in SUBSET Ranges(S) /\ r \notin Behind(r)
           /\ IsFiniteSet(Behind(r))
           /\ Cardinality(Behind(r)) \in Nat /\ Cardinality(Behind(r)) < n
    <2> TAKE r \in Ranges(S)
    <2>1. Behind(r) \in SUBSET Ranges(S) /\ r \notin Behind(r)
      BY <1>2
    <2> HIDE DEF Behind
    <2>2. IsFiniteSet(Behind(r)) /\ Cardinality(Behind(r)) <= n /\ Cardinality(Behind(r)) # n
      <3>1. Behind(r) # Ranges(S)
        BY <2>1
      <3> QED BY <1>1, <2>1, <3>1, FS_Subset
    <2>3. Cardinality(Behind(r)) \in Nat
      BY <2>2, FS_CardinalityType
    <2> QED BY <1>1, <2>1, <2>2, <2>3
  <1>4. \A r, s \in Ranges(S) :
           r.offset < s.offset => Cardinality(Behind(s)) < Cardinality(Behind(r))
    <2> TAKE r, s \in Ranges(S)
    <2> HAVE r.offset < s.offset
    <2>1. Behind(s) \in SUBSET Behind(r) /\ s \in Behind(r) /\ s \notin Behind(s)
      BY <1>2
    <2>2. Behind(s) # Behind(r)
      BY <2>1
    <2>3. /\ IsFiniteSet(Behind(r))
          /\ Cardinality(Behind(s)) \in Nat /\ Cardinality(Behind(r)) \in Nat
      BY <1>3
    <2> HIDE DEF Behind
    <2>4. Cardinality(Behind(s)) <= Cardinality(Behind(r)) /\ Cardinality(Behind(r)) # Cardinality(Behind(s))
      BY <2>1, <2>2, <2>3, FS_Subset
    <2> QED BY <2>3, <2>4
  <1>5. \A r, s \in Ranges(S) : r.offset = s.offset => r = s
    <2> TAKE r, s \in Ranges(S)
    <2> HAVE r.offset = s.offset
    <2>1. r = s \/ r.offset + r.length < s.offset
      BY <1>2, RangesApart
    <2> QED BY <1>2, <2>1
  <1>6. \A r, s \in Ranges(S) : Cardinality(Behind(r)) = Cardinality(Behind(s)) => r = s
    <2> TAKE r, s \in Ranges(S)
    <2> HAVE Cardinality(Behind(r)) = Cardinality(Behind(s))
    <2>1. Cardinality(Behind(r)) \in Nat /\ Cardinality(Behind(s)) \in Nat
      BY <1>3
    <2>2. /\ r.offset < s.offset => Cardinality(Behind(s)) < Cardinality(Behind(r))
          /\ s.offset < r.offset => Cardinality(Behind(r)) < Cardinality(Behind(s))
      BY <1>4
    <2> HIDE DEF Behind
    <2>3. r.offset = s.offset
      BY <1>2, <2>1, <2>2
    <2> QED BY <1>5, <2>3
  <1>7. \A k \in 0 .. n - 1 : \E r \in Ranges(S) : Cardinality(Behind(r)) = k
    <2>1. rank \in [Ranges(S) -> 0 .. n - 1]
      <3>1. \A r \in Ranges(S) : Cardinality(Behind(r)) \in 0 .. n - 1
        <4> HIDE DEF Behind, n
        <4> QED BY <1>1, <1>3
      <3> HIDE DEF Behind, n
      <3> QED BY <3>1
    <2>2. \A r, s \in Ranges(S) : rank[r] = rank[s] => r = s
      BY <1>6
    <2>3. \A r \in Ranges(S) : rank[r] = Cardinality(Behind(r))
      OBVIOUS
    <2> HIDE DEF rank, Behind
    <2>4. rank \in Injection(Ranges(S), 0 .. n - 1)
      BY <2>1, <2>2 DEF Injection, IsInjective
    <2>5. IsFiniteSet(0 .. n - 1) /\ Cardinality(0 .. n - 1) = n
      <3>1. n - 1 \in Int /\ 0 \in Int
        BY <1>1
      <3>2. /\ IsFiniteSet(0 .. n - 1)
            /\ Cardinality(0 .. n - 1) = IF 0 > n - 1 THEN 0 ELSE n - 1 - 0 + 1
        BY <3>1, FS_Interval
      <3> HIDE DEF n
      <3> QED BY <1>1, <3>2
    <2>6. rank \in Surjection(Ranges(S), 0 .. n - 1)
      BY <2>4, <2>5, FS_Injection
    <2> QED BY <2>3, <2>6 DEF Surjection
  <1>8. rs = [i \in 1 .. n |-> CHOOSE r \in Ranges(S) : Cardinality(Behind(r)) = i - 1]
    BY DEF RangesFromEnd
  <1> HIDE DEF rs, Behind
  <1>9. \A i \in 1 .. n : rs[i] \in Ranges(S) /\ Cardinality(Behind(rs[i])) = i - 1
    <2> TAKE i \in 1 .. n
    <2>1. i - 1 \in 0 .. n - 1
      BY <1>1
    <2>2. \E r \in Ranges(S) : Cardinality(Behind(r)) = i - 1
      BY <1>7, <2>1
    <2>3. rs[i] = CHOOSE r \in Ranges(S) : Cardinality(Behind(r)) = i - 1
      BY <1>8
    <2> QED BY <2>2, <2>3
  <1>10. rs \in Seq(Ranges(S)) /\ Len(rs) = n
    <2>1. rs \in [1 .. n -> Ranges(S)]
      BY <1>8, <1>9
    <2> HIDE DEF n
    <2> QED BY <1>1, <2>1, SeqDef
  <1>11. \A i, j \in 1 .. n : i < j => rs[j].offset + rs[j].length < rs[i].offset
    <2> TAKE i, j \in 1 .. n
    <2> HAVE i < j
    <2>1. /\ rs[i] \in Ranges(S) /\ rs[j] \in Ranges(S)
          /\ Cardinality(Behind(rs[i])) = i - 1 /\ Cardinality(Behind(rs[j])) = j - 1
      BY <1>9
    <2>2. i \in Nat /\ j \in Nat /\ rs[i].offset \in Nat /\ rs[j].offset \in Nat
      BY <1>2, <2>1
    <2>3. rs[i].offset < rs[j].offset => j - 1 < i - 1
      BY <1>4, <2>1
    <2>4. rs[j].offset <= rs[i].offset
      BY <2>2, <2>3
    <2>5. rs[i] # rs[j]
      BY <2>1, <2>2
    <2> QED BY <2>1, <2>4, <2>5, RangesApart
  <1>12. S # {} => rs # <<>>
    <2> HAVE S # {}
    <2>1. Ranges(S) # {}
      BY RangesCover
    <2>2. n # 0
      BY <1>1, <2>1, FS_EmptySet
    <2> QED BY <1>10, <2>2
  <1>13. \A r \in Ranges(S) : \E i \in 1 .. n : rs[i] = r
    <2> TAKE r \in Ranges(S)
    <2> DEFINE i == Cardinality(Behind(r)) + 1
    <2>1. i \in 1 .. n /\ i - 1 = Cardinality(Behind(r))
      BY <1>1, <1>3
    <2> HIDE DEF i
    <2>2. rs[i] \in Ranges(S) /\ Cardinality(Behind(rs[i])) = Cardinality(Behind(r))
      BY <1>9, <2>1
    <2>3. rs[i] = r
      BY <1>6, <2>2
    <2> QED BY <2>1, <2>3
  <1> QED BY <1>10, <1>11, <1>12, <1>13 DEF FromEnd, rs

-----------------------------------------------------------------------------
(* The edits of several operations *)

\* The operation the history keeps of a replacement leads from the text before
\* it to the text after it.
LEMMA OperationTurns ==
  ASSUME NEW t \in Text, NEW at \in Nat, NEW n \in Nat, InDocument(t, at, n),
         NEW b \in Text
  PROVE  /\ Operation(t, at, n, b) \in EditOperations
         /\ Operation(t, at, n, b).offset = at
         /\ Operation(t, at, n, b).new = b
         /\ Turns(t, Operation(t, at, n, b), Replaced(t, at, n, b))
  <1> DEFINE o == Operation(t, at, n, b)
  <1>1. at + n <= Len(t)
    BY DEF InDocument
  <1>2. BytesAt(t, at, n) \in Text /\ Len(BytesAt(t, at, n)) = n
    <2>1. Part(t, at, n) \in Text /\ Len(Part(t, at, n)) = n
      BY <1>1, PartIs DEF Text
    <2> QED BY <2>1, ReplacedIsSplice
  <1>3. o.offset = at /\ o.old = BytesAt(t, at, n) /\ o.new = b
    BY DEF Operation
  <1>4. o \in EditOperations
    BY <1>2 DEF Operation, EditOperations
  <1> HIDE DEF o
  <1>5. Turns(t, o, Replaced(t, at, n, b))
    BY <1>1, <1>2, <1>3 DEF Turns
  <1> QED BY <1>3, <1>4, <1>5 DEF o

\* An edit under way: e is [text, operations, ...] and led from t so far.
Progress(t, e) ==
    /\ e.text \in Text /\ e.operations \in Seq(EditOperations)
    /\ Edits(t, e.operations, e.text)

\* Deleting one more range makes one more operation, if the range is in the
\* text that is left.
LEMMA DeleteRangeProgress ==
  ASSUME NEW t \in Text, NEW d \in [text : Text, operations : Seq(EditOperations), done : BOOLEAN],
         NEW r \in [offset : Nat, length : Nat],
         Progress(t, d), d.done, InDocument(d.text, r.offset, r.length)
  PROVE  /\ Progress(t, DeleteRange(d, r)) /\ DeleteRange(d, r).done
         /\ DeleteRange(d, r).operations # <<>>
         /\ Len(DeleteRange(d, r).text) = Len(d.text) - r.length
  <1> DEFINE u == Replaced(d.text, r.offset, r.length, <<>>)
             o == Operation(d.text, r.offset, r.length, <<>>)
             e == DeleteRange(d, r)
  <1>1. d.text \in Text /\ d.operations \in Seq(EditOperations)
    BY DEF Progress
  <1> DEFINE none == <<>>
  <1>2. none \in Text /\ Len(none) = 0
    BY DEF Text
  <1>3. r.offset \in Nat /\ r.length \in Nat
    OBVIOUS
  <1>4. u \in Text /\ Len(u) = Len(d.text) - r.length + Len(none) /\ Len(d.text) \in Nat
    <2> DEFINE a == d.text
               at == r.offset
               m == r.length
    <2>1. a \in Text /\ at \in Nat /\ m \in Nat /\ InDocument(a, at, m)
      BY <1>1, <1>3
    <2> HIDE DEF none, a, at, m
    <2>2. /\ Replaced(a, at, m, none) \in Text
          /\ Len(Replaced(a, at, m, none)) = Len(a) - m + Len(none)
          /\ Len(a) \in Nat
      BY <1>2, <2>1, ReplacedType
    <2> QED BY <2>2 DEF none, a, at, m
  <1>5. o \in EditOperations /\ Turns(d.text, o, u)
    BY <1>1, <1>2, <1>3, OperationTurns
  <1>6. e.text = u /\ e.operations = Append(d.operations, o) /\ e.done
    BY DEF DeleteRange
  <1> HIDE DEF u, o, e
  <1>7. Edits(t, Append(d.operations, o), u)
    BY <1>1, <1>5, OneMoreEdit DEF Progress
  <1>8. Append(d.operations, o) \in Seq(EditOperations) /\ Append(d.operations, o) # <<>>
    BY <1>1, <1>5, AppendProperties
  <1>9. Progress(t, e)
    BY <1>4, <1>6, <1>7, <1>8 DEF Progress
  <1>10. Len(u) = Len(d.text) - r.length
    BY <1>2, <1>3, <1>4
  <1> QED BY <1>6, <1>8, <1>9, <1>10 DEF e

\* In any case a record of the same kind.
LEMMA DeleteRangeType ==
  ASSUME NEW d \in [text : Text, operations : Seq(EditOperations), done : BOOLEAN],
         NEW r \in [offset : Nat, length : Nat]
  PROVE  DeleteRange(d, r) \in [text : Text, operations : Seq(EditOperations), done : BOOLEAN]
  <1>1. CASE d.done /\ InDocument(d.text, r.offset, r.length)
    <2> DEFINE u == Replaced(d.text, r.offset, r.length, <<>>)
               o == Operation(d.text, r.offset, r.length, <<>>)
    <2>1. <<>> \in Text /\ r.offset \in Nat /\ r.length \in Nat /\ d.text \in Text
      BY DEF Text
    <2>2. u \in Text /\ o \in EditOperations
      BY <1>1, <2>1, ReplacedType, OperationTurns
    <2>3. DeleteRange(d, r) = [d EXCEPT !.text = u, !.operations = Append(d.operations, o)]
      BY <1>1 DEF DeleteRange
    <2>4. Append(d.operations, o) \in Seq(EditOperations)
      BY <2>2, AppendProperties
    <2> HIDE DEF u, o
    <2> QED BY <2>2, <2>3, <2>4
  <1>2. CASE ~ (d.done /\ InDocument(d.text, r.offset, r.length))
    BY <1>2 DEF DeleteRange
  <1> QED BY <1>1, <1>2

\* Ranges in the text, each one before the one deleted before it.
RangesOf(rs, t) ==
    /\ rs \in Seq([offset : Nat, length : Nat])
    /\ rs # <<>>
    /\ InDocument(t, rs[1].offset, rs[1].length)
    /\ \A i \in 1 .. Len(rs) - 1 : rs[i + 1].offset + rs[i + 1].length <= rs[i].offset

\* The positions of t that are in none of the first i ranges.
Spared(t, rs, i) ==
    {j \in DOMAIN t : \A k \in 1 .. i : j - 1 \notin Positions(rs[k].offset, rs[k].length)}

\* u is what is left of t when they are deleted, the last one first: what is
\* before all of them has kept its place.
Remains(u, t, rs, i) ==
    \E at : /\ KeptAt(u, t, Spared(t, rs, i), at)
            /\ InPlace(at, IF i = 0 THEN Len(t) ELSE rs[i].offset)

\* Deleting one more range, before the others.
LEMMA RemainsLess ==
  ASSUME NEW t \in Text, NEW u \in Text, NEW rs, NEW i \in Nat, i > 0,
         rs[i] \in [offset : Nat, length : Nat],
         InDocument(u, rs[i].offset, rs[i].length), Remains(u, t, rs, i - 1),
         NEW end \in Nat, end = IF i = 1 THEN Len(t) ELSE rs[i - 1].offset,
         rs[i].offset + rs[i].length <= end
  PROVE  Remains(Replaced(u, rs[i].offset, rs[i].length, <<>>), t, rs, i)
  <1> DEFINE a == rs[i].offset
             l == rs[i].length
             P == Spared(t, rs, i - 1)
             Q == Spared(t, rs, i)
             v == Replaced(u, a, l, <<>>)
  <1> HIDE DEF a, l, P, Q, v
  <1>1. /\ t \in Seq(Byte) /\ u \in Seq(Byte) /\ DOMAIN t = 1 .. Len(t) /\ Len(t) \in Nat
        /\ Len(u) \in Nat
    BY LenProperties DEF Text
  <1>2. a \in Nat /\ l \in Nat /\ a + l <= Len(u) /\ a + l <= end
    BY DEF a, l, InDocument
  <1>3. Spliced(v, u, a, l, <<>>, Byte)
    <2>1. <<>> \in Seq(Byte)
      OBVIOUS
    <2>2. Spliced(Splice(u, a, l, <<>>), u, a, l, <<>>, Byte)
      BY <1>1, <1>2, <2>1, SpliceIs
    <2> QED BY <2>2, ReplacedIsSplice DEF v
  <1>4. PICK at : KeptAt(u, t, P, at) /\ InPlace(at, end)
    <2>1. PICK at : /\ KeptAt(u, t, P, at)
                    /\ InPlace(at, IF i - 1 = 0 THEN Len(t) ELSE rs[i - 1].offset)
      BY DEF Remains, P
    <2>2. end = IF i - 1 = 0 THEN Len(t) ELSE rs[i - 1].offset
      OBVIOUS
    <2> QED BY <2>1, <2>2
  <1>5. InPlace(at, a + l)
    <2>1. \A k \in 1 .. a + l : k \in 1 .. end
      BY <1>2
    <2> QED BY <1>4, <2>1 DEF InPlace
  <1>6. Without(Q, P, t, a, l)
    <2> SUFFICES ASSUME NEW j \in DOMAIN t
                 PROVE  j \in Q <=> j \in P /\ j \notin a + 1 .. a + l
      BY DEF Without
    <2>1. j \in Nat
      <3> DEFINE m == Len(t)
      <3>1. m \in Nat /\ j \in 1 .. m
        BY <1>1
      <3> HIDE DEF m
      <3> QED BY <3>1
    <2>2. j - 1 \in Positions(rs[i].offset, rs[i].length) <=> j \in a + 1 .. a + l
      BY <1>2, <2>1 DEF Positions, a, l
    <2>3. \A k : k \in 1 .. i <=> k = i \/ k \in 1 .. i - 1
      OBVIOUS
    <2>4. j \in Q <=> \A k \in 1 .. i : j - 1 \notin Positions(rs[k].offset, rs[k].length)
      BY DEF Q, Spared
    <2>5. j \in P <=> \A k \in 1 .. i - 1 : j - 1 \notin Positions(rs[k].offset, rs[k].length)
      BY DEF P, Spared
    <2> QED BY <2>2, <2>3, <2>4, <2>5
  <1>7. PICK bt : KeptAt(v, t, Q, bt) /\ InPlace(bt, a)
    <2>1. KeptAt(u, t, P, at) /\ InPlace(at, a + l)
      BY <1>4, <1>5
    <2> QED BY <1>1, <1>2, <1>3, <1>6, <2>1, KeptLess
  <1>8. a = IF i = 0 THEN Len(t) ELSE rs[i].offset
    BY DEF a
  <1>9. InPlace(bt, IF i = 0 THEN Len(t) ELSE rs[i].offset)
    BY <1>7, <1>8
  <1>10. Remains(v, t, rs, i)
    BY <1>7, <1>9 DEF Remains, Q
  <1> QED BY <1>10 DEF v, a, l

\* Deleting them is never refused half-way, and leaves the other bytes.
LEMMA RangesDeleted ==
  ASSUME NEW t \in Text, NEW rs, RangesOf(rs, t)
  PROVE  /\ Progress(t, DeleteRanges(t, rs)) /\ DeleteRanges(t, rs).done
         /\ DeleteRanges(t, rs).operations # <<>>
         /\ Remains(DeleteRanges(t, rs).text, t, rs, Len(rs))
  <1> DEFINE D == [text : Text, operations : Seq(EditOperations), done : BOOLEAN]
             n == Len(rs)
             base == [text |-> t, operations |-> <<>>, done |-> rs # <<>>]
             deleted[i \in 0 .. n] ==
                IF i = 0 THEN [text |-> t, operations |-> <<>>, done |-> rs # <<>>]
                ELSE DeleteRange(deleted[i - 1], rs[i])
             Equation(f) ==
                f = [i \in 0 .. n |->
                        IF i = 0 THEN [text |-> t, operations |-> <<>>, done |-> rs # <<>>]
                        ELSE DeleteRange(f[i - 1], rs[i])]
  <1>1. n \in Nat /\ n # 0 /\ \A i \in 1 .. n : rs[i] \in [offset : Nat, length : Nat]
    <2>1. n \in Nat /\ \A i \in 1 .. n : rs[i] \in [offset : Nat, length : Nat]
      BY LenProperties, ElementOfSeq DEF RangesOf
    <2>2. n # 0
      BY EmptySeq DEF RangesOf
    <2> QED BY <2>1, <2>2
  <1>2. DeleteRanges(t, rs) = deleted[n]
    BY DEF DeleteRanges
  <1>3. deleted = CHOOSE f : Equation(f)
    OBVIOUS
  <1>4. base \in D
    OBVIOUS
  <1> DEFINE step == [i \in 1 .. n |-> [d \in D |-> DeleteRange(d, rs[i])]]
  <1>5. step \in [1 .. n -> [D -> D]]
    <2>1. \A i \in 1 .. n : \A d \in D : DeleteRange(d, rs[i]) \in D
      <3> TAKE i \in 1 .. n
      <3> TAKE d \in D
      <3> QED BY <1>1, DeleteRangeType
    <2> HIDE DEF D, n
    <2> QED BY <2>1
  <1>6. \A i \in 1 .. n : \A d \in D : step[i][d] = DeleteRange(d, rs[i])
    OBVIOUS
  <1> HIDE DEF deleted, step, Equation
  <1>7. PICK f : Iterated(f, n, D, base, step)
    <2>1. n \in Nat
      BY <1>1
    <2> HIDE DEF D, n, base
    <2> QED BY <1>4, <1>5, <2>1, Iterates
  <1>8. /\ f \in [0 .. n -> D] /\ f[0] = base
         /\ \A i \in 1 .. n : f[i] = step[i][f[i - 1]]
    BY <1>7 DEF Iterated
  <1>9. \A i \in 1 .. n : f[i] = DeleteRange(f[i - 1], rs[i])
    <2> TAKE i \in 1 .. n
    <2>1. i - 1 \in 0 .. n
      BY <1>1
    <2>2. f[i - 1] \in D
      BY <1>8, <2>1
    <2> HIDE DEF D
    <2> QED BY <1>6, <1>8, <2>2
  <1>10. Equation(f)
    <2>1. f = [i \in 0 .. n |-> f[i]]
      BY <1>8
    <2>2. \A i \in 0 .. n : f[i] = IF i = 0 THEN base ELSE DeleteRange(f[i - 1], rs[i])
      <3> TAKE i \in 0 .. n
      <3>1. i # 0 => i \in 1 .. n
        BY <1>1
      <3> HIDE DEF base, n
      <3> QED BY <1>8, <1>9, <3>1
    <2> HIDE DEF n
    <2> QED BY <2>1, <2>2 DEF Equation
  <1>11. Equation(deleted)
    BY <1>3, <1>10
  <1>12. deleted[0] = base /\ \A i \in 1 .. n : deleted[i] = DeleteRange(deleted[i - 1], rs[i])
    <2>1. 0 \in 0 .. n /\ \A i \in 1 .. n : i \in 0 .. n /\ i # 0
      BY <1>1
    <2> HIDE DEF n
    <2> QED BY <1>11, <2>1 DEF Equation
  <1> DEFINE Good(i) ==
                /\ deleted[i] \in D /\ Progress(t, deleted[i]) /\ deleted[i].done
                /\ Remains(deleted[i].text, t, rs, i)
                /\ i # 0 => deleted[i].operations # <<>>
                /\ i # n => InDocument(deleted[i].text, rs[i + 1].offset, rs[i + 1].length)
             T == {i \in 0 .. n : Good(i)}
  <1> HIDE DEF D
  <1>13. Good(0)
    <2>1. deleted[0] \in D
      <3> HIDE DEF base
      <3> QED BY <1>4, <1>12
    <2>2. deleted[0].done
      <3>1. base.done = (rs # <<>>)
        OBVIOUS
      <3> HIDE DEF base
      <3> QED BY <1>12, <3>1, Zenon DEF RangesOf
    <2>3. Progress(t, deleted[0])
      BY <1>12, NoEdits DEF Progress
    <2>4. 0 # n => InDocument(deleted[0].text, rs[0 + 1].offset, rs[0 + 1].length)
      BY <1>12 DEF RangesOf
    <2>5. Remains(t, t, rs, 0)
      <3> DEFINE l == Len(t)
                 at == [k \in 1 .. l |-> k]
      <3>1. l \in Nat /\ DOMAIN t = 1 .. l
        BY LenProperties DEF Text
      <3>2. Spared(t, rs, 0) = DOMAIN t
        <4>1. \A k : k \notin 1 .. 0
          OBVIOUS
        <4> QED BY <4>1, Zenon DEF Spared
      <3>3. KeptAt(t, t, DOMAIN t, at)
        BY <3>1 DEF KeptAt
      <3>4. InPlace(at, l)
        BY <3>1 DEF InPlace
      <3> HIDE DEF at
      <3> QED BY <3>2, <3>3, <3>4 DEF Remains
    <2>6. deleted[0].text = t
      <3>1. base.text = t
        OBVIOUS
      <3> HIDE DEF base
      <3> QED BY <1>12, <3>1
    <2> QED BY <2>1, <2>2, <2>3, <2>4, <2>5, <2>6
  <1>14. \A i \in 1 .. n : Good(i - 1) => Good(i)
    <2> TAKE i \in 1 .. n
    <2> HAVE Good(i - 1)
    <2> DEFINE d == deleted[i - 1]
               r == rs[i]
               e == deleted[i]
    <2>1. i - 1 # n /\ (i - 1) + 1 = i /\ i # 0
      BY <1>1
    <2>2. /\ d \in D /\ Progress(t, d) /\ d.done
          /\ InDocument(d.text, r.offset, r.length)
          /\ Remains(d.text, t, rs, i - 1)
      BY <2>1
    <2>3. e = DeleteRange(d, r) /\ r \in [offset : Nat, length : Nat]
      BY <1>1, <1>12
    <2> HIDE DEF d, e, r, Good
    <2>4. /\ Progress(t, e) /\ e.done /\ e.operations # <<>>
          /\ Len(e.text) = Len(d.text) - r.length
      BY <2>2, <2>3, DeleteRangeProgress DEF D
    <2>5. e \in D
      BY <2>2, <2>3, DeleteRangeType DEF D
    <2>6. i # n => InDocument(e.text, rs[i + 1].offset, rs[i + 1].length)
      <3> HAVE i # n
      <3>1. i \in 1 .. n - 1 /\ i + 1 \in 1 .. n
        BY <1>1
      <3>2. rs[i + 1].offset + rs[i + 1].length <= r.offset
        BY <3>1 DEF RangesOf, r
      <3>3. /\ rs[i + 1].offset \in Nat /\ rs[i + 1].length \in Nat
            /\ r.offset \in Nat /\ r.length \in Nat
        BY <1>1, <2>3, <3>1
      <3>4. Len(d.text) \in Nat
        BY <2>2, LenProperties DEF Progress, Text
      <3> QED BY <2>2, <2>4, <3>2, <3>3, <3>4, SMTT(60) DEF InDocument
    <2>7. Remains(e.text, t, rs, i)
      <3> DEFINE end == IF i = 1 THEN Len(t) ELSE rs[i - 1].offset
      <3>1. i \in Nat /\ i > 0 /\ (i # 1 => i - 1 \in 1 .. n - 1 /\ i - 1 \in 1 .. n)
        BY <1>1
      <3>2. end \in Nat
        BY <1>1, <3>1, LenProperties DEF Text
      <3>3. rs[i].offset + rs[i].length <= end
        <4>1. CASE i = 1
          BY <4>1 DEF RangesOf, InDocument
        <4>2. CASE i # 1
          <5>1. rs[(i - 1) + 1].offset + rs[(i - 1) + 1].length <= rs[i - 1].offset
            BY <3>1, <4>2 DEF RangesOf
          <5> QED BY <2>1, <4>2, <5>1
        <4> QED BY <4>1, <4>2
      <3>4. end = IF i = 1 THEN Len(t) ELSE rs[i - 1].offset
        OBVIOUS
      <3> HIDE DEF end
      <3>5. d.text \in Text
        BY <2>2 DEF Progress
      <3>6. Remains(Replaced(d.text, rs[i].offset, rs[i].length, <<>>), t, rs, i)
        <4>1. rs[i] \in [offset : Nat, length : Nat]
          BY <1>1
        <4>2. InDocument(d.text, rs[i].offset, rs[i].length)
          BY <2>2 DEF r
        <4> QED BY <2>2, <3>1, <3>2, <3>3, <3>4, <3>5, <4>1, <4>2, RemainsLess
      <3>7. e.text = Replaced(d.text, r.offset, r.length, <<>>)
        BY <2>2, <2>3 DEF DeleteRange, D
      <3> QED BY <3>6, <3>7 DEF r
    <2> QED BY <2>4, <2>5, <2>6, <2>7 DEF Good, e
  <1> HIDE DEF Good
  <1>15. 0 \in T /\ \A i \in 1 .. n : i - 1 \in T => i \in T
    <2>1. 0 \in 0 .. n /\ \A i \in 1 .. n : i \in 0 .. n
      BY <1>1
    <2> QED BY <1>13, <1>14, <2>1
  <1>16. n \in T
    <2> HIDE DEF T
    <2>1. \A i \in 0 .. n : i \in T
      BY <1>1, <1>15, UpTo
    <2> QED BY <1>1, <2>1
  <1>17. Good(n)
    BY <1>16
  <1> QED BY <1>1, <1>2, <1>17 DEF Good

\* The first of the matches.
LEMMA FirstMatch ==
  ASSUME NEW t \in Text, NEW pattern \in Text, NEW from \in Nat, NEW to \in Nat,
         to <= Len(t), Matches(t, pattern, from, to) # {}
  PROVE  /\ First(Matches(t, pattern, from, to)) \in Nat
         /\ First(Matches(t, pattern, from, to)) \in Matches(t, pattern, from, to)
         /\ InDocument(t, First(Matches(t, pattern, from, to)), Len(pattern))
  <1> DEFINE M == Matches(t, pattern, from, to)
  <1>1. Len(pattern) \in Nat /\ Len(t) \in Nat
    BY LenProperties DEF Text
  <1>2. M \in SUBSET Nat /\ \A i \in M : i + Len(pattern) <= Len(t)
    BY <1>1 DEF Matches
  <1> HIDE DEF M
  <1>3. \E i \in M : \A j \in M : i <= j
    BY <1>2, LeastElement DEF M
  <1>4. First(M) \in M
    BY <1>3 DEF First
  <1> QED BY <1>2, <1>4 DEF M, InDocument

\* And the last one.
LEMMA FinalMatch ==
  ASSUME NEW t \in Text, NEW pattern \in Text, NEW from \in Nat, NEW to \in Nat,
         to <= Len(t), Matches(t, pattern, from, to) # {}
  PROVE  /\ Final(Matches(t, pattern, from, to)) \in Nat
         /\ InDocument(t, Final(Matches(t, pattern, from, to)), Len(pattern))
  <1> DEFINE M == Matches(t, pattern, from, to)
  <1>1. Len(pattern) \in Nat /\ Len(t) \in Nat
    BY LenProperties DEF Text
  <1>2. M \in SUBSET Nat /\ \A i \in M : i + Len(pattern) <= Len(t) /\ i <= Len(t)
    BY <1>1 DEF Matches
  <1> HIDE DEF M
  <1>3. IsFiniteSet(M)
    BY <1>1, <1>2, FS_BoundedSetOfNaturals
  <1>4. \E i \in M : \A j \in M : j <= i
    BY <1>2, <1>3, GreatestElement DEF M
  <1>5. Final(M) \in M
    BY <1>2, <1>4 DEF Final
  <1> QED BY <1>2, <1>5 DEF M, InDocument

\* Replacing one match goes on with the edit.
LEMMA ReplaceMatchProgress ==
  ASSUME NEW t \in Text, NEW pattern \in Text, NEW replacement \in Text,
         NEW advance \in Nat,
         NEW r \in [text : Text, operations : Seq(EditOperations), from : Nat],
         Progress(t, r)
  PROVE  /\ Progress(t, ReplaceMatch(r, pattern, replacement, advance))
         /\ ReplaceMatch(r, pattern, replacement, advance)
               \in [text : Text, operations : Seq(EditOperations), from : Nat]
  <1> DEFINE w == r.text
             n == Len(pattern)
             l == Len(w)
             from == r.from
             M == Matches(w, pattern, from, l)
             e == ReplaceMatch(r, pattern, replacement, advance)
  <1>1. CASE M = {}
    <2>1. e = r
      BY <1>1 DEF ReplaceMatch
    <2> QED BY <2>1
  <1>2. CASE M # {}
    <2> DEFINE at == First(M)
               u == Replaced(w, at, n, replacement)
               o == Operation(w, at, n, replacement)
    <2>1. w \in Text /\ from \in Nat /\ l \in Nat /\ n \in Nat /\ r.operations \in Seq(EditOperations)
      BY LenProperties DEF Text
    <2>2. l <= Len(w)
      BY <2>1
    <2>3. at \in Nat /\ InDocument(w, at, n)
      <3> HIDE DEF w, from, l
      <3> QED BY <1>2, <2>1, <2>2, FirstMatch
    <2>4. e = [text |-> u, operations |-> Append(r.operations, o), from |-> at + advance]
      BY <1>2 DEF ReplaceMatch
    <2> HIDE DEF w, n, at, M
    <2>5. u \in Text /\ o \in EditOperations /\ Turns(w, o, u)
      BY <2>1, <2>3, ReplacedType, OperationTurns
    <2> HIDE DEF u, o, e
    <2>6. Edits(t, Append(r.operations, o), u)
      BY <2>1, <2>5, OneMoreEdit DEF Progress, w
    <2>7. Append(r.operations, o) \in Seq(EditOperations)
      BY <2>1, <2>5, AppendProperties
    <2>8. at + advance \in Nat
      BY <2>3
    <2>9. /\ e.text = u /\ e.operations = Append(r.operations, o) /\ e.from = at + advance
          /\ e \in [text : Text, operations : Seq(EditOperations), from : Nat]
      BY <2>4, <2>5, <2>7, <2>8
    <2>10. Progress(t, e)
      BY <2>5, <2>6, <2>7, <2>9 DEF Progress
    <2> QED BY <2>9, <2>10 DEF e
  <1> QED BY <1>1, <1>2

\* rep are the states of replacing all matches one after the other.
Replacing(rep, pattern, replacement) ==
    /\ rep[0] = [text |-> text, operations |-> <<>>, from |-> 0]
    /\ \A i \in 1 .. Len(text) :
          rep[i] = ReplaceMatch(rep[i - 1], pattern, replacement,
                                Greatest(Len(replacement), 1))
    /\ replacingAll(pattern, replacement) = rep[Len(text)]

\* So does replacing all of them.
LEMMA AllReplaced ==
  ASSUME text \in Text, NEW pattern \in Text, NEW replacement \in Text
  PROVE  /\ Progress(text, replacingAll(pattern, replacement))
         /\ replacingAll(pattern, replacement).from \in Nat
         /\ \E rep : Replacing(rep, pattern, replacement)
  <1> DEFINE R == {r \in [text : Text, operations : Seq(EditOperations), from : Nat] :
                      Progress(text, r)}
             n == Len(text)
             advance == Greatest(Len(replacement), 1)
             base == [text |-> text, operations |-> <<>>, from |-> 0]
             replaced[i \in 0 .. n] ==
                IF i = 0 THEN [text |-> text, operations |-> <<>>, from |-> 0]
                ELSE ReplaceMatch(replaced[i - 1], pattern, replacement,
                                  Greatest(Len(replacement), 1))
             Equation(f) ==
                f = [i \in 0 .. n |->
                        IF i = 0 THEN [text |-> text, operations |-> <<>>, from |-> 0]
                        ELSE ReplaceMatch(f[i - 1], pattern, replacement,
                                          Greatest(Len(replacement), 1))]
  <1>1. n \in Nat /\ advance \in Nat
    BY LenProperties DEF Text, Greatest
  <1>2. replacingAll(pattern, replacement) = replaced[n]
    BY DEF replacingAll
  <1>3. replaced = CHOOSE f : Equation(f)
    OBVIOUS
  <1>4. base \in R
    <2>1. base \in [text : Text, operations : Seq(EditOperations), from : Nat]
      OBVIOUS
    <2>2. Progress(text, base)
      BY NoEdits DEF Progress
    <2> QED BY <2>1, <2>2
  <1> DEFINE next == [r \in R |-> ReplaceMatch(r, pattern, replacement, advance)]
             step == [i \in 1 .. n |-> next]
  <1>5. \A r \in R : ReplaceMatch(r, pattern, replacement, advance) \in R
    <2> TAKE r \in R
    <2> HIDE DEF advance
    <2> QED BY <1>1, ReplaceMatchProgress
  <1>6. step \in [1 .. n -> [R -> R]] /\ \A i \in 1 .. n : \A r \in R : step[i][r] = ReplaceMatch(r, pattern, replacement, advance)
    <2> HIDE DEF R, n
    <2> QED BY <1>5
  <1> HIDE DEF replaced, step, next, Equation, R
  <1>7. PICK f : Iterated(f, n, R, base, step)
    <2>1. n \in Nat
      BY <1>1
    <2> HIDE DEF n, base
    <2> QED BY <1>4, <1>6, <2>1, Iterates
  <1>8. /\ f \in [0 .. n -> R] /\ f[0] = base
        /\ \A i \in 1 .. n : f[i] = step[i][f[i - 1]]
    BY <1>7 DEF Iterated
  <1>9. \A i \in 1 .. n : f[i] = ReplaceMatch(f[i - 1], pattern, replacement, advance)
    <2> TAKE i \in 1 .. n
    <2>1. i - 1 \in 0 .. n
      BY <1>1
    <2>2. f[i - 1] \in R
      BY <1>8, <2>1
    <2> QED BY <1>6, <1>8, <2>2
  <1>10. Equation(f)
    <2>1. f = [i \in 0 .. n |-> f[i]]
      BY <1>8
    <2>2. \A i \in 0 .. n :
             f[i] = IF i = 0 THEN base
                    ELSE ReplaceMatch(f[i - 1], pattern, replacement, advance)
      <3> TAKE i \in 0 .. n
      <3>1. i # 0 => i \in 1 .. n
        BY <1>1
      <3> HIDE DEF base, n
      <3> QED BY <1>8, <1>9, <3>1
    <2> HIDE DEF n
    <2> QED BY <2>1, <2>2 DEF Equation
  <1>11. Equation(replaced)
    BY <1>3, <1>10
  <1>12. replaced[0] = base /\ \A i \in 1 .. n : replaced[i] = ReplaceMatch(replaced[i - 1], pattern, replacement, advance)
    <2>1. 0 \in 0 .. n /\ \A i \in 1 .. n : i \in 0 .. n /\ i # 0
      BY <1>1
    <2> HIDE DEF n
    <2> QED BY <1>11, <2>1 DEF Equation
  <1> DEFINE T == {i \in 0 .. n : replaced[i] \in R}
  <1>13. 0 \in T /\ \A i \in 1 .. n : i - 1 \in T => i \in T
    <2>1. 0 \in 0 .. n /\ \A i \in 1 .. n : i \in 0 .. n
      BY <1>1
    <2> HIDE DEF base, n
    <2> QED BY <1>4, <1>5, <1>12, <2>1
  <1>14. n \in T
    <2> HIDE DEF T
    <2>1. \A i \in 0 .. n : i \in T
      BY <1>1, <1>13, UpTo
    <2> QED BY <1>1, <2>1
  <1>15. replaced[n] \in R
    BY <1>14
  <1>16. Replacing(replaced, pattern, replacement)
    BY <1>2, <1>12 DEF Replacing
  <1> QED BY <1>2, <1>15, <1>16 DEF R

-----------------------------------------------------------------------------
(* Types *)

Drags == {NoDrag} \cup [anchor : Nat, base : {B \in SUBSET Nat : IsFiniteSet(B)}]

Views == [offset : Nat, length : Nat, anchor : Nat, additional : SUBSET Nat,
          drag : Drags, nibble : Digits \cup {NoDigit}, nibbleOffset : Nat]

\* What the operations on editors take and give.
Editors == [text : Text, view : Views, undo : Seq(Transactions),
            redo : Seq(Transactions), done : BOOLEAN]

TypeInv ==
    /\ text \in Text /\ view \in Views /\ Inside(view, text)
    /\ editMode \in {"Insert", "Overwrite", "ReadOnly"}
    /\ undo \in Seq(Transactions) /\ redo \in Seq(Transactions)
    /\ Len(text) <= MaxLength /\ Len(undo) <= MaxHistory

\* The fields of a view.
LEMMA ViewFields ==
  ASSUME NEW v \in Views
  PROVE  /\ v.offset \in Nat /\ v.length \in Nat /\ v.anchor \in Nat
         /\ v.additional \in SUBSET Nat /\ v.drag \in Drags
         /\ v.nibble \in Digits \cup {NoDigit} /\ v.nibbleOffset \in Nat
  BY DEF Views

\* No drag is a drag.
LEMMA NoDragType == NoDrag \in Drags
  BY DEF Drags

\* A selection that was in a text is still there when it is clamped to it; any
\* other one is clamped into it.
LEMMA Clamped ==
  ASSUME NEW v \in Views, NEW t \in Text
  PROVE  /\ clampView(v, Len(t)) \in Views
         /\ Inside(clampView(v, Len(t)), t)
         /\ clampView(v, Len(t)).nibble = v.nibble
         /\ clampView(v, Len(t)).nibbleOffset = v.nibbleOffset
         /\ Inside(v, t) => captureSelection(clampView(v, Len(t))) = captureSelection(v)
  <1> DEFINE n == Len(t)
             c == clampView(v, n)
  <1>1. n \in Nat
    BY LenProperties DEF Text
  <1>2. /\ v.offset \in Nat /\ v.length \in Nat /\ v.anchor \in Nat
        /\ v.additional \in SUBSET Nat /\ v.drag \in Drags
    BY ViewFields
  <1> HIDE DEF n
  <1>3. CASE n = 0
    <2>1. c = [v EXCEPT !.offset = 0, !.length = 0, !.anchor = 0,
                        !.additional = {}, !.drag = NoDrag]
      BY <1>3 DEF clampView
    <2>2. c \in Views
      <3>1. {} \in SUBSET Nat /\ 0 \in Nat
        OBVIOUS
      <3> HIDE DEF c
      <3> QED BY <2>1, <3>1, NoDragType DEF Views
    <2>3. /\ c.offset = 0 /\ c.length = 0 /\ c.anchor = 0 /\ c.additional = {}
          /\ c.nibble = v.nibble /\ c.nibbleOffset = v.nibbleOffset
      BY <2>1 DEF Views
    <2>4. Inside(c, t)
      BY <1>1, <1>3, <2>3 DEF Inside, n
    <2>5. Inside(v, t) => captureSelection(c) = captureSelection(v)
      <3> HAVE Inside(v, t)
      <3>1. v.offset + v.length <= 0 /\ v.anchor <= 0 /\ v.additional \subseteq 0 .. (0 - 1)
        BY <1>3 DEF Inside, n
      <3>2. 0 .. (0 - 1) = {}
        OBVIOUS
      <3>3. v.offset = 0 /\ v.length = 0 /\ v.anchor = 0 /\ v.additional = {}
        BY <1>2, <3>1, <3>2
      <3> QED BY <2>3, <3>3 DEF captureSelection
    <2> QED BY <2>2, <2>3, <2>4, <2>5 DEF n
  <1>4. CASE n # 0
    <2> DEFINE o == Least(v.offset, n)
               a == Least(v.anchor, n)
               l == Least(v.length, n - o)
               A == v.additional \cap (0 .. (n - 1))
    <2>1. c = [v EXCEPT !.offset = o, !.anchor = a, !.length = l, !.additional = A]
      BY <1>4 DEF clampView
    <2>2. o \in Nat /\ o <= n /\ a \in Nat /\ a <= n /\ (v.offset <= n => o = v.offset) /\ (v.anchor <= n => a = v.anchor)
      BY <1>1, <1>2 DEF Least
    <2>3. l \in Nat /\ l <= n - o /\ (v.length <= n - o => l = v.length)
      <3> HIDE DEF o
      <3> QED BY <1>1, <1>2, <2>2 DEF Least
    <2>4. A \in SUBSET Nat /\ A \subseteq 0 .. (n - 1) /\ (v.additional \subseteq 0 .. (n - 1) => A = v.additional)
      BY <1>2
    <2> HIDE DEF o, a, l, A
    <2>5. c \in Views
      BY <2>1, <2>2, <2>3, <2>4 DEF Views
    <2>6. /\ c.offset = o /\ c.length = l /\ c.anchor = a /\ c.additional = A
          /\ c.nibble = v.nibble /\ c.nibbleOffset = v.nibbleOffset
      BY <2>1 DEF Views
    <2>7. Inside(c, t)
      BY <1>1, <2>2, <2>3, <2>4, <2>6 DEF Inside, n
    <2>8. Inside(v, t) => captureSelection(c) = captureSelection(v)
      <3> HAVE Inside(v, t)
      <3>1. v.offset + v.length <= n /\ v.anchor <= n /\ v.additional \subseteq 0 .. (n - 1)
        BY DEF Inside, n
      <3>2. v.offset <= n /\ v.length <= n - v.offset
        BY <1>1, <1>2, <3>1
      <3>3. o = v.offset /\ l = v.length /\ a = v.anchor /\ A = v.additional
        BY <2>2, <2>3, <2>4, <3>1, <3>2
      <3> QED BY <2>6, <3>3 DEF captureSelection
    <2> QED BY <2>5, <2>6, <2>7, <2>8 DEF n
  <1> QED BY <1>3, <1>4

\* v selects one range, and no digit waits.
Selects(v, offset, length, anchor) ==
    /\ v \in Views /\ v.nibble = NoDigit /\ v.additional = {}
    /\ v.offset = offset /\ v.length = length /\ v.anchor = anchor

\* A single selection has no pending digit.
LEMMA SelectingType ==
  ASSUME NEW v \in Views, NEW offset \in Nat, NEW length \in Nat, NEW anchor \in Nat
  PROVE  Selects(Selecting(v, offset, length, anchor), offset, length, anchor)
  <1>1. {} \in SUBSET Nat
    OBVIOUS
  <1> HIDE DEF NoDrag
  <1> QED BY <1>1, NoDragType DEF Selecting, WithoutPendingDigit, Views, Selects

\* No digit waits.
LEMMA WithoutPendingDigitType ==
  ASSUME NEW v \in Views
  PROVE  /\ WithoutPendingDigit(v) \in Views
         /\ WithoutPendingDigit(v).offset = v.offset
         /\ WithoutPendingDigit(v).length = v.length
         /\ WithoutPendingDigit(v).anchor = v.anchor
         /\ WithoutPendingDigit(v).additional = v.additional
         /\ WithoutPendingDigit(v).drag = v.drag
         /\ WithoutPendingDigit(v).nibble = NoDigit
  BY DEF WithoutPendingDigit, Views

\* A caret.
LEMMA CaretType ==
  ASSUME NEW v \in Views, NEW caret \in Nat
  PROVE  /\ Selecting(v, caret, 0, caret) \in Views
         /\ Selecting(v, caret, 0, caret).nibble = NoDigit
  <1> DEFINE none == 0
  <1>1. none \in Nat
    OBVIOUS
  <1> HIDE DEF none
  <1>2. Selects(Selecting(v, caret, none, caret), caret, none, caret)
    BY <1>1, SelectingType
  <1> QED BY <1>2 DEF Selects, none

\* What is captured of a view lies where the view does.
LEMMA CaptureType ==
  ASSUME NEW v \in Views
  PROVE  /\ captureSelection(v) \in Selection
         /\ \A t : Inside(v, t) => Inside(captureSelection(v), t)
  BY DEF captureSelection, Selection, Views, Inside

\* Whatever a handler leaves behind is clamped into the text.
LEMMA BecomeType ==
  ASSUME TypeInv, NEW e \in Editors, Become(e)
  PROVE  TypeInv'
  <1>1. /\ e.text \in Text /\ e.view \in Views
        /\ e.undo \in Seq(Transactions) /\ e.redo \in Seq(Transactions)
    BY DEF Editors
  <1>2. /\ text' = e.text /\ view' = clampView(e.view, Len(e.text))
        /\ undo' = e.undo /\ redo' = e.redo /\ editMode' = editMode
        /\ Len(e.text) <= MaxLength /\ Len(e.undo) <= MaxHistory
    BY DEF Become
  <1>3. clampView(e.view, Len(e.text)) \in Views /\ Inside(clampView(e.view, Len(e.text)), e.text)
    BY <1>1, Clamped
  <1> QED BY <1>1, <1>2, <1>3 DEF TypeInv, Inside

-----------------------------------------------------------------------------
(* The edits, as functions on editors *)

\* b is a with one more transaction.
Recorded(a, b) ==
    \E transaction \in Transactions :
        /\ b.undo = Append(a.undo, transaction) /\ b.redo = <<>>
        /\ Leads(a.text, transaction, b.text)

\* Nothing of the history has changed.
Kept(a, b) == b.text = a.text /\ b.undo = a.undo /\ b.redo = a.redo

\* The parts of an editor.
LEMMA EditorFields ==
  ASSUME NEW e \in Editors
  PROVE  /\ e.text \in Text /\ e.view \in Views
         /\ e.undo \in Seq(Transactions) /\ e.redo \in Seq(Transactions)
  BY DEF Editors

\* The editor before a handler.
LEMMA HereType ==
  ASSUME TypeInv
  PROVE  /\ Here \in Editors /\ Inside(Here.view, Here.text) /\ Here.done
         /\ Here.text = text /\ Here.view = view /\ Here.undo = undo /\ Here.redo = redo
  BY DEF Here, TypeInv, Editors

\* Another view of the same text.
LEMMA ViewChanged ==
  ASSUME NEW e \in Editors, NEW v \in Views
  PROVE  /\ [e EXCEPT !.view = v] \in Editors /\ Kept(e, [e EXCEPT !.view = v])
         /\ [e EXCEPT !.view = v].view = v /\ [e EXCEPT !.view = v].done = e.done
  BY DEF Editors, Kept

\* The transaction that Record adds.
NewTransaction(e, v, operations) ==
    [before |-> captureSelection(e.view), after |-> captureSelection(v),
     operations |-> operations]

\* Record adds to the history one transaction that leads to the new text.
LEMMA RecordIs ==
  ASSUME NEW e \in Editors, Inside(e.view, e.text),
         NEW t \in Text, NEW v \in Views,
         NEW operations \in Seq(EditOperations), operations # <<>>,
         Edits(e.text, operations, t)
  PROVE  /\ Record(e, t, v, operations) \in Editors
         /\ Record(e, t, v, operations).text = t
         /\ Record(e, t, v, operations).view = v
         /\ Record(e, t, v, operations).done
         /\ Record(e, t, v, operations).undo = Append(e.undo, NewTransaction(e, v, operations))
         /\ Record(e, t, v, operations).redo = <<>>
         /\ NewTransaction(e, v, operations) \in Transactions
         /\ Leads(e.text, NewTransaction(e, v, operations), t)
         /\ Recorded(e, Record(e, t, v, operations))
  <1> DEFINE r == Record(e, t, v, operations)
             transaction == NewTransaction(e, v, operations)
  <1>1. /\ e.text \in Text /\ e.view \in Views
        /\ e.undo \in Seq(Transactions) /\ e.redo \in Seq(Transactions)
    BY EditorFields
  <1>2. /\ transaction.before = captureSelection(e.view)
        /\ transaction.operations = operations
    BY DEF NewTransaction
  <1>3. transaction \in Transactions
    <2>1. captureSelection(e.view) \in Selection /\ captureSelection(v) \in Selection
      BY <1>1, CaptureType
    <2> QED BY <2>1 DEF NewTransaction, Transactions
  <1>4. Leads(e.text, transaction, t)
    <2>1. Inside(captureSelection(e.view), e.text)
      BY <1>1, CaptureType
    <2> HIDE DEF transaction
    <2> QED BY <1>2, <2>1 DEF Leads
  <1>5. r = [e EXCEPT !.text = t, !.view = v, !.redo = <<>>, !.done = TRUE,
                      !.undo = Append(e.undo, transaction)]
    BY DEF Record, NewTransaction
  <1> HIDE DEF transaction, r
  <1>6. Append(e.undo, transaction) \in Seq(Transactions) /\ <<>> \in Seq(Transactions)
    BY <1>1, <1>3, AppendProperties
  <1>7. /\ r \in Editors /\ r.text = t /\ r.view = v /\ r.done
        /\ r.undo = Append(e.undo, transaction) /\ r.redo = <<>>
    BY <1>5, <1>6 DEF Editors
  <1>8. Recorded(e, r)
    BY <1>3, <1>4, <1>7 DEF Recorded
  <1> QED BY <1>3, <1>4, <1>7, <1>8 DEF r, transaction

\* One operation.
LEMMA OneEdit ==
  ASSUME NEW t \in Text, NEW at \in Nat, NEW n \in Nat, InDocument(t, at, n),
         NEW b \in Text
  PROVE  /\ <<Operation(t, at, n, b)>> \in Seq(EditOperations)
         /\ <<Operation(t, at, n, b)>> # <<>>
         /\ Edits(t, <<Operation(t, at, n, b)>>, Replaced(t, at, n, b))
  <1> DEFINE o == Operation(t, at, n, b)
             u == Replaced(t, at, n, b)
             none == <<>>
  <1>1. o \in EditOperations /\ Turns(t, o, u)
    BY OperationTurns
  <1>2. none \in Seq(EditOperations) /\ Edits(t, none, t) /\ Append(none, o) = <<o>>
    BY NoEdits
  <1> HIDE DEF o, u, none
  <1>3. Edits(t, Append(none, o), u)
    BY <1>1, <1>2, OneMoreEdit
  <1>4. Append(none, o) \in Seq(EditOperations) /\ <<o>> # <<>>
    BY <1>1, <1>2, AppendProperties
  <1> QED BY <1>2, <1>3, <1>4 DEF o, u

\* applyReplacement of a range in the text records one operation.
LEMMA ReplacementApplied ==
  ASSUME NEW e \in Editors, Inside(e.view, e.text),
         NEW offset \in Nat, NEW length \in Nat, InDocument(e.text, offset, length),
         NEW bytes \in Text
  PROVE  LET r == applyReplacement(e, offset, length, bytes)
         IN  /\ r \in Editors /\ Recorded(e, r) /\ r.done
             /\ Inside(r.view, r.text)
             /\ r.view.nibble = NoDigit
             /\ r.text = Replaced(e.text, offset, length, bytes)
             /\ r.redo = <<>>
             /\ \E transaction \in Transactions :
                   /\ r.undo = Append(e.undo, transaction)
                   /\ transaction.operations = <<Operation(e.text, offset, length, bytes)>>
                   /\ Leads(e.text, transaction, r.text)
  <1> DEFINE t == Replaced(e.text, offset, length, bytes)
             caret == Least(offset + Len(bytes), Len(t))
             s == Selecting(e.view, caret, 0, caret)
             v == clampView(s, Len(t))
             os == <<Operation(e.text, offset, length, bytes)>>
             r == applyReplacement(e, offset, length, bytes)
  <1>1. e.text \in Text /\ e.view \in Views
    BY EditorFields
  <1>2. t \in Text /\ Len(t) \in Nat /\ Len(bytes) \in Nat
    BY <1>1, ReplacedType, LenProperties DEF Text
  <1>3. os \in Seq(EditOperations) /\ os # <<>> /\ Edits(e.text, os, t)
    BY <1>1, OneEdit
  <1>4. r = Record(e, t, v, os)
    BY DEF applyReplacement
  <1> HIDE DEF t
  <1>5. caret \in Nat
    BY <1>2 DEF Least
  <1> HIDE DEF caret
  <1>6. s \in Views /\ s.nibble = NoDigit
    BY <1>1, <1>5, CaretType
  <1> HIDE DEF s
  <1>7. v \in Views /\ Inside(v, t) /\ v.nibble = NoDigit
    BY <1>2, <1>6, Clamped
  <1> HIDE DEF v, os, r
  <1>8. /\ r \in Editors /\ r.text = t /\ r.view = v /\ r.done
        /\ r.undo = Append(e.undo, NewTransaction(e, v, os)) /\ r.redo = <<>>
        /\ NewTransaction(e, v, os) \in Transactions
        /\ Leads(e.text, NewTransaction(e, v, os), t)
        /\ Recorded(e, r)
    BY <1>2, <1>3, <1>4, <1>7, RecordIs
  <1>9. NewTransaction(e, v, os).operations = os
    BY DEF NewTransaction
  <1> HIDE DEF NewTransaction
  <1>10. \E transaction \in Transactions :
           /\ r.undo = Append(e.undo, transaction)
           /\ transaction.operations = os
           /\ Leads(e.text, transaction, r.text)
    BY <1>8, <1>9
  <1> QED BY <1>7, <1>8, <1>10 DEF r, t, os

\* The selected positions.
LEMMA Selected ==
  ASSUME NEW v \in Views, NEW t \in Text, Inside(v, t)
  PROVE  /\ SelectedPositions(v) \in SUBSET Nat
         /\ SelectedPositions(v) \subseteq 0 .. (Len(t) - 1)
         /\ IsFiniteSet(SelectedPositions(v))
         /\ v.additional # {} => SelectedPositions(v) # {}
  <1>1. Len(t) \in Nat /\ v.offset \in Nat /\ v.length \in Nat
    BY LenProperties, ViewFields DEF Text
  <1>2. Positions(v.offset, v.length) \subseteq 0 .. (Len(t) - 1)
    BY <1>1 DEF Positions, Inside
  <1>3. SelectedPositions(v) \subseteq 0 .. (Len(t) - 1)
    BY <1>2 DEF SelectedPositions, Inside
  <1>4. IsFiniteSet(0 .. (Len(t) - 1))
    BY <1>1, FS_Interval
  <1>5. IsFiniteSet(SelectedPositions(v))
    BY <1>3, <1>4, FS_Subset
  <1>6. SelectedPositions(v) \in SUBSET Nat
    BY <1>3
  <1> QED BY <1>3, <1>5, <1>6 DEF SelectedPositions

\* They are ranges of the text.
LEMMA SelectedRanges ==
  ASSUME NEW t \in Text, NEW S \in SUBSET Nat, S \subseteq 0 .. (Len(t) - 1),
         IsFiniteSet(S), S # {}
  PROVE  RangesOf(RangesFromEnd(S), t)
  <1> DEFINE rs == RangesFromEnd(S)
  <1>1. FromEnd(rs, S) /\ rs # <<>>
    BY RangesInOrder
  <1> HIDE DEF rs
  <1>2. \A r \in Ranges(S) : /\ r \in [offset : Nat, length : Nat] /\ InDocument(t, r.offset, r.length)
    <2> TAKE r \in Ranges(S)
    <2>1. IsRange(r, S)
      BY RangesAre
    <2>2. r.offset \in Nat /\ r.length \in Nat /\ r.length > 0 /\ Len(t) \in Nat
      BY <2>1, LenProperties DEF IsRange, Text
    <2>3. r.offset + r.length - 1 \in Positions(r.offset, r.length)
      BY <2>2 DEF Positions
    <2>4. r.offset + r.length - 1 \in 0 .. (Len(t) - 1)
      BY <2>1, <2>3 DEF IsRange
    <2>5. r.offset + r.length <= Len(t)
      BY <2>2, <2>4
    <2> QED BY <2>1, <2>5 DEF IsRange, InDocument
  <1>3. /\ rs \in Seq(Ranges(S)) /\ Len(rs) \in Nat
        /\ \A i \in 1 .. Len(rs) : rs[i] \in Ranges(S)
    BY <1>1, LenProperties, ElementOfSeq DEF FromEnd
  <1>4. rs \in Seq([offset : Nat, length : Nat])
    <2>1. \A i \in 1 .. Len(rs) : rs[i] \in [offset : Nat, length : Nat]
      BY <1>2, <1>3
    <2>2. rs = [i \in 1 .. Len(rs) |-> rs[i]]
      BY <1>3, LenProperties
    <2> DEFINE A == [offset : Nat, length : Nat]
               n == Len(rs)
    <2> HIDE DEF A
    <2>3. rs \in [1 .. n -> A]
      BY <2>1, <2>2 DEF A
    <2> HIDE DEF n
    <2>4. rs \in Seq(A)
      BY <1>3, <2>3, SeqDef DEF n
    <2> QED BY <2>4 DEF A
  <1>5. InDocument(t, rs[1].offset, rs[1].length)
    <2>1. 1 \in 1 .. Len(rs)
      BY <1>1, <1>3, EmptySeq
    <2> QED BY <1>2, <1>3, <2>1
  <1>6. \A i \in 1 .. Len(rs) - 1 : rs[i + 1].offset + rs[i + 1].length <= rs[i].offset
    <2> TAKE i \in 1 .. Len(rs) - 1
    <2>1. i \in 1 .. Len(rs) /\ i + 1 \in 1 .. Len(rs) /\ i < i + 1
      BY <1>3
    <2>2. rs[i + 1].offset + rs[i + 1].length < rs[i].offset
      BY <1>1, <2>1 DEF FromEnd
    <2>3. /\ rs[i + 1].offset \in Nat /\ rs[i + 1].length \in Nat /\ rs[i].offset \in Nat
      BY <1>2, <1>3, <2>1
    <2> QED BY <2>2, <2>3
  <1> QED BY <1>1, <1>4, <1>5, <1>6 DEF RangesOf, rs

\* All selected ranges are deleted, in one transaction.
LEMMA SelectionDeleted ==
  ASSUME NEW editor \in Editors, Inside(editor.view, editor.text),
         SelectedPositions(editor.view) # {}
  PROVE  LET r == deleteSelectedRanges(editor)
         IN  /\ r \in Editors /\ Recorded(editor, r) /\ r.done
             /\ Inside(r.view, r.text)
             /\ r.view.nibble = NoDigit
             /\ r.text = DeleteRanges(editor.text,
                            RangesFromEnd(SelectedPositions(editor.view))).text
  <1> DEFINE w == WithoutPendingDigit(editor.view)
             e == [editor EXCEPT !.view = WithoutPendingDigit(@)]
  <1>1. /\ editor.text \in Text /\ editor.view \in Views
        /\ editor.undo \in Seq(Transactions)
    BY EditorFields
  <1>2. /\ w \in Views /\ Inside(w, editor.text)
        /\ SelectedPositions(w) = SelectedPositions(editor.view)
    BY <1>1, WithoutPendingDigitType DEF Inside, SelectedPositions
  <1>3. /\ e \in Editors /\ e.text = editor.text /\ e.undo = editor.undo /\ e.view = w
    <2>1. e = [editor EXCEPT !.view = w]
      OBVIOUS
    <2> HIDE DEF e, w
    <2>2. [editor EXCEPT !.view = w] \in Editors /\ Kept(editor, [editor EXCEPT !.view = w]) /\ [editor EXCEPT !.view = w].view = w
      BY <1>2, ViewChanged
    <2> QED BY <2>1, <2>2 DEF Kept
  <1> DEFINE S == SelectedPositions(e.view)
             ranges == RangesFromEnd(S)
             deleted == DeleteRanges(e.text, ranges)
             caret == Least(Last(ranges).offset, Len(deleted.text))
             s == Selecting(e.view, caret, 0, caret)
             v == clampView(s, Len(deleted.text))
             r == deleteSelectedRanges(editor)
             left == DeleteRanges(editor.text, RangesFromEnd(SelectedPositions(editor.view))).text
  <1>4. r = IF deleted.done
            THEN Record(e, deleted.text, v, deleted.operations)
            ELSE [Refuse(e) EXCEPT !.text = deleted.text]
    BY DEF deleteSelectedRanges
  <1> HIDE DEF e, w
  <1>5. deleted.text = left
    BY <1>2, <1>3
  <1> HIDE DEF left
  <1>6. RangesOf(ranges, e.text)
    <2>1. S \in SUBSET Nat /\ S \subseteq 0 .. (Len(e.text) - 1) /\ IsFiniteSet(S) /\ S # {}
      BY <1>1, <1>2, <1>3, Selected
    <2> HIDE DEF S
    <2> QED BY <1>1, <1>3, <2>1, SelectedRanges
  <1> HIDE DEF S, ranges
  <1>7. Progress(e.text, deleted) /\ deleted.done /\ deleted.operations # <<>>
    BY <1>1, <1>3, <1>6, RangesDeleted
  <1> HIDE DEF deleted
  <1>8. deleted.text \in Text /\ deleted.operations \in Seq(EditOperations) /\ Edits(e.text, deleted.operations, deleted.text)
    BY <1>7 DEF Progress
  <1>9. caret \in Nat
    <2>1. ranges \in Seq([offset : Nat, length : Nat]) /\ ranges # <<>>
      BY <1>6 DEF RangesOf
    <2>2. Len(ranges) \in 1 .. Len(ranges)
      BY <2>1, LenProperties, EmptySeq
    <2>3. ranges[Len(ranges)] \in [offset : Nat, length : Nat]
      BY <2>1, <2>2, ElementOfSeq
    <2>4. Last(ranges).offset \in Nat /\ Len(deleted.text) \in Nat
      BY <1>8, <2>3, LenProperties DEF Last, Text
    <2> QED BY <2>4 DEF Least
  <1> HIDE DEF caret
  <1>10. s \in Views /\ s.nibble = NoDigit
    BY <1>2, <1>3, <1>9, CaretType
  <1> HIDE DEF s
  <1>11. v \in Views /\ Inside(v, deleted.text) /\ v.nibble = NoDigit
    BY <1>8, <1>10, Clamped
  <1> HIDE DEF v
  <1>12. r = Record(e, deleted.text, v, deleted.operations)
    BY <1>4, <1>7
  <1> HIDE DEF r
  <1>13. Inside(e.view, e.text)
    BY <1>2, <1>3
  <1>14. /\ r \in Editors /\ r.text = deleted.text /\ r.view = v /\ r.done
         /\ Recorded(e, r)
    BY <1>3, <1>7, <1>8, <1>11, <1>12, <1>13, RecordIs
  <1>15. Recorded(editor, r)
    BY <1>3, <1>14 DEF Recorded
  <1> QED BY <1>11, <1>14, <1>15, <1>5 DEF r, left

\* b is a with two more transactions.
RecordedTwice(a, b) == \E m \in Editors : Recorded(a, m) /\ Recorded(m, b)

\* What is typed or pasted comes in place of the selection.
LEMMA SelectionReplaced ==
  ASSUME NEW editor \in Editors, Inside(editor.view, editor.text), editor.done,
         NEW bytes \in Text
  PROVE  LET r == replaceSelection(editor, bytes)
         IN  /\ r \in Editors /\ r.done
             /\ Recorded(editor, r) \/ RecordedTwice(editor, r)
             /\ Inside(r.view, r.text)
             /\ r.view.nibble = NoDigit
             /\ r.redo = <<>>
             /\ editor.view.additional = {} =>
                   \E length \in Nat : \E transaction \in Transactions :
                      /\ InDocument(editor.text, editor.view.offset, length)
                      /\ r.text = Replaced(editor.text, editor.view.offset, length, bytes)
                      /\ r.undo = Append(editor.undo, transaction)
                      /\ transaction.operations
                            = <<Operation(editor.text, editor.view.offset, length, bytes)>>
                      /\ Leads(editor.text, transaction, r.text)
  <1> DEFINE e == IF editor.view.additional # {}
                  THEN deleteSelectedRanges(editor) ELSE editor
             length == IF e.view.length > 0 THEN e.view.length
                       ELSE IF editMode = "Overwrite" /\ e.view.offset < Len(e.text)
                       THEN 1 ELSE 0
             offset == e.view.offset
             q == applyReplacement(e, offset, length, bytes)
             r == replaceSelection(editor, bytes)
  <1>1. /\ e \in Editors /\ e.done /\ Inside(e.view, e.text)
        /\ e = editor \/ Recorded(editor, e)
        /\ editor.view.additional = {} => e = editor
    <2>1. CASE editor.view.additional = {}
      BY <2>1
    <2>2. CASE editor.view.additional # {}
      <3>1. editor.text \in Text /\ editor.view \in Views
        BY EditorFields
      <3>2. SelectedPositions(editor.view) # {}
        BY <2>2, <3>1, Selected
      <3>3. e = deleteSelectedRanges(editor)
        BY <2>2
      <3> HIDE DEF e
      <3> QED BY <2>2, <3>2, <3>3, SelectionDeleted
    <2> QED BY <2>1, <2>2
  <1>2. r = q
    BY <1>1 DEF replaceSelection
  <1> HIDE DEF e
  <1>3. e.text \in Text /\ e.view \in Views
    BY <1>1, EditorFields
  <1>4. offset \in Nat /\ length \in Nat /\ InDocument(e.text, offset, length)
    <2>1. /\ e.view.offset \in Nat /\ e.view.length \in Nat /\ Len(e.text) \in Nat
      BY <1>3, ViewFields, LenProperties DEF Text
    <2>2. e.view.offset + e.view.length <= Len(e.text)
      BY <1>1 DEF Inside
    <2> QED BY <2>1, <2>2 DEF InDocument
  <1> HIDE DEF offset, length
  <1>5. /\ q \in Editors /\ Recorded(e, q) /\ q.done
        /\ Inside(q.view, q.text)
        /\ q.view.nibble = NoDigit
        /\ q.text = Replaced(e.text, offset, length, bytes)
        /\ q.redo = <<>>
        /\ \E transaction \in Transactions :
              /\ q.undo = Append(e.undo, transaction)
              /\ transaction.operations = <<Operation(e.text, offset, length, bytes)>>
              /\ Leads(e.text, transaction, q.text)
    BY <1>1, <1>4, ReplacementApplied
  <1> HIDE DEF q, r
  <1>6. Recorded(editor, q) \/ RecordedTwice(editor, q)
    BY <1>1, <1>5 DEF RecordedTwice
  <1>7. editor.view.additional = {} =>
           \E l \in Nat : \E transaction \in Transactions :
              /\ InDocument(editor.text, editor.view.offset, l)
              /\ q.text = Replaced(editor.text, editor.view.offset, l, bytes)
              /\ q.undo = Append(editor.undo, transaction)
              /\ transaction.operations = <<Operation(editor.text, editor.view.offset, l, bytes)>>
              /\ Leads(editor.text, transaction, q.text)
    <2> HAVE editor.view.additional = {}
    <2>1. e = editor /\ offset = editor.view.offset
      BY <1>1 DEF offset
    <2> QED BY <1>4, <1>5, <2>1
  <1> QED BY <1>2, <1>5, <1>6, <1>7 DEF r

-----------------------------------------------------------------------------
(* The handlers *)

\* A step that leaves the history alone or adds one transaction to it, or two,
\* and after which no digit waits that did not wait before.
Ordinary ==
    \E e \in Editors :
        /\ Become(e)
        /\ Kept(Here, e) \/ Recorded(Here, e) \/ RecordedTwice(Here, e)
        /\ \/ e.view.nibble = NoDigit
           \/ /\ Kept(Here, e) /\ e.view.nibble = view.nibble
              /\ e.view.nibbleOffset = view.nibbleOffset

\* A handler whose edits keep or record, and that leaves no pending digit.
LEMMA OrdinaryEdit ==
  ASSUME NEW a \in Editors, Kept(Here, a), NEW e \in Editors, Become(e),
         Kept(a, e) \/ Recorded(a, e) \/ RecordedTwice(a, e),
         e.view.nibble = NoDigit
  PROVE  Ordinary
  <1>1. CASE Kept(a, e)
    BY <1>1 DEF Ordinary, Kept
  <1>2. CASE Recorded(a, e)
    <2>1. Recorded(Here, e)
      BY <1>2 DEF Kept, Recorded
    <2> QED BY <2>1 DEF Ordinary
  <1>3. CASE RecordedTwice(a, e)
    <2>1. PICK m \in Editors : Recorded(a, m) /\ Recorded(m, e)
      BY <1>3 DEF RecordedTwice
    <2>2. Recorded(Here, m)
      BY <2>1 DEF Kept, Recorded
    <2>3. RecordedTwice(Here, e)
      BY <2>1, <2>2 DEF RecordedTwice
    <2> QED BY <2>3 DEF Ordinary
  <1> QED BY <1>1, <1>2, <1>3

\* A handler that changes the view only.
LEMMA Shown ==
  ASSUME TypeInv, NEW v \in Views, Show(v),
         v.nibble = NoDigit \/ (v.nibble = view.nibble /\ v.nibbleOffset = view.nibbleOffset)
  PROVE  Ordinary
  <1> DEFINE e == [Here EXCEPT !.view = v]
  <1>1. e \in Editors /\ Kept(Here, e) /\ e.view = v
    BY HereType, ViewChanged
  <1>2. Become(e)
    BY DEF Show
  <1> HIDE DEF e
  <1> QED BY <1>1, <1>2 DEF Ordinary

\* What the user may do is what the constants say.
LEMMA Inputs ==
  /\ Offsets \subseteq Nat /\ Characters \subseteq Byte /\ TypedDigits \subseteq Digits
  /\ 0 \in Digits /\ Digits \subseteq 0 .. 15
  /\ Texts \subseteq Text /\ Clipboards \subseteq Text /\ Patterns \subseteq Text
  /\ Replacements \subseteq Text
  /\ EditModes \subseteq {"Insert", "Overwrite", "ReadOnly"}
  BY LinuxEditorAssumption DEF Text

\* The numbers of the state.
LEMMA TextLength ==
  ASSUME TypeInv
  PROVE  /\ Len(text) \in Nat /\ view.offset \in Nat /\ view.length \in Nat
         /\ view.anchor \in Nat /\ view.offset + view.length <= Len(text)
         /\ view.anchor <= Len(text)
  BY ViewFields, LenProperties DEF TypeInv, Text, Inside

\* A click, a drag or an arrow key is an ordinary step.
LEMMA SelectCharacterStep ==
  ASSUME TypeInv, NEW offset \in Offsets, NEW extend \in BOOLEAN,
         selectCharacter(offset, extend)
  PROVE  Ordinary
  <1> DEFINE anchor == IF extend THEN Least(view.anchor, Len(text)) ELSE offset
             length == Greatest(anchor, offset) - Least(anchor, offset)
             to == IF extend THEN view.anchor ELSE offset
             at == Least(anchor, offset)
             s == Selecting(view, at, length, to)
             v == IF extend
                  THEN [s EXCEPT !.additional = view.additional, !.drag = view.drag]
                  ELSE s
  <1>1. offset \in Nat
    BY Inputs
  <1>2. at \in Nat /\ length \in Nat /\ to \in Nat
    BY <1>1, TextLength DEF Least, Greatest
  <1>3. Show(v)
    BY DEF selectCharacter
  <1>4. view \in Views
    BY DEF TypeInv
  <1> HIDE DEF at, length, to
  <1>5. s \in Views /\ s.nibble = NoDigit
    BY <1>2, <1>4, SelectingType DEF Selects
  <1> HIDE DEF s
  <1>6. v \in Views /\ v.nibble = NoDigit
    BY <1>4, <1>5 DEF Views
  <1> HIDE DEF v
  <1> QED BY <1>3, <1>6, Shown

\* So is the choice of a byte,
LEMMA SelectByteStep ==
  ASSUME TypeInv, NEW offset \in Offsets, selectByte(offset)
  PROVE  Ordinary
  <1> DEFINE v == Selecting(view, offset, 1, offset)
  <1>1. Show(v)
    BY DEF selectByte
  <1>2. offset \in Nat /\ 1 \in Nat /\ view \in Views
    BY Inputs DEF TypeInv
  <1>3. v \in Views /\ v.nibble = NoDigit
    BY <1>2, SelectingType DEF Selects
  <1> HIDE DEF v
  <1> QED BY <1>1, <1>3, Shown

\* of all bytes,
LEMMA SelectAllStep ==
  ASSUME TypeInv, selectAll
  PROVE  Ordinary
  <1> DEFINE v == Selecting(view, 0, Len(text), 0)
  <1>1. Show(v)
    BY DEF selectAll
  <1>2. Len(text) \in Nat /\ view \in Views
    BY TextLength DEF TypeInv
  <1>3. v \in Views /\ v.nibble = NoDigit
    <2> DEFINE zero == 0
               n == Len(text)
    <2>1. zero \in Nat /\ n \in Nat
      BY <1>2
    <2> HIDE DEF zero, n
    <2>2. Selects(Selecting(view, zero, n, zero), zero, n, zero)
      BY <1>2, <2>1, SelectingType
    <2> QED BY <2>2 DEF Selects, zero, n
  <1> HIDE DEF v
  <1> QED BY <1>1, <1>3, Shown

\* of an offset,
LEMMA JumpToOffsetStep ==
  ASSUME TypeInv, NEW offset \in Offsets, jumpToOffset(offset)
  PROVE  Ordinary
  <1> DEFINE length == IF offset = Len(text) THEN 0 ELSE 1
             v == Selecting(view, offset, length, offset)
  <1>1. Show(v)
    BY DEF jumpToOffset
  <1>2. offset \in Nat /\ length \in Nat /\ view \in Views
    BY Inputs DEF TypeInv
  <1> HIDE DEF length
  <1>3. v \in Views /\ v.nibble = NoDigit
    BY <1>2, SelectingType DEF Selects
  <1> HIDE DEF v
  <1> QED BY <1>1, <1>3, Shown

\* of a match,
LEMMA FindAndSelectStep ==
  ASSUME TypeInv, NEW pattern \in Patterns, NEW forwards \in BOOLEAN,
         findAndSelect(pattern, forwards)
  PROVE  Ordinary
  <1> DEFINE start == IF forwards
                      THEN Least(Len(text), view.offset + Greatest(view.length, 1))
                      ELSE IF view.offset > 0 THEN view.offset ELSE Len(text)
             near == IF forwards THEN Matches(text, pattern, start, Len(text))
                     ELSE Matches(text, pattern, 0, start)
             all == Matches(text, pattern, 0, Len(text))
             found == IF near # {} THEN near ELSE all
             offset == IF forwards THEN First(found) ELSE Final(found)
             v == Selecting(view, offset, Len(pattern), offset)
  <1>1. all # {} /\ Show(v)
    BY DEF findAndSelect
  <1>2. text \in Text /\ pattern \in Text /\ view \in Views
    BY Inputs DEF TypeInv
  <1>3. start \in Nat /\ start <= Len(text) /\ Len(text) \in Nat /\ Len(pattern) \in Nat
    <2>1. Len(pattern) \in Nat
      BY <1>2, LenProperties DEF Text
    <2> QED BY <2>1, TextLength DEF Least, Greatest
  <1> HIDE DEF start
  <1>4. \E from \in Nat : \E to \in Nat : to <= Len(text) /\ found = Matches(text, pattern, from, to)
    <2>1. found = near \/ found = all
      OBVIOUS
    <2>2. near = Matches(text, pattern, start, Len(text)) \/ near = Matches(text, pattern, 0, start)
      OBVIOUS
    <2>3. 0 \in Nat /\ Len(text) <= Len(text)
      BY <1>3
    <2> HIDE DEF found, near
    <2> QED BY <1>3, <2>1, <2>2, <2>3
  <1>5. found # {}
    BY <1>1
  <1> HIDE DEF found
  <1>6. offset \in Nat
    BY <1>2, <1>4, <1>5, FirstMatch, FinalMatch
  <1> HIDE DEF offset
  <1>7. v \in Views /\ v.nibble = NoDigit
    <2> DEFINE n == Len(pattern)
    <2>1. n \in Nat
      BY <1>3
    <2> HIDE DEF n
    <2>2. Selects(Selecting(view, offset, n, offset), offset, n, offset)
      BY <1>2, <1>6, <2>1, SelectingType
    <2> QED BY <2>2 DEF Selects, n
  <1> HIDE DEF v
  <1> QED BY <1>1, <1>7, Shown

\* the release of the mouse
LEMMA ReleaseMouseStep ==
  ASSUME TypeInv, releaseMouse
  PROVE  Ordinary
  <1> DEFINE v == [view EXCEPT !.drag = NoDrag]
  <1>1. Show(v)
    BY DEF releaseMouse
  <1>2. v \in Views /\ v.nibble = view.nibble /\ v.nibbleOffset = view.nibbleOffset
    <2>1. view \in Views
      BY DEF TypeInv
    <2> HIDE DEF NoDrag
    <2> QED BY <2>1, NoDragType DEF Views
  <1> HIDE DEF v
  <1> QED BY <1>1, <1>2, Shown

\* and the selection of one more range, whose positions are in the text.
LEMMA ExtendAdditionalSelectionStep ==
  ASSUME TypeInv, NEW offset \in Offsets, NEW begin \in BOOLEAN,
         extendAdditionalSelection(offset, begin)
  PROVE  Ordinary
  <1> DEFINE drag == IF begin \/ view.drag = NoDrag
                     THEN [anchor |-> offset, base |-> SelectedPositions(view)]
                     ELSE view.drag
             from == Least(drag.anchor, offset)
             length == Greatest(drag.anchor, offset) - from
             selected == drag.base \cup Positions(from, length)
             primary == Head(RangesFromEnd(selected))
             at == IF selected = {} THEN offset ELSE primary.offset
             n == IF selected = {} THEN 0 ELSE primary.length
             anchor == IF selected = {} THEN offset ELSE drag.anchor
             others == IF selected = {} THEN {}
                       ELSE selected \ Positions(primary.offset, primary.length)
             v == [WithoutPendingDigit(view) EXCEPT
                    !.offset = at, !.length = n, !.anchor = anchor,
                    !.additional = others, !.drag = drag]
  <1>1. Show(v)
    BY DEF extendAdditionalSelection
  <1>2. offset \in Nat /\ view \in Views /\ text \in Text /\ Inside(view, text)
    BY Inputs DEF TypeInv
  <1>3. drag \in [anchor : Nat, base : {B \in SUBSET Nat : IsFiniteSet(B)}]
    <2>1. view.drag \in Drags
      BY <1>2, ViewFields
    <2>2. /\ SelectedPositions(view) \in SUBSET Nat
          /\ IsFiniteSet(SelectedPositions(view))
      BY <1>2, Selected
    <2> QED BY <1>2, <2>1, <2>2 DEF Drags
  <1> HIDE DEF drag
  <1>4. drag.anchor \in Nat /\ drag.base \in SUBSET Nat /\ IsFiniteSet(drag.base)
    BY <1>3
  <1>5. from \in Nat /\ length \in Nat
    BY <1>2, <1>4 DEF Least, Greatest
  <1> HIDE DEF from, length
  <1>6. selected \in SUBSET Nat /\ IsFiniteSet(selected)
    <2>1. Positions(from, length) \in SUBSET Nat
      BY <1>5 DEF Positions
    <2>2. IsFiniteSet(Positions(from, length))
      <3>1. from \in Int /\ from + length - 1 \in Int
        BY <1>5
      <3> QED BY <3>1, FS_Interval DEF Positions
    <2>3. IsFiniteSet(drag.base \cup Positions(from, length))
      BY <1>4, <2>2, FS_Union
    <2> QED BY <1>4, <2>1, <2>3
  <1> HIDE DEF selected
  <1>7. selected # {} => primary.offset \in Nat /\ primary.length \in Nat
    <2> HAVE selected # {}
    <2> DEFINE rs == RangesFromEnd(selected)
    <2>1. FromEnd(rs, selected) /\ rs # <<>>
      BY <1>6, RangesInOrder
    <2> HIDE DEF rs
    <2>2. rs \in Seq(Ranges(selected)) /\ 1 \in 1 .. Len(rs)
      BY <2>1, LenProperties, EmptySeq DEF FromEnd
    <2>3. rs[1] \in Ranges(selected)
      BY <2>2, ElementOfSeq
    <2>4. IsRange(rs[1], selected)
      BY <1>6, <2>3, RangesAre
    <2>5. Head(rs) = rs[1]
      BY <2>1, <2>2, HeadTailProperties
    <2> QED BY <2>4, <2>5 DEF IsRange, rs
  <1> HIDE DEF primary
  <1>8. at \in Nat /\ n \in Nat /\ anchor \in Nat /\ others \in SUBSET Nat
    BY <1>2, <1>4, <1>6, <1>7
  <1> HIDE DEF at, n, anchor, others
  <1>9. drag \in Drags
    BY <1>3 DEF Drags
  <1>10. v \in Views /\ v.nibble = NoDigit
    BY <1>2, <1>8, <1>9 DEF WithoutPendingDigit, Views
  <1> HIDE DEF v
  <1> QED BY <1>1, <1>10, Shown

\* The editor of the handlers that forget the pending digit first.
LEMMA HereWithoutPendingDigit ==
  ASSUME TypeInv
  PROVE  LET e == [Here EXCEPT !.view = WithoutPendingDigit(@)]
         IN  /\ e \in Editors /\ Kept(Here, e) /\ e.done
             /\ e.view = WithoutPendingDigit(view) /\ e.text = text
             /\ Inside(e.view, e.text) /\ e.view.nibble = NoDigit
             /\ e = [Here EXCEPT !.view = WithoutPendingDigit(view)]
  <1> DEFINE w == WithoutPendingDigit(view)
             e == [Here EXCEPT !.view = WithoutPendingDigit(@)]
  <1>1. view \in Views /\ Inside(view, text)
    BY DEF TypeInv
  <1>2. w \in Views /\ Inside(w, text) /\ w.nibble = NoDigit
    BY <1>1, WithoutPendingDigitType DEF Inside
  <1>3. e = [Here EXCEPT !.view = w]
    BY HereType
  <1> HIDE DEF w, e
  <1>4. /\ [Here EXCEPT !.view = w] \in Editors /\ Kept(Here, [Here EXCEPT !.view = w])
        /\ [Here EXCEPT !.view = w].view = w /\ [Here EXCEPT !.view = w].done = Here.done
    BY <1>2, HereType, ViewChanged
  <1>5. e \in Editors /\ Kept(Here, e) /\ e.view = w /\ e.done
    BY <1>3, <1>4, HereType
  <1>6. e.text = text
    BY <1>5, HereType DEF Kept
  <1> QED BY <1>2, <1>3, <1>5, <1>6 DEF w, e

\* A replacement, or the refusal of one.
LEMMA ReplacementStep ==
  ASSUME TypeInv, NEW a \in Editors, Kept(Here, a), Inside(a.view, a.text),
         a.view.nibble = NoDigit,
         NEW offset \in Nat, NEW length \in Nat, NEW bytes \in Text,
         Become(applyReplacement(a, offset, length, bytes))
  PROVE  Ordinary
  <1> DEFINE r == applyReplacement(a, offset, length, bytes)
  <1>1. CASE InDocument(a.text, offset, length)
    <2>1. r \in Editors /\ Recorded(a, r) /\ r.view.nibble = NoDigit
      BY <1>1, ReplacementApplied
    <2> HIDE DEF r
    <2> QED BY <2>1, OrdinaryEdit DEF r
  <1>2. CASE ~ InDocument(a.text, offset, length)
    <2>1. r = [a EXCEPT !.done = FALSE]
      BY <1>2 DEF applyReplacement, Refuse
    <2>2. r \in Editors /\ Kept(a, r) /\ r.view = a.view
      BY <2>1 DEF Editors, Kept
    <2> HIDE DEF r
    <2> QED BY <2>2, OrdinaryEdit DEF r
  <1> QED BY <1>1, <1>2

\* Something typed or pasted.
LEMMA ReplaceSelectionStep ==
  ASSUME TypeInv, NEW a \in Editors, Kept(Here, a), Inside(a.view, a.text), a.done,
         NEW bytes \in Text, Become(replaceSelection(a, bytes))
  PROVE  Ordinary
  <1> DEFINE r == replaceSelection(a, bytes)
  <1>1. /\ r \in Editors
        /\ Recorded(a, r) \/ RecordedTwice(a, r)
        /\ r.view.nibble = NoDigit
    BY SelectionReplaced
  <1> HIDE DEF r
  <1> QED BY <1>1, OrdinaryEdit DEF r

\* What is typed is a text.
LEMMA OneByteText ==
  ASSUME NEW byte \in Byte
  PROVE  <<byte>> \in Text
  BY DEF Text

\* Typing a character is an ordinary step.
LEMMA TypeByteStep ==
  ASSUME TypeInv, NEW byte \in Characters, typeByte(byte)
  PROVE  Ordinary
  <1> DEFINE e == [Here EXCEPT !.view = WithoutPendingDigit(@)]
             bytes == <<byte>>
  <1>1. Become(IF editMode = "ReadOnly" THEN e ELSE replaceSelection(e, bytes))
    BY DEF typeByte
  <1>2. bytes \in Text
    BY Inputs, OneByteText
  <1>3. /\ e \in Editors /\ Kept(Here, e) /\ Inside(e.view, e.text) /\ e.done
        /\ e.view.nibble = NoDigit
    BY HereWithoutPendingDigit
  <1>4. Kept(e, e)
    BY DEF Kept
  <1> HIDE DEF e, bytes
  <1>5. CASE editMode = "ReadOnly"
    BY <1>1, <1>3, <1>4, <1>5, OrdinaryEdit
  <1>6. CASE editMode # "ReadOnly"
    BY <1>1, <1>2, <1>3, <1>6, ReplaceSelectionStep
  <1> QED BY <1>5, <1>6

\* So is pasting,
LEMMA PasteStep ==
  ASSUME TypeInv, NEW bytes \in Clipboards, paste(bytes)
  PROVE  Ordinary
  <1>1. Here \in Editors /\ Kept(Here, Here) /\ Inside(Here.view, Here.text) /\ Here.done
    BY HereType DEF Kept
  <1>2. bytes \in Text /\ Become(replaceSelection(Here, bytes))
    BY Inputs DEF paste
  <1> QED BY <1>1, <1>2, ReplaceSelectionStep

\* deleting the selection or the byte next to the caret,
LEMMA DeleteSelectionStep ==
  ASSUME TypeInv, NEW backwards \in BOOLEAN, deleteSelection(backwards)
  PROVE  Ordinary
  <1> DEFINE e == [Here EXCEPT !.view = WithoutPendingDigit(view)]
             none == <<>>
  <1>1. IF editMode = "ReadOnly" THEN Become(e)
        ELSE IF view.additional # {} THEN Become(deleteSelectedRanges(Here))
        ELSE IF view.length > 0
        THEN Become(applyReplacement(e, view.offset, view.length, none))
        ELSE IF ~ backwards
        THEN Become(applyReplacement(e, view.offset, 1, none))
        ELSE IF view.offset > 0
        THEN Become(applyReplacement(e, view.offset - 1, 1, none))
        ELSE Become(e)
    BY DEF deleteSelection
  <1>2. /\ e \in Editors /\ Kept(Here, e) /\ Inside(e.view, e.text)
        /\ e.view.nibble = NoDigit
    BY HereWithoutPendingDigit
  <1>3. none \in Text
    BY DEF Text
  <1>4. Kept(e, e)
    BY DEF Kept
  <1>5. view.offset \in Nat /\ view.length \in Nat
    BY TextLength
  <1> HIDE DEF e, none
  <1>6. ASSUME NEW offset \in Nat, NEW length \in Nat,
               Become(applyReplacement(e, offset, length, none))
        PROVE  Ordinary
    BY <1>2, <1>3, <1>6, ReplacementStep
  <1>7. CASE Become(e)
    BY <1>2, <1>4, <1>7, OrdinaryEdit
  <1>8. CASE view.additional # {} /\ Become(deleteSelectedRanges(Here))
    <2> DEFINE r == deleteSelectedRanges(Here)
    <2>1. Here \in Editors /\ Kept(Here, Here) /\ Inside(Here.view, Here.text) /\ Here.view = view /\ Here.text = text
      BY HereType DEF Kept
    <2>2. SelectedPositions(Here.view) # {}
      BY <1>8, <2>1, Selected DEF TypeInv
    <2>3. r \in Editors /\ Recorded(Here, r) /\ r.view.nibble = NoDigit
      BY <2>1, <2>2, SelectionDeleted
    <2> HIDE DEF r
    <2> QED BY <1>8, <2>1, <2>3, OrdinaryEdit DEF r
  <1>9. CASE Become(applyReplacement(e, view.offset, view.length, none))
    BY <1>5, <1>6, <1>9
  <1>10. CASE Become(applyReplacement(e, view.offset, 1, none))
    <2>1. 1 \in Nat
      OBVIOUS
    <2> QED BY <1>5, <1>6, <1>10, <2>1
  <1>11. CASE view.offset > 0 /\ Become(applyReplacement(e, view.offset - 1, 1, none))
    <2>1. 1 \in Nat /\ view.offset - 1 \in Nat
      BY <1>5, <1>11
    <2> QED BY <1>6, <1>11, <2>1
  <1> QED BY <1>1, <1>7, <1>8, <1>9, <1>10, <1>11

\* cutting,
LEMMA CutSelectionStep ==
  ASSUME TypeInv, cutSelection
  PROVE  Ordinary
  <1>1. deleteSelection(FALSE) /\ FALSE \in BOOLEAN
    BY DEF cutSelection
  <1> QED BY <1>1, DeleteSelectionStep

\* replacing a match, whose transaction gets another selection afterwards,
LEMMA ReplaceCurrentMatchStep ==
  ASSUME TypeInv, NEW pattern \in Patterns, NEW replacement \in Replacements,
         replaceCurrentMatch(pattern, replacement)
  PROVE  Ordinary
  <1> DEFINE selected == /\ view.length = Len(pattern)
                         /\ BytesAt(text, view.offset, view.length) = pattern
             found == Matches(text, pattern, view.offset, Len(text))
             offset == IF selected THEN view.offset ELSE First(found)
             e == applyReplacement(Here, offset, Len(pattern), replacement)
             v == [e.view EXCEPT !.offset = offset, !.length = Len(replacement),
                                 !.anchor = offset]
             r == [e EXCEPT !.view = v, !.undo[Len(e.undo)].after = captureSelection(v)]
  <1>1. selected \/ found # {}
    BY DEF replaceCurrentMatch
  <1>2. Become(r)
    BY DEF replaceCurrentMatch
  <1>3. /\ pattern \in Text /\ replacement \in Text /\ text \in Text
        /\ Len(pattern) \in Nat /\ Len(replacement) \in Nat
    <2>1. pattern \in Text /\ replacement \in Text /\ text \in Text
      BY Inputs DEF TypeInv
    <2> QED BY <2>1, LenProperties DEF Text
  <1>4. offset \in Nat /\ InDocument(text, offset, Len(pattern))
    <2>1. CASE selected
      BY <2>1, TextLength DEF InDocument
    <2>2. CASE ~ selected
      <3>1. view.offset \in Nat /\ Len(text) \in Nat /\ Len(text) <= Len(text)
        BY TextLength
      <3>2. First(found) \in Nat /\ InDocument(text, First(found), Len(pattern))
        BY <1>1, <1>3, <2>2, <3>1, FirstMatch
      <3> HIDE DEF selected, found
      <3> QED BY <2>2, <3>2
    <2> QED BY <2>1, <2>2
  <1> HIDE DEF offset
  <1>5. /\ e \in Editors /\ Recorded(Here, e) /\ e.view.nibble = NoDigit
    <2> DEFINE n == Len(pattern)
    <2>1. n \in Nat /\ InDocument(Here.text, offset, n)
      BY <1>3, <1>4, HereType
    <2> HIDE DEF n
    <2>2. LET q == applyReplacement(Here, offset, n, replacement)
          IN  q \in Editors /\ Recorded(Here, q) /\ q.view.nibble = NoDigit
      BY <1>3, <1>4, <2>1, HereType, ReplacementApplied
    <2> QED BY <2>2 DEF n
  <1> HIDE DEF e
  <1>6. v \in Views /\ v.nibble = NoDigit
    <2>1. e.view \in Views
      BY <1>5, EditorFields
    <2> QED BY <1>3, <1>4, <1>5, <2>1 DEF Views
  <1>7. PICK transaction \in Transactions :
          /\ e.undo = Append(Here.undo, transaction) /\ e.redo = <<>>
          /\ Leads(Here.text, transaction, e.text)
    BY <1>5 DEF Recorded
  <1> HIDE DEF v
  <1> DEFINE n == Len(e.undo)
             last == [transaction EXCEPT !.after = captureSelection(v)]
  <1>8. last \in Transactions /\ last.operations = transaction.operations /\ last.before = transaction.before
    <2>1. captureSelection(v) \in Selection
      BY <1>6, CaptureType
    <2> QED BY <2>1 DEF Transactions
  <1>9. r.undo = Append(Here.undo, last)
    <2> DEFINE u == Here.undo
    <2>1. u \in Seq(Transactions)
      BY HereType, EditorFields
    <2>2. /\ n = Len(u) + 1 /\ Len(u) \in Nat /\ e.undo[n] = transaction
          /\ \A i \in 1 .. Len(u) : e.undo[i] = u[i]
      BY <1>7, <2>1, AppendProperties, LenProperties
    <2>3. r.undo = [e.undo EXCEPT ![n].after = captureSelection(v)]
      BY <1>5 DEF Editors
    <2>4. e.undo \in Seq(Transactions) /\ n \in 1 .. Len(e.undo)
      BY <1>5, <2>2, EditorFields
    <2>5. r.undo = [e.undo EXCEPT ![n] = last]
      BY <2>2, <2>3
    <2> HIDE DEF r, last, n, u
    <2>6. r.undo \in Seq(Transactions) /\ Len(r.undo) = Len(e.undo) /\ r.undo[n] = last
          /\ \A i \in 1 .. Len(e.undo) : i # n => r.undo[i] = e.undo[i]
      BY <1>8, <2>4, <2>5, ExceptSeq
    <2>7. Append(u, last) \in Seq(Transactions) /\ Len(Append(u, last)) = Len(u) + 1 /\ Append(u, last)[Len(u) + 1] = last
          /\ \A i \in 1 .. Len(u) : Append(u, last)[i] = u[i]
      BY <1>8, <2>1, AppendProperties
    <2>8. r.undo = Append(u, last)
      <3>1. Len(r.undo) = Len(Append(u, last))
        BY <2>2, <2>6, <2>7 DEF n
      <3>2. \A i \in 1 .. Len(u) + 1 : r.undo[i] = Append(u, last)[i]
        BY <2>2, <2>6, <2>7 DEF n
      <3> QED BY <2>6, <2>7, <3>1, <3>2, SeqEqual
    <2> QED BY <2>8 DEF u
  <1>10. r \in Editors
    <2>1. Append(Here.undo, last) \in Seq(Transactions)
      BY <1>8, HereType, EditorFields, AppendProperties
    <2>2. r = [[e EXCEPT !.view = v] EXCEPT !.undo = r.undo]
      BY <1>5 DEF Editors
    <2> HIDE DEF r, last
    <2>3. r.undo \in Seq(Transactions)
      BY <1>9, <2>1
    <2> QED BY <1>5, <1>6, <2>2, <2>3 DEF Editors
  <1>11. r.text = e.text /\ r.redo = e.redo /\ r.view = v
    BY <1>5 DEF Editors
  <1> HIDE DEF r, last
  <1>12. Recorded(Here, r)
    <2>1. Leads(Here.text, last, r.text)
      BY <1>7, <1>8, <1>11 DEF Leads
    <2> QED BY <1>7, <1>8, <1>9, <1>11, <2>1 DEF Recorded
  <1> QED BY <1>2, <1>6, <1>10, <1>11, <1>12, HereType, OrdinaryEdit DEF Kept

\* and replacing all matches.
LEMMA ReplaceAllMatchesStep ==
  ASSUME TypeInv, NEW pattern \in Patterns, NEW replacement \in Replacements,
         replaceAllMatches(pattern, replacement)
  PROVE  Ordinary
  <1> DEFINE r == replacingAll(pattern, replacement)
             offset == Least(r.from, Greatest(Len(r.text), 1) - 1)
             v == [WithoutPendingDigit(view) EXCEPT
                     !.offset = offset, !.length = Len(replacement),
                     !.anchor = offset]
             e == Record(Here, r.text, v, r.operations)
  <1>1. r.operations # <<>> /\ Become(e)
    BY DEF replaceAllMatches
  <1>2. pattern \in Text /\ replacement \in Text /\ text \in Text /\ view \in Views
    BY Inputs DEF TypeInv
  <1>3. Progress(text, r) /\ r.from \in Nat
    BY <1>2, AllReplaced
  <1> HIDE DEF r
  <1>4. r.text \in Text /\ r.operations \in Seq(EditOperations) /\ Edits(text, r.operations, r.text)
    BY <1>3 DEF Progress
  <1>5. offset \in Nat /\ Len(replacement) \in Nat
    <2>1. Len(r.text) \in Nat /\ Len(replacement) \in Nat
      BY <1>2, <1>4, LenProperties DEF Text
    <2> QED BY <1>3, <2>1 DEF Least, Greatest
  <1> HIDE DEF offset
  <1>6. v \in Views /\ v.nibble = NoDigit
    BY <1>2, <1>5 DEF WithoutPendingDigit, Views
  <1> HIDE DEF v
  <1>7. e \in Editors /\ Recorded(Here, e) /\ e.view = v
    BY <1>1, <1>4, <1>6, HereType, RecordIs
  <1> HIDE DEF e
  <1> QED BY <1>1, <1>6, <1>7, HereType, OrdinaryEdit DEF Kept

\* What applying operations leaves is a text, whether or not one is refused.
Answers == [text : Text, done : BOOLEAN]

\* An operation of the history leaves a text.
LEMMA ApplyOperationType ==
  ASSUME NEW r \in Answers, NEW o \in EditOperations
  PROVE  /\ ApplyOperation(r, o.offset, Len(o.old), o.new) \in Answers
         /\ ApplyOperation(r, o.offset, Len(o.new), o.old) \in Answers
  <1>1. /\ r.text \in Text /\ o.offset \in Nat /\ o.old \in Text /\ o.new \in Text
        /\ Len(o.old) \in Nat /\ Len(o.new) \in Nat
    BY LenProperties DEF Answers, EditOperations, Text
  <1>2. ASSUME NEW n \in Nat, NEW b \in Text
        PROVE  ApplyOperation(r, o.offset, n, b) \in Answers
    <2>1. CASE r.done /\ InDocument(r.text, o.offset, n)
      <3>1. Replaced(r.text, o.offset, n, b) \in Text
        BY <1>1, <2>1, ReplacedType
      <3> QED BY <2>1, <3>1 DEF ApplyOperation, Answers
    <2>2. CASE ~ (r.done /\ InDocument(r.text, o.offset, n))
      BY <2>2 DEF ApplyOperation, Answers
    <2> QED BY <2>1, <2>2
  <1> QED BY <1>1, <1>2

\* g are the answers on the way from the last operation to the first one.
UndoneBy(g, t, transaction) ==
    LET os == transaction.operations
    IN  /\ g \in [0 .. Len(os) -> Answers]
        /\ g[Len(os)] = [text |-> t, done |-> TRUE]
        /\ \A i \in 0 .. Len(os) - 1 :
              g[i] = ApplyOperation(g[i + 1], os[i + 1].offset,
                                    Len(os[i + 1].new), os[i + 1].old)
        /\ Undone(t, transaction) = g[0]

\* Undoing goes from the last operation to the first one.
LEMMA UndoneSteps ==
  ASSUME NEW t \in Text, NEW transaction \in Transactions
  PROVE  \E g : UndoneBy(g, t, transaction)
  <1> DEFINE os == transaction.operations
             n == Len(os)
             base == [text |-> t, done |-> TRUE]
             undone[i \in 0 .. n] ==
                IF i = n THEN [text |-> t, done |-> TRUE]
                ELSE ApplyOperation(undone[i + 1], os[i + 1].offset,
                                    Len(os[i + 1].new), os[i + 1].old)
             Equation(f) ==
                f = [i \in 0 .. n |->
                        IF i = n THEN [text |-> t, done |-> TRUE]
                        ELSE ApplyOperation(f[i + 1], os[i + 1].offset,
                                            Len(os[i + 1].new), os[i + 1].old)]
             step == [i \in 1 .. n |-> [r \in Answers |->
                        ApplyOperation(r, os[i].offset, Len(os[i].new), os[i].old)]]
  <1>1. n \in Nat /\ \A i \in 1 .. n : os[i] \in EditOperations
    BY LenProperties, ElementOfSeq DEF Transactions
  <1>2. Undone(t, transaction) = undone[0] /\ undone = CHOOSE f : Equation(f)
    BY DEF Undone
  <1>3. step \in [1 .. n -> [Answers -> Answers]] /\ base \in Answers
    <2>1. \A i \in 1 .. n : \A r \in Answers : ApplyOperation(r, os[i].offset, Len(os[i].new), os[i].old) \in Answers
      BY <1>1, ApplyOperationType
    <2>2. base \in Answers
      BY DEF Answers
    <2> HIDE DEF n, os
    <2> QED BY <2>1, <2>2
  <1>4. \A i \in 1 .. n : \A r \in Answers : step[i][r] = ApplyOperation(r, os[i].offset, Len(os[i].new), os[i].old)
    OBVIOUS
  <1> HIDE DEF undone, step, Equation
  <1>5. PICK g : IteratedBack(g, n, Answers, base, step)
    <2>1. n \in Nat
      BY <1>1
    <2> HIDE DEF n, base
    <2> QED BY <1>3, <2>1, IteratesBack
  <1>6. /\ g \in [0 .. n -> Answers] /\ g[n] = base
        /\ \A i \in 0 .. n - 1 : g[i] = step[i + 1][g[i + 1]]
    BY <1>5 DEF IteratedBack
  <1>7. Equation(g)
    <2>1. g = [i \in 0 .. n |-> g[i]]
      BY <1>6
    <2>2. \A i \in 0 .. n :
             g[i] = IF i = n THEN base
                    ELSE ApplyOperation(g[i + 1], os[i + 1].offset,
                                        Len(os[i + 1].new), os[i + 1].old)
      <3> TAKE i \in 0 .. n
      <3>1. CASE i = n
        BY <1>6, <3>1
      <3>2. CASE i # n
        <4>1. i \in 0 .. n - 1 /\ i + 1 \in 1 .. n /\ i + 1 \in 0 .. n
          BY <1>1, <3>2
        <4>2. g[i + 1] \in Answers /\ g[i] = step[i + 1][g[i + 1]]
          BY <1>6, <4>1
        <4>3. g[i] = ApplyOperation(g[i + 1], os[i + 1].offset, Len(os[i + 1].new), os[i + 1].old)
          BY <1>4, <4>1, <4>2
        <4> QED BY <3>2, <4>3
      <3> QED BY <3>1, <3>2
    <2> HIDE DEF n, os
    <2> QED BY <2>1, <2>2 DEF Equation
  <1>8. Equation(undone)
    BY <1>2, <1>7
  <1> DEFINE T == {i \in 0 .. n : undone[i] \in Answers}
  <1>9. n \in T
    <2>1. undone[n] = base
      BY <1>1, <1>8 DEF Equation
    <2> HIDE DEF n, base
    <2> QED BY <1>1, <1>3, <2>1
  <1>10. \A i \in 0 .. n - 1 : i + 1 \in T => i \in T
    <2> TAKE i \in 0 .. n - 1
    <2> HAVE i + 1 \in T
    <2>1. i \in 0 .. n /\ i # n /\ i + 1 \in 1 .. n
      BY <1>1
    <2>2. undone[i] = ApplyOperation(undone[i + 1], os[i + 1].offset, Len(os[i + 1].new), os[i + 1].old)
      BY <1>8, <2>1 DEF Equation
    <2>3. undone[i] \in Answers
      BY <1>1, <2>1, <2>2, ApplyOperationType
    <2> QED BY <2>1, <2>3
  <1>11. \A i \in 0 .. n : undone[i] \in Answers
    <2>1. \A i \in 0 .. n : i \in T
      <3> HIDE DEF T, n
      <3> QED BY <1>1, <1>9, <1>10, DownFrom
    <2> QED BY <2>1
  <1>12. undone \in [0 .. n -> Answers]
    <2>1. undone = [i \in 0 .. n |-> undone[i]]
      BY <1>8 DEF Equation
    <2> HIDE DEF n
    <2> QED BY <1>11, <2>1
  <1>13. undone[n] = base
    BY <1>1, <1>8 DEF Equation
  <1>14. \A i \in 0 .. n - 1 :
            undone[i] = ApplyOperation(undone[i + 1], os[i + 1].offset,
                                       Len(os[i + 1].new), os[i + 1].old)
    <2> TAKE i \in 0 .. n - 1
    <2>1. i \in 0 .. n /\ i # n
      BY <1>1
    <2> QED BY <1>8, <2>1 DEF Equation
  <1>15. UndoneBy(undone, t, transaction)
    BY <1>2, <1>12, <1>13, <1>14 DEF UndoneBy
  <1> QED BY <1>15

\* So does undoing a transaction,
LEMMA UndoneType ==
  ASSUME NEW t \in Text, NEW transaction \in Transactions
  PROVE  Undone(t, transaction).text \in Text
  <1> DEFINE n == Len(transaction.operations)
  <1>1. n \in Nat
    BY LenProperties DEF Transactions
  <1>2. PICK g : g \in [0 .. n -> Answers] /\ Undone(t, transaction) = g[0]
    BY UndoneSteps DEF UndoneBy
  <1>3. g[0] \in Answers
    BY <1>1, <1>2
  <1> QED BY <1>2, <1>3 DEF Answers

\* f are the answers on the way from the first operation to the last one.
RedoneBy(f, t, transaction) ==
    LET os == transaction.operations
    IN  /\ f \in [0 .. Len(os) -> Answers]
        /\ f[0] = [text |-> t, done |-> TRUE]
        /\ \A i \in 1 .. Len(os) :
              f[i] = ApplyOperation(f[i - 1], os[i].offset, Len(os[i].old), os[i].new)
        /\ Redone(t, transaction) = f[Len(os)]

\* Redoing goes from the first operation to the last one.
LEMMA RedoneSteps ==
  ASSUME NEW t \in Text, NEW transaction \in Transactions
  PROVE  \E f : RedoneBy(f, t, transaction)
  <1> DEFINE os == transaction.operations
             n == Len(os)
             base == [text |-> t, done |-> TRUE]
             redone[i \in 0 .. n] ==
                IF i = 0 THEN [text |-> t, done |-> TRUE]
                ELSE ApplyOperation(redone[i - 1], os[i].offset,
                                    Len(os[i].old), os[i].new)
             Equation(f) ==
                f = [i \in 0 .. n |->
                        IF i = 0 THEN [text |-> t, done |-> TRUE]
                        ELSE ApplyOperation(f[i - 1], os[i].offset,
                                            Len(os[i].old), os[i].new)]
             step == [i \in 1 .. n |-> [r \in Answers |->
                        ApplyOperation(r, os[i].offset, Len(os[i].old), os[i].new)]]
  <1>1. n \in Nat /\ \A i \in 1 .. n : os[i] \in EditOperations
    BY LenProperties, ElementOfSeq DEF Transactions
  <1>2. Redone(t, transaction) = redone[n] /\ redone = CHOOSE f : Equation(f)
    BY DEF Redone
  <1>3. step \in [1 .. n -> [Answers -> Answers]] /\ base \in Answers
    <2>1. \A i \in 1 .. n : \A r \in Answers : ApplyOperation(r, os[i].offset, Len(os[i].old), os[i].new) \in Answers
      BY <1>1, ApplyOperationType
    <2>2. base \in Answers
      BY DEF Answers
    <2> HIDE DEF n, os
    <2> QED BY <2>1, <2>2
  <1>4. \A i \in 1 .. n : \A r \in Answers : step[i][r] = ApplyOperation(r, os[i].offset, Len(os[i].old), os[i].new)
    OBVIOUS
  <1> HIDE DEF redone, step, Equation
  <1>5. PICK f : Iterated(f, n, Answers, base, step)
    <2>1. n \in Nat
      BY <1>1
    <2> HIDE DEF n, base
    <2> QED BY <1>3, <2>1, Iterates
  <1>6. /\ f \in [0 .. n -> Answers] /\ f[0] = base
        /\ \A i \in 1 .. n : f[i] = step[i][f[i - 1]]
    BY <1>5 DEF Iterated
  <1>7. Equation(f)
    <2>1. f = [i \in 0 .. n |-> f[i]]
      BY <1>6
    <2>2. \A i \in 0 .. n :
             f[i] = IF i = 0 THEN base
                    ELSE ApplyOperation(f[i - 1], os[i].offset, Len(os[i].old), os[i].new)
      <3> TAKE i \in 0 .. n
      <3>1. CASE i = 0
        BY <1>6, <3>1
      <3>2. CASE i # 0
        <4>1. i \in 1 .. n /\ i - 1 \in 0 .. n
          BY <1>1, <3>2
        <4>2. f[i - 1] \in Answers /\ f[i] = step[i][f[i - 1]]
          BY <1>6, <4>1
        <4>3. f[i] = ApplyOperation(f[i - 1], os[i].offset, Len(os[i].old), os[i].new)
          BY <1>4, <4>1, <4>2
        <4> QED BY <3>2, <4>3
      <3> QED BY <3>1, <3>2
    <2> HIDE DEF n, os
    <2> QED BY <2>1, <2>2 DEF Equation
  <1>8. Equation(redone)
    BY <1>2, <1>7
  <1> DEFINE T == {i \in 0 .. n : redone[i] \in Answers}
  <1>9. 0 \in T
    <2>1. redone[0] = base
      BY <1>1, <1>8 DEF Equation
    <2> HIDE DEF n, base
    <2> QED BY <1>1, <1>3, <2>1
  <1>10. \A i \in 1 .. n : i - 1 \in T => i \in T
    <2> TAKE i \in 1 .. n
    <2> HAVE i - 1 \in T
    <2>1. i \in 0 .. n /\ i # 0
      BY <1>1
    <2>2. redone[i] = ApplyOperation(redone[i - 1], os[i].offset, Len(os[i].old), os[i].new)
      BY <1>8, <2>1 DEF Equation
    <2>3. redone[i] \in Answers
      BY <1>1, <2>1, <2>2, ApplyOperationType
    <2> QED BY <2>1, <2>3
  <1>11. \A i \in 0 .. n : redone[i] \in Answers
    <2>1. \A i \in 0 .. n : i \in T
      <3> HIDE DEF T, n
      <3> QED BY <1>1, <1>9, <1>10, UpTo
    <2> QED BY <2>1
  <1>12. redone \in [0 .. n -> Answers]
    <2>1. redone = [i \in 0 .. n |-> redone[i]]
      BY <1>8 DEF Equation
    <2> HIDE DEF n
    <2> QED BY <1>11, <2>1
  <1>13. redone[0] = base
    BY <1>1, <1>8 DEF Equation
  <1>14. \A i \in 1 .. n :
            redone[i] = ApplyOperation(redone[i - 1], os[i].offset,
                                       Len(os[i].old), os[i].new)
    <2> TAKE i \in 1 .. n
    <2>1. i \in 0 .. n /\ i # 0
      BY <1>1
    <2> QED BY <1>8, <2>1 DEF Equation
  <1>15. RedoneBy(redone, t, transaction)
    BY <1>2, <1>12, <1>13, <1>14 DEF RedoneBy
  <1> QED BY <1>15

\* and redoing one.
LEMMA RedoneType ==
  ASSUME NEW t \in Text, NEW transaction \in Transactions
  PROVE  Redone(t, transaction).text \in Text
  <1> DEFINE n == Len(transaction.operations)
  <1>1. n \in Nat
    BY LenProperties DEF Transactions
  <1>2. PICK f : f \in [0 .. n -> Answers] /\ Redone(t, transaction) = f[n]
    BY RedoneSteps DEF RedoneBy
  <1>3. f[n] \in Answers
    BY <1>1, <1>2
  <1> QED BY <1>2, <1>3 DEF Answers

\* The last element, and those before it.
LEMMA FrontAndLast ==
  ASSUME NEW S, NEW s \in Seq(S), s # <<>>
  PROVE  /\ Last(s) \in S /\ Last(s) = s[Len(s)]
         /\ Len(s) \in Nat /\ Len(s) >= 1
         /\ Front(s) \in Seq(S) /\ Len(Front(s)) = Len(s) - 1
         /\ \A i \in 1 .. Len(s) - 1 : Front(s)[i] = s[i]
  <1> DEFINE n == Len(s) - 1
  <1>1. Len(s) \in Nat /\ Len(s) >= 1
    BY LenProperties, EmptySeq
  <1>2. n \in Nat /\ 0 + n <= Len(s) /\ Len(s) \in 1 .. Len(s)
    BY <1>1
  <1>3. Front(s) = Part(s, 0, n)
    BY DEF Front, Part
  <1> HIDE DEF n
  <1>4. /\ Part(s, 0, n) \in Seq(S) /\ Len(Part(s, 0, n)) = n
        /\ \A i \in 1 .. n : Part(s, 0, n)[i] = s[0 + i]
    <2> DEFINE zero == 0
    <2>1. zero \in Nat /\ zero + n <= Len(s)
      BY <1>2
    <2> HIDE DEF zero
    <2>2. /\ Part(s, zero, n) \in Seq(S) /\ Len(Part(s, zero, n)) = n
          /\ \A i \in 1 .. n : Part(s, zero, n)[i] = s[zero + i]
      BY <1>2, <2>1, PartIs
    <2> QED BY <2>2 DEF zero
  <1>5. \A i \in 1 .. n : Front(s)[i] = s[i]
    <2>1. \A i \in 1 .. n : 0 + i = i
      BY <1>2
    <2> QED BY <1>3, <1>4, <2>1
  <1>6. Last(s) = s[Len(s)] /\ s[Len(s)] \in S
    BY <1>2, ElementOfSeq DEF Last
  <1> QED BY <1>1, <1>3, <1>4, <1>5, <1>6 DEF n

\* restoreSelection gives back what was captured, and no pending digit.
LEMMA RestoredType ==
  ASSUME NEW v \in Views, NEW s \in Selection
  PROVE  /\ restoreSelection(v, s) \in Views
         /\ restoreSelection(v, s).nibble = NoDigit
         /\ captureSelection(restoreSelection(v, s)) = s
         /\ \A t : Inside(s, t) => Inside(restoreSelection(v, s), t)
  <1> DEFINE w == Selecting(v, s.offset, s.length, s.anchor)
             r == restoreSelection(v, s)
  <1>1. s.offset \in Nat /\ s.length \in Nat /\ s.anchor \in Nat /\ s.additional \in SUBSET Nat
    BY DEF Selection
  <1>2. Selects(w, s.offset, s.length, s.anchor)
    <2> DEFINE a == s.offset
               b == s.length
               c == s.anchor
    <2>1. a \in Nat /\ b \in Nat /\ c \in Nat
      BY <1>1
    <2> HIDE DEF a, b, c
    <2>2. Selects(Selecting(v, a, b, c), a, b, c)
      BY <2>1, SelectingType
    <2> QED BY <2>2 DEF a, b, c
  <1>3. r = [w EXCEPT !.additional = s.additional]
    BY DEF restoreSelection
  <1> HIDE DEF w, r
  <1>4. /\ r \in Views /\ r.nibble = NoDigit /\ r.offset = s.offset /\ r.length = s.length
        /\ r.anchor = s.anchor /\ r.additional = s.additional
    BY <1>1, <1>2, <1>3 DEF Selects, Views
  <1>5. captureSelection(r) = s
    BY <1>4 DEF captureSelection, Selection
  <1>6. \A t : Inside(s, t) => Inside(r, t)
    BY <1>4 DEF Inside
  <1> QED BY <1>4, <1>5, <1>6 DEF r

\* The selection that comes back is not shortened when it was in the text that
\* comes back.
LEMMA SelectionBack ==
  ASSUME TypeInv, NEW s \in Selection, NEW t \in Text,
         view' = clampView(restoreSelection(view, s), Len(t))
  PROVE  /\ view'.nibble = NoDigit
         /\ Inside(s, t) => captureSelection(view') = s
  <1> DEFINE r == restoreSelection(view, s)
  <1>1. view \in Views
    BY DEF TypeInv
  <1>2. r \in Views /\ r.nibble = NoDigit /\ captureSelection(r) = s /\ (Inside(s, t) => Inside(r, t))
    BY <1>1, RestoredType
  <1> HIDE DEF r
  <1>3. /\ clampView(r, Len(t)).nibble = r.nibble
        /\ Inside(r, t) => captureSelection(clampView(r, Len(t))) = captureSelection(r)
    BY <1>2, Clamped
  <1>4. view' = clampView(r, Len(t))
    BY DEF r
  <1> QED BY <1>2, <1>3, <1>4

\* undoEdit: if all operations apply, the transaction changes stacks.
LEMMA UndoEditStep ==
  ASSUME TypeInv, undoEdit
  PROVE  /\ undo # <<>> /\ Last(undo) \in Transactions /\ TypeInv'
         /\ Undone(text, Last(undo)).done =>
               /\ text' = Undone(text, Last(undo)).text
               /\ undo' = Front(undo) /\ redo' = Append(redo, Last(undo))
               /\ view'.nibble = NoDigit
               /\ Inside(Last(undo).before, text') => captureSelection(view') = Last(undo).before
  <1> DEFINE last == Last(undo)
             r == Undone(text, last)
             v == restoreSelection(view, last.before)
             undone == [Here EXCEPT !.text = r.text, !.view = v,
                                    !.undo = Front(undo), !.redo = Append(redo, last)]
             refused == [Here EXCEPT !.text = r.text]
  <1>1. undo # <<>>
    BY DEF undoEdit
  <1>2. /\ text \in Text /\ view \in Views /\ undo \in Seq(Transactions)
        /\ redo \in Seq(Transactions)
    BY DEF TypeInv
  <1>3. last \in Transactions /\ Front(undo) \in Seq(Transactions)
    BY <1>1, <1>2, FrontAndLast
  <1>4. Become(IF r.done THEN undone ELSE refused)
    <2>1. [Here EXCEPT !.text = r.text, !.view = restoreSelection(@, last.before),
                       !.undo = Front(undo), !.redo = Append(redo, last)] = undone
      BY HereType
    <2> HIDE DEF last, undone
    <2>2. Become(IF r.done
                 THEN [Here EXCEPT !.text = r.text, !.view = restoreSelection(@, last.before),
                                   !.undo = Front(undo), !.redo = Append(redo, last)]
                 ELSE refused)
      BY DEF undoEdit, last
    <2> QED BY <2>1, <2>2
  <1>5. r.text \in Text
    BY <1>2, <1>3, UndoneType
  <1>6. last.before \in Selection /\ last.after \in Selection
    BY <1>3 DEF Transactions
  <1> HIDE DEF last, r
  <1>7. v \in Views
    BY <1>2, <1>6, RestoredType
  <1>8. Append(redo, last) \in Seq(Transactions)
    BY <1>2, <1>3, AppendProperties
  <1>9. /\ undone \in Editors /\ undone.text = r.text /\ undone.view = v
        /\ undone.undo = Front(undo) /\ undone.redo = Append(redo, last)
    <2> HIDE DEF v
    <2> QED BY <1>3, <1>5, <1>7, <1>8, HereType DEF Editors
  <1>10. refused \in Editors
    BY <1>5, HereType DEF Editors
  <1> HIDE DEF undone, refused
  <1>11. TypeInv'
    BY <1>4, <1>9, <1>10, BecomeType
  <1>12. ASSUME r.done
         PROVE  /\ text' = r.text /\ undo' = Front(undo) /\ redo' = Append(redo, last)
                /\ view' = clampView(v, Len(r.text))
    BY <1>4, <1>9, <1>12 DEF Become
  <1>13. ASSUME r.done
         PROVE  /\ view'.nibble = NoDigit
                /\ Inside(last.before, r.text) => captureSelection(view') = last.before
    BY <1>5, <1>6, <1>12, <1>13, SelectionBack
  <1> QED BY <1>1, <1>3, <1>11, <1>12, <1>13 DEF last, r

\* redoEdit, the same.
LEMMA RedoEditStep ==
  ASSUME TypeInv, redoEdit
  PROVE  /\ redo # <<>> /\ Last(redo) \in Transactions /\ TypeInv'
         /\ Redone(text, Last(redo)).done =>
               /\ text' = Redone(text, Last(redo)).text
               /\ undo' = Append(undo, Last(redo)) /\ redo' = Front(redo)
               /\ view'.nibble = NoDigit
  <1> DEFINE last == Last(redo)
             r == Redone(text, last)
             v == restoreSelection(view, last.after)
             redone == [Here EXCEPT !.text = r.text, !.view = v,
                                    !.undo = Append(undo, last), !.redo = Front(redo)]
             refused == [Here EXCEPT !.text = r.text]
  <1>1. redo # <<>>
    BY DEF redoEdit
  <1>2. /\ text \in Text /\ view \in Views /\ undo \in Seq(Transactions)
        /\ redo \in Seq(Transactions)
    BY DEF TypeInv
  <1>3. last \in Transactions /\ Front(redo) \in Seq(Transactions)
    BY <1>1, <1>2, FrontAndLast
  <1>4. Become(IF r.done THEN redone ELSE refused)
    <2>1. [Here EXCEPT !.text = r.text, !.view = restoreSelection(@, last.after),
                       !.undo = Append(undo, last), !.redo = Front(redo)] = redone
      BY HereType
    <2> HIDE DEF last, redone
    <2>2. Become(IF r.done
                 THEN [Here EXCEPT !.text = r.text, !.view = restoreSelection(@, last.after),
                                   !.undo = Append(undo, last), !.redo = Front(redo)]
                 ELSE refused)
      BY DEF redoEdit, last
    <2> QED BY <2>1, <2>2
  <1>5. r.text \in Text
    BY <1>2, <1>3, RedoneType
  <1>6. last.before \in Selection /\ last.after \in Selection
    BY <1>3 DEF Transactions
  <1> HIDE DEF last, r
  <1>7. v \in Views
    BY <1>2, <1>6, RestoredType
  <1>8. Append(undo, last) \in Seq(Transactions)
    BY <1>2, <1>3, AppendProperties
  <1>9. /\ redone \in Editors /\ redone.text = r.text /\ redone.view = v
        /\ redone.undo = Append(undo, last) /\ redone.redo = Front(redo)
    <2> HIDE DEF v
    <2> QED BY <1>3, <1>5, <1>7, <1>8, HereType DEF Editors
  <1>10. refused \in Editors
    BY <1>5, HereType DEF Editors
  <1> HIDE DEF redone, refused
  <1>11. TypeInv'
    BY <1>4, <1>9, <1>10, BecomeType
  <1>12. ASSUME r.done
         PROVE  /\ text' = r.text /\ undo' = Append(undo, last) /\ redo' = Front(redo)
                /\ view' = clampView(v, Len(r.text))
    BY <1>4, <1>9, <1>12 DEF Become
  <1>13. ASSUME r.done PROVE view'.nibble = NoDigit
    BY <1>5, <1>6, <1>12, <1>13, SelectionBack
  <1> QED BY <1>1, <1>3, <1>11, <1>12, <1>13 DEF last, r

-----------------------------------------------------------------------------
(* The two digits of a byte *)

\* A digit that waits was typed by the last transaction.
Waits(v, t, u, r) ==
    v.nibble # NoDigit =>
        /\ r = <<>> /\ u # <<>>
        /\ \E o \in EditOperations :
              /\ Last(u).operations = <<o>> /\ o.offset = v.nibbleOffset
              /\ o.new = <<<<v.nibble, 0>>>>
        /\ InDocument(t, v.nibbleOffset, 1)
        /\ BytesAt(t, v.nibbleOffset, 1) = <<<<v.nibble, 0>>>>

\* What has been put into a text is there.
LEMMA ReplacedBytes ==
  ASSUME NEW t \in Text, NEW at \in Nat, NEW n \in Nat, InDocument(t, at, n),
         NEW b \in Text
  PROVE  BytesAt(Replaced(t, at, n, b), at, Len(b)) = b
  <1>1. at + n <= Len(t)
    BY DEF InDocument
  <1>2. Part(Splice(t, at, n, b), at, Len(b)) = b
    BY <1>1, SplicedPart DEF Text
  <1> QED BY <1>2, ReplacedIsSplice

\* The first digit of a byte is recorded, and waits if it was typed over at
\* most one range.
LEMMA FirstNibbleStep ==
  ASSUME TypeInv, NEW digit \in TypedDigits, firstNibble(digit)
  PROVE  \E e \in Editors :
            /\ Become(e)
            /\ Recorded(Here, e) \/ RecordedTwice(Here, e)
            /\ view.additional = {} => Waits(e.view, e.text, e.undo, e.redo)
  <1> DEFINE b == <<<<digit, 0>>>>
             q == replaceSelection(Here, b)
             last == IF Len(q.text) = 0 THEN 0 ELSE Len(q.text) - 1
             offset == Least(view.offset, last)
             v == [q.view EXCEPT !.nibble = digit, !.nibbleOffset = offset]
             e == [q EXCEPT !.view = v]
  <1>1. b \in Text /\ Len(b) = 1
    <2>1. <<digit, 0>> \in Byte
      BY Inputs DEF Byte
    <2> QED BY <2>1, OneByteText
  <1> HIDE DEF b
  <1>2. /\ q \in Editors /\ q.done
        /\ Recorded(Here, q) \/ RecordedTwice(Here, q)
    <2>1. Here \in Editors /\ Inside(Here.view, Here.text) /\ Here.done
      BY HereType
    <2>2. LET r == replaceSelection(Here, b)
          IN  /\ r \in Editors /\ r.done
              /\ Recorded(Here, r) \/ RecordedTwice(Here, r)
      BY <1>1, <2>1, SelectionReplaced
    <2> QED BY <2>2
  <1>3. /\ q.redo = <<>>
        /\ view.additional = {} =>
              \E length \in Nat : \E transaction \in Transactions :
                 /\ InDocument(text, view.offset, length)
                 /\ q.text = Replaced(text, view.offset, length, b)
                 /\ q.undo = Append(undo, transaction)
                 /\ transaction.operations = <<Operation(text, view.offset, length, b)>>
    <2>1. /\ Here \in Editors /\ Inside(Here.view, Here.text) /\ Here.done
          /\ Here.text = text /\ Here.view = view /\ Here.undo = undo
      BY HereType
    <2>2. LET r == replaceSelection(Here, b)
          IN  /\ r.redo = <<>>
              /\ Here.view.additional = {} =>
                    \E length \in Nat : \E transaction \in Transactions :
                       /\ InDocument(Here.text, Here.view.offset, length)
                       /\ r.text = Replaced(Here.text, Here.view.offset, length, b)
                       /\ r.undo = Append(Here.undo, transaction)
                       /\ transaction.operations
                             = <<Operation(Here.text, Here.view.offset, length, b)>>
      BY <1>1, <2>1, SelectionReplaced
    <2> QED BY <2>1, <2>2
  <1>4. Become(e)
    <2>1. Become(IF q.done
                 THEN [q EXCEPT !.view.nibble = digit, !.view.nibbleOffset = offset]
                 ELSE q)
      BY DEF firstNibble, b
    <2>2. [q EXCEPT !.view.nibble = digit, !.view.nibbleOffset = offset] = e
      <3> HIDE DEF q, offset
      <3> QED BY <1>2, EditorFields DEF Editors, Views
    <2> HIDE DEF q, e
    <2> QED BY <1>2, <2>1, <2>2
  <1>5. Len(q.text) \in Nat /\ offset \in Nat
    <2>1. Len(q.text) \in Nat
      <3> HIDE DEF q
      <3> QED BY <1>2, EditorFields, LenProperties DEF Text
    <2> HIDE DEF q
    <2> QED BY <2>1, TextLength DEF Least
  <1> HIDE DEF q
  <1>6. /\ v \in Views /\ v.nibble = digit /\ v.nibbleOffset = offset
    <2>1. q.view \in Views /\ digit \in Digits
      BY <1>2, EditorFields, Inputs
    <2> HIDE DEF offset
    <2> QED BY <1>5, <2>1 DEF Views
  <1> HIDE DEF v
  <1>7. e \in Editors /\ Kept(q, e) /\ e.view = v
    BY <1>2, <1>6, ViewChanged
  <1> HIDE DEF e
  <1>8. Recorded(Here, e) \/ RecordedTwice(Here, e)
    BY <1>2, <1>7 DEF Kept, Recorded, RecordedTwice
  <1>9. ASSUME view.additional = {} PROVE Waits(e.view, e.text, e.undo, e.redo)
    <2>1. PICK length \in Nat : \E transaction \in Transactions :
             /\ InDocument(text, view.offset, length)
             /\ q.text = Replaced(text, view.offset, length, b)
             /\ q.undo = Append(undo, transaction)
             /\ transaction.operations = <<Operation(text, view.offset, length, b)>>
      BY <1>3, <1>9
    <2>2. PICK transaction \in Transactions :
             /\ InDocument(text, view.offset, length)
             /\ q.text = Replaced(text, view.offset, length, b)
             /\ q.undo = Append(undo, transaction)
             /\ transaction.operations = <<Operation(text, view.offset, length, b)>>
      BY <2>1
    <2> DEFINE o == Operation(text, view.offset, length, b)
    <2>3. text \in Text /\ view.offset \in Nat /\ undo \in Seq(Transactions)
      BY TextLength DEF TypeInv
    <2>4. o \in EditOperations /\ o.offset = view.offset /\ o.new = b
      BY <1>1, <2>2, <2>3, OperationTurns
    <2> HIDE DEF o
    <2>5. Len(q.text) = Len(text) - length + Len(b) /\ Len(text) \in Nat
      <3> DEFINE at == view.offset
      <3>1. at \in Nat /\ InDocument(text, at, length)
        BY <2>2, <2>3
      <3> HIDE DEF at
      <3>2. Len(Replaced(text, at, length, b)) = Len(text) - length + Len(b) /\ Len(text) \in Nat
        BY <1>1, <2>3, <3>1, ReplacedType
      <3> QED BY <2>2, <3>2 DEF at
    <2>6. BytesAt(q.text, view.offset, 1) = b
      <3> DEFINE at == view.offset
      <3>1. at \in Nat /\ InDocument(text, at, length)
        BY <2>2, <2>3
      <3> HIDE DEF at
      <3>2. BytesAt(Replaced(text, at, length, b), at, Len(b)) = b
        BY <1>1, <2>3, <3>1, ReplacedBytes
      <3> QED BY <1>1, <2>2, <3>2 DEF at
    <2>7. offset = view.offset /\ view.offset + 1 <= Len(q.text)
      <3>1. view.offset + length <= Len(text)
        BY <2>2 DEF InDocument
      <3> QED BY <1>1, <1>5, <2>3, <2>5, <3>1 DEF Least
    <2> HIDE DEF offset
    <2>8. e.undo # <<>> /\ Last(e.undo).operations = <<o>>
      <3>1. /\ Append(undo, transaction) \in Seq(Transactions)
            /\ Len(Append(undo, transaction)) = Len(undo) + 1
            /\ Append(undo, transaction)[Len(undo) + 1] = transaction
            /\ Append(undo, transaction) # <<>>
        BY <2>3, AppendProperties
      <3>2. e.undo = Append(undo, transaction)
        BY <1>7, <2>2 DEF Kept
      <3> QED BY <2>2, <3>1, <3>2 DEF Last, o
    <2>9. b = <<<<e.view.nibble, 0>>>> /\ e.view.nibbleOffset = view.offset
      BY <1>6, <1>7, <2>7 DEF b
    <2>10. InDocument(e.text, e.view.nibbleOffset, 1) /\ BytesAt(e.text, e.view.nibbleOffset, 1) = b
      BY <1>7, <2>6, <2>7, <2>9 DEF Kept, InDocument
    <2>11. e.redo = <<>>
      BY <1>3, <1>7 DEF Kept
    <2> QED BY <2>4, <2>8, <2>9, <2>10, <2>11 DEF Waits
  <1> QED BY <1>4, <1>7, <1>8, <1>9

\* Operations at the same places on bytes as many.
SameShape(os, ps) ==
    /\ Len(ps) = Len(os)
    /\ \A i \in 1 .. Len(os) :
          /\ ps[i].offset = os[i].offset /\ Len(ps[i].old) = Len(os[i].old)
          /\ Len(ps[i].new) = Len(os[i].new)

\* The last operation of a transaction gets other bytes.
LEMMA OperationCompleted ==
  ASSUME NEW transaction \in Transactions, NEW bytes \in Text, NEW s \in Selection
  PROVE  LET os == transaction.operations
             completed == [transaction EXCEPT !.operations[Len(os)].new = bytes, !.after = s]
         IN  /\ completed \in Transactions /\ completed.before = transaction.before
             /\ \A o \in EditOperations : os = <<o>> =>
                   completed.operations = <<[o EXCEPT !.new = bytes]>>
             /\ Len(Last(os).new) = Len(bytes) => SameShape(os, completed.operations)
  <1> DEFINE os == transaction.operations
             n == Len(os)
             o == os[n]
             p == [o EXCEPT !.new = bytes]
             ps == [os EXCEPT ![n] = p]
             completed == [transaction EXCEPT !.operations[n].new = bytes, !.after = s]
  <1>1. os \in Seq(EditOperations) /\ os # <<>>
    BY DEF Transactions
  <1>2. n \in 1 .. Len(os)
    BY <1>1, LenProperties, EmptySeq
  <1>3. o \in EditOperations
    BY <1>1, <1>2, ElementOfSeq
  <1>4. p \in EditOperations
    <2> HIDE DEF o
    <2> QED BY <1>3 DEF EditOperations
  <1>5. completed = [transaction EXCEPT !.operations = ps, !.after = s]
    OBVIOUS
  <1>6. p.offset = o.offset /\ p.old = o.old /\ p.new = bytes
    <2> HIDE DEF o
    <2> QED BY <1>3 DEF EditOperations
  <1> HIDE DEF p
  <1>7. ps \in Seq(EditOperations) /\ Len(ps) = Len(os)
    <2> HIDE DEF n, os
    <2> QED BY <1>1, <1>2, <1>4, ExceptSeq
  <1>8. ps # <<>>
    BY <1>1, <1>2, <1>7, EmptySeq
  <1>9. /\ completed \in Transactions /\ completed.before = transaction.before
        /\ completed.operations = ps
    <2> HIDE DEF ps, completed
    <2> QED BY <1>5, <1>7, <1>8 DEF Transactions
  <1>10. \A x \in EditOperations : os = <<x>> => completed.operations = <<[x EXCEPT !.new = bytes]>>
    <2> TAKE x \in EditOperations
    <2> HAVE os = <<x>>
    <2>1. n = 1 /\ o = x
      OBVIOUS
    <2>2. p = [x EXCEPT !.new = bytes]
      BY <2>1 DEF p
    <2>3. ps = <<p>>
      <3> HIDE DEF n
      <3> QED BY <2>1
    <2> QED BY <1>9, <2>2, <2>3
  <1>11. ASSUME Len(Last(os).new) = Len(bytes) PROVE SameShape(os, ps)
    <2>1. Last(os) = o
      BY DEF Last
    <2>2. DOMAIN os = 1 .. Len(os)
      BY <1>1, LenProperties
    <2>3. \A i \in 1 .. Len(os) : ps[i] = IF i = n THEN p ELSE os[i]
      <3> HIDE DEF n, os
      <3> QED BY <2>2
    <2>4. \A i \in 1 .. Len(os) :
             /\ ps[i].offset = os[i].offset /\ Len(ps[i].old) = Len(os[i].old)
             /\ Len(ps[i].new) = Len(os[i].new)
      <3> TAKE i \in 1 .. Len(os)
      <3>1. CASE i = n
        <4>1. ps[i] = p /\ os[i] = o
          BY <2>3, <3>1
        <4> HIDE DEF ps, o, n, os
        <4> QED BY <1>6, <1>11, <2>1, <4>1
      <3>2. CASE i # n
        BY <2>3, <3>2
      <3> QED BY <3>1, <3>2
    <2> QED BY <1>7, <2>4 DEF SameShape
  <1> QED BY <1>9, <1>10, <1>11

\* The second digit changes a byte of the text, and the transaction that
\* typed it or none.
LEMMA SecondNibbleStep ==
  ASSUME TypeInv, NEW digit \in TypedDigits, secondNibble(digit)
  PROVE  /\ TypeInv' /\ view.nibble # NoDigit
         /\ view.nibble \in Digits
         /\ Len(text') = Len(text) /\ redo' = redo
         /\ \/ undo' = undo
            \/ \E transaction \in Transactions :
                  /\ undo # <<>> /\ undo' = Append(Front(undo), transaction)
                  /\ transaction.before = Last(undo).before
                  /\ SameShape(Last(undo).operations, transaction.operations)
         /\ Waits(view, text, undo, redo) =>
               \E transaction \in Transactions :
                  /\ text' = [text EXCEPT ![view.nibbleOffset + 1] = <<view.nibble, digit>>]
                  /\ undo' = Append(Front(undo), transaction) /\ redo' = redo
                  /\ view'.nibble = NoDigit
                  /\ transaction.before = Last(undo).before
                  /\ \A o \in EditOperations :
                        Last(undo).operations = <<o>> =>
                           transaction.operations
                              = <<[o EXCEPT !.new = <<<<view.nibble, digit>>>>]>>
  <1> DEFINE offset == view.nibbleOffset
             byte == <<view.nibble, digit>>
             bytes == <<byte>>
             t == [text EXCEPT ![offset + 1] = byte]
             operations == Last(undo).operations
             caret == Least(offset + 1, Len(t))
             s == Selecting(view, caret, 0, caret)
             w == WithoutPendingDigit(view)
             completes == /\ undo # <<>>
                          /\ operations # <<>>
                          /\ Last(operations).offset = offset
                          /\ Len(Last(operations).new) = 1
             transaction == [Last(undo) EXCEPT
                                !.operations[Len(operations)].new = bytes,
                                !.after = captureSelection(s)]
             v == IF completes THEN s ELSE w
             u == IF completes THEN Append(Front(undo), transaction) ELSE undo
             e == [Here EXCEPT !.text = t, !.view = v, !.undo = u]
  <1>1. view.nibble # NoDigit /\ offset < Len(text)
    BY DEF secondNibble
  <1>2. Become(e)
    BY DEF secondNibble
  <1>3. /\ text \in Text /\ view \in Views /\ undo \in Seq(Transactions)
        /\ redo \in Seq(Transactions)
    BY DEF TypeInv
  <1>4. offset \in Nat /\ view.nibble \in Digits /\ Len(text) \in Nat
    BY <1>1, <1>3, ViewFields, TextLength
  <1>5. byte \in Byte
    BY <1>4, Inputs DEF Byte
  <1> HIDE DEF byte
  <1>6. bytes \in Text
    BY <1>5, OneByteText
  <1> HIDE DEF bytes
  <1>7. t \in Text /\ Len(t) = Len(text)
    <2>1. offset + 1 \in 1 .. Len(text)
      BY <1>1, <1>4
    <2> HIDE DEF offset
    <2> QED BY <1>3, <1>5, <2>1, ExceptSeq DEF Text
  <1> HIDE DEF t
  <1>8. caret \in Nat
    BY <1>4, <1>7 DEF Least
  <1> HIDE DEF caret
  <1>9. s \in Views /\ s.nibble = NoDigit /\ w \in Views /\ w.nibble = NoDigit
    BY <1>3, <1>8, CaretType, WithoutPendingDigitType
  <1> HIDE DEF s, w
  <1>10. ASSUME completes
         PROVE  /\ transaction \in Transactions
                /\ transaction.before = Last(undo).before
                /\ \A o \in EditOperations : operations = <<o>> =>
                      transaction.operations = <<[o EXCEPT !.new = bytes]>>
                /\ SameShape(operations, transaction.operations)
    <2>1. Last(undo) \in Transactions
      BY <1>3, <1>10, FrontAndLast
    <2>2. captureSelection(s) \in Selection
      BY <1>9, CaptureType
    <2> DEFINE last == Last(undo)
               c == captureSelection(s)
    <2>3. last \in Transactions /\ c \in Selection
      BY <2>1, <2>2
    <2> HIDE DEF last, c
    <2>4. LET os == last.operations
              completed == [last EXCEPT !.operations[Len(os)].new = bytes, !.after = c]
          IN  /\ completed \in Transactions /\ completed.before = last.before
              /\ \A o \in EditOperations : os = <<o>> =>
                    completed.operations = <<[o EXCEPT !.new = bytes]>>
              /\ Len(Last(os).new) = Len(bytes) => SameShape(os, completed.operations)
      BY <1>6, <2>3, OperationCompleted
    <2>5. Len(Last(operations).new) = Len(bytes)
      BY <1>10 DEF bytes
    <2> QED BY <2>4, <2>5 DEF last, c
  <1> HIDE DEF transaction
  <1>11. u \in Seq(Transactions)
    <2>1. CASE completes
      <3>1. Front(undo) \in Seq(Transactions)
        BY <1>3, <2>1, FrontAndLast
      <3> HIDE DEF completes
      <3>2. Append(Front(undo), transaction) \in Seq(Transactions)
        BY <1>10, <2>1, <3>1, AppendProperties
      <3> QED BY <2>1, <3>2
    <2>2. CASE ~ completes
      <3> HIDE DEF completes
      <3> QED BY <1>3, <2>2
    <2> QED BY <2>1, <2>2
  <1>12. v \in Views /\ v.nibble = NoDigit
    <2> HIDE DEF completes
    <2> QED BY <1>9
  <1>13. completes => u = Append(Front(undo), transaction)
    OBVIOUS
  <1> HIDE DEF u, v
  <1>14. /\ e \in Editors /\ e.text = t /\ e.undo = u /\ e.view = v /\ e.redo = redo
    <2> HIDE DEF completes
    <2> QED BY <1>7, <1>11, <1>12, HereType DEF Editors
  <1> HIDE DEF e
  <1>15. TypeInv'
    BY <1>2, <1>14, BecomeType
  <1>16. /\ text' = t /\ undo' = u /\ redo' = redo /\ view'.nibble = NoDigit
    <2>1. clampView(v, Len(t)).nibble = v.nibble
      BY <1>7, <1>12, Clamped
    <2> QED BY <1>2, <1>12, <1>14, <2>1 DEF Become
  <1>17. ASSUME Waits(view, text, undo, redo) PROVE completes
    <2>1. PICK o \in EditOperations :
             /\ operations = <<o>> /\ o.offset = offset /\ o.new = <<<<view.nibble, 0>>>>
      BY <1>1, <1>17 DEF Waits
    <2>2. undo # <<>>
      BY <1>1, <1>17 DEF Waits
    <2>3. operations # <<>> /\ Last(operations) = o
      <3> HIDE DEF operations
      <3> QED BY <2>1 DEF Last
    <2>4. Len(o.new) = 1
      BY <2>1
    <2> QED BY <2>1, <2>2, <2>3, <2>4
  <1>18. bytes = <<<<view.nibble, digit>>>> /\ t = [text EXCEPT ![offset + 1] = <<view.nibble, digit>>]
    BY DEF bytes, byte, t
  <1> HIDE DEF completes
  <1>19. ASSUME Waits(view, text, undo, redo)
         PROVE  \E tr \in Transactions :
                  /\ text' = [text EXCEPT ![view.nibbleOffset + 1] = <<view.nibble, digit>>]
                  /\ undo' = Append(Front(undo), tr) /\ redo' = redo
                  /\ view'.nibble = NoDigit
                  /\ tr.before = Last(undo).before
                  /\ \A o \in EditOperations :
                        Last(undo).operations = <<o>> =>
                           tr.operations = <<[o EXCEPT !.new = <<<<view.nibble, digit>>>>]>>
    BY <1>10, <1>13, <1>16, <1>17, <1>18, <1>19
  <1>20. \/ undo' = undo
         \/ \E tr \in Transactions :
               /\ undo # <<>> /\ undo' = Append(Front(undo), tr)
               /\ tr.before = Last(undo).before
               /\ SameShape(Last(undo).operations, tr.operations)
    <2>1. CASE completes
      <3>1. undo # <<>>
        BY <2>1 DEF completes
      <3>2. undo' = Append(Front(undo), transaction)
        BY <1>13, <1>16, <2>1
      <3> QED BY <1>10, <2>1, <3>1, <3>2
    <2>2. CASE ~ completes
      BY <1>16, <2>2 DEF u
    <2> QED BY <2>1, <2>2
  <1> QED BY <1>1, <1>4, <1>7, <1>15, <1>16, <1>19, <1>20

-----------------------------------------------------------------------------
(* Types *)

\* The view at the start.
LEMMA StartType == Start \in Views /\ Start.nibble = NoDigit
  <1>1. {} \in SUBSET Nat /\ 0 \in Nat /\ NoDigit \in Digits \cup {NoDigit}
    OBVIOUS
  <1> HIDE DEF NoDrag, NoDigit
  <1> QED BY <1>1, NoDragType DEF Start, Views

\* The types at the start,
LEMMA InitTypes ==
  ASSUME Init
  PROVE  TypeInv
  <1>1. text \in Text /\ Len(text) <= MaxLength
    BY Inputs, LinuxEditorAssumption DEF Init
  <1>2. view \in Views
    BY StartType DEF Init
  <1>3. Inside(view, text)
    <2>1. Len(text) \in Nat
      BY <1>1, LenProperties DEF Text
    <2> QED BY <2>1 DEF Init, Start, Inside
  <1>4. /\ undo \in Seq(Transactions) /\ redo \in Seq(Transactions) /\ Len(undo) <= MaxHistory
    <2>1. MaxHistory \in Nat
      BY LinuxEditorAssumption
    <2> QED BY <2>1 DEF Init
  <1> QED BY <1>1, <1>2, <1>3, <1>4 DEF Init, TypeInv

\* after an ordinary step,
LEMMA OrdinaryTypes ==
  ASSUME TypeInv, Ordinary
  PROVE  TypeInv'
  <1>1. PICK e \in Editors : Become(e)
    BY DEF Ordinary
  <1> QED BY <1>1, BecomeType

\* after a change of the mode
LEMMA SetEditModeStep ==
  ASSUME TypeInv, NEW mode \in EditModes, setEditMode(mode)
  PROVE  TypeInv' /\ UNCHANGED <<text, view, undo, redo>>
  BY Inputs DEF setEditMode, TypeInv, Inside

\* The steps, by what they do to the history.
LEMMA Steps ==
  ASSUME TypeInv, Next
  PROVE  \/ Ordinary
         \/ UNCHANGED <<text, view, undo, redo>> /\ TypeInv'
         \/ \E digit \in TypedDigits : firstNibble(digit) \/ secondNibble(digit)
         \/ undoEdit
         \/ redoEdit
  <1>1. CASE \E offset \in Offsets, extend \in BOOLEAN : selectCharacter(offset, extend)
    BY <1>1, SelectCharacterStep
  <1>2. CASE \E offset \in Offsets : selectByte(offset)
    BY <1>2, SelectByteStep
  <1>3. CASE selectAll
    BY <1>3, SelectAllStep
  <1>4. CASE \E offset \in Offsets : jumpToOffset(offset)
    BY <1>4, JumpToOffsetStep
  <1>5. CASE \E pattern \in Patterns, forwards \in BOOLEAN : findAndSelect(pattern, forwards)
    BY <1>5, FindAndSelectStep
  <1>6. CASE \E offset \in Offsets, begin \in BOOLEAN : extendAdditionalSelection(offset, begin)
    BY <1>6, ExtendAdditionalSelectionStep
  <1>7. CASE releaseMouse
    BY <1>7, ReleaseMouseStep
  <1>8. CASE \E mode \in EditModes : setEditMode(mode)
    BY <1>8, SetEditModeStep
  <1>9. CASE \E byte \in Characters : typeByte(byte)
    BY <1>9, TypeByteStep
  <1>10. CASE \E bytes \in Clipboards : paste(bytes)
    BY <1>10, PasteStep
  <1>11. CASE \E backwards \in BOOLEAN : deleteSelection(backwards)
    BY <1>11, DeleteSelectionStep
  <1>12. CASE cutSelection
    BY <1>12, CutSelectionStep
  <1>13. CASE \E pattern \in Patterns, replacement \in Replacements :
                \/ replaceCurrentMatch(pattern, replacement)
                \/ replaceAllMatches(pattern, replacement)
    BY <1>13, ReplaceCurrentMatchStep, ReplaceAllMatchesStep
  <1> QED BY <1>1, <1>2, <1>3, <1>4, <1>5, <1>6, <1>7, <1>8, <1>9, <1>10,
             <1>11, <1>12, <1>13 DEF Next

\* and after every step.
LEMMA NextTypes ==
  ASSUME TypeInv, [Next]_vars
  PROVE  TypeInv'
  <1>1. CASE Ordinary
    BY <1>1, OrdinaryTypes
  <1>2. ASSUME NEW digit \in TypedDigits, firstNibble(digit) PROVE TypeInv'
    <2>1. PICK e \in Editors : Become(e)
      BY <1>2, FirstNibbleStep
    <2> QED BY <2>1, BecomeType
  <1>3. ASSUME NEW digit \in TypedDigits, secondNibble(digit) PROVE TypeInv'
    BY <1>3, SecondNibbleStep
  <1>4. CASE undoEdit
    BY <1>4, UndoEditStep
  <1>5. CASE redoEdit
    BY <1>5, RedoEditStep
  <1>6. CASE UNCHANGED vars
    BY <1>6 DEF vars, TypeInv, Inside
  <1>7. CASE Next
    BY <1>1, <1>2, <1>3, <1>4, <1>5, <1>7, Steps
  <1> QED BY <1>6, <1>7

\* TypeOK follows.
LEMMA TypesSuffice ==
  ASSUME TypeInv
  PROVE  TypeOK
  <1>1. view.nibble \in Digits \cup {NoDigit} /\ view.nibbleOffset \in Nat
    BY ViewFields DEF TypeInv
  <1>2. ASSUME NEW stack \in Seq(Transactions), NEW i \in DOMAIN stack
        PROVE  stack[i].operations # <<>>
    <2>1. stack[i] \in Transactions
      BY ElementOfSeq, LenProperties
    <2> QED BY <2>1 DEF Transactions
  <1> QED BY <1>1, <1>2 DEF TypeInv, TypeOK, Inside, Text

\* The selection, the additional ranges and the waiting digit always lie in the
\* text, and every transaction has operations, whatever is typed, pasted,
\* deleted, replaced, undone and redone.
THEOREM TypesHold == Spec => []TypeOK
  <1>1. Init => TypeInv
    BY InitTypes
  <1>2. TypeInv /\ [Next]_vars => TypeInv'
    BY NextTypes
  <1>3. TypeInv => TypeOK
    BY TypesSuffice
  <1> QED BY <1>1, <1>2, <1>3, PTL DEF Spec

-----------------------------------------------------------------------------
(* The history as undo and redo give it *)

\* There are texts for every transaction of the two stacks.
Histories(t, u, r) ==
    PastLeads(PastTexts(t, u), t, u) /\ FutureLeads(FutureTexts(t, r), t, r)

Pasts(t, u) == [i \in 1 .. Len(u) |-> PastTexts(t, u)[i - 1]]

Futures(t, r) == [i \in 1 .. Len(r) |-> FutureTexts(t, r)[i]]

\* Sequences given by a function.
LEMMA TextsAre ==
  ASSUME NEW n \in Nat, NEW s \in [1 .. n -> Text]
  PROVE  s \in Seq(Text) /\ Len(s) = n
  BY SeqDef, LenProperties

\* The past of UndoableText, as the instance History substitutes it.
LEMMA PastsAre ==
  ASSUME NEW u \in Seq(Transactions), NEW t, PastLeads(PastTexts(t, u), t, u)
  PROVE  /\ Pasts(t, u) \in Seq(Text) /\ Len(Pasts(t, u)) = Len(u) /\ Len(u) \in Nat
         /\ \A i \in 1 .. Len(u) : Pasts(t, u)[i] = PastTexts(t, u)[i - 1]
  <1> DEFINE past == PastTexts(t, u)
             n == Len(u)
             s == Pasts(t, u)
  <1>1. n \in Nat
    BY LenProperties
  <1>2. past \in [0 .. n -> Text]
    BY DEF PastLeads
  <1>3. s = [i \in 1 .. n |-> past[i - 1]]
    BY DEF Pasts
  <1> HIDE DEF past, n, s
  <1>4. \A i \in 1 .. n : past[i - 1] \in Text
    <2>1. \A i \in 1 .. n : i - 1 \in 0 .. n
      BY <1>1
    <2> QED BY <1>2, <2>1
  <1>5. s \in [1 .. n -> Text]
    BY <1>3, <1>4
  <1> QED BY <1>1, <1>3, <1>5, TextsAre DEF s, n, past

\* And its future.
LEMMA FuturesAre ==
  ASSUME NEW r \in Seq(Transactions), NEW t, FutureLeads(FutureTexts(t, r), t, r)
  PROVE  /\ Futures(t, r) \in Seq(Text) /\ Len(Futures(t, r)) = Len(r) /\ Len(r) \in Nat
         /\ \A i \in 1 .. Len(r) : Futures(t, r)[i] = FutureTexts(t, r)[i]
  <1> DEFINE future == FutureTexts(t, r)
             n == Len(r)
             s == Futures(t, r)
  <1>1. n \in Nat
    BY LenProperties
  <1>2. future \in [0 .. n -> Text]
    BY DEF FutureLeads
  <1>3. s = [i \in 1 .. n |-> future[i]]
    BY DEF Futures
  <1> HIDE DEF future, n, s
  <1>4. \A i \in 1 .. n : future[i] \in Text
    <2>1. \A i \in 1 .. n : i \in 0 .. n
      BY <1>1
    <2> QED BY <1>2, <2>1
  <1>5. s \in [1 .. n -> Text]
    BY <1>3, <1>4
  <1> QED BY <1>1, <1>3, <1>5, TextsAre DEF s, n, future

\* At first there is nothing to undo or redo.
LEMMA NothingDone ==
  ASSUME NEW t \in Text
  PROVE  /\ PastLeads(PastTexts(t, <<>>), t, <<>>)
         /\ FutureLeads(FutureTexts(t, <<>>), t, <<>>)
         /\ Pasts(t, <<>>) = <<>> /\ Futures(t, <<>>) = <<>>
  <1> DEFINE past == [i \in 0 .. 0 |-> t]
             none == <<>>
  <1>1. none \in Seq(Transactions) /\ Len(none) = 0
    OBVIOUS
  <1> HIDE DEF none
  <1>2. /\ past \in [0 .. Len(none) -> Text] /\ past[0] = t /\ past[Len(none)] = t
        /\ \A i \in 1 .. Len(none) : FALSE
    BY <1>1
  <1> HIDE DEF past
  <1>3. PastLeads(past, t, none) /\ FutureLeads(past, t, none)
    BY <1>2 DEF PastLeads, FutureLeads
  <1>4. PastLeads(PastTexts(t, none), t, none) /\ FutureLeads(FutureTexts(t, none), t, none)
    BY <1>1, <1>3, PastIs, FutureIs
  <1>5. Pasts(t, none) \in Seq(Text) /\ Len(Pasts(t, none)) = 0 /\ Futures(t, none) \in Seq(Text) /\ Len(Futures(t, none)) = 0
    BY <1>1, <1>4, PastsAre, FuturesAre
  <1>6. Pasts(t, none) = <<>> /\ Futures(t, none) = <<>>
    BY <1>5, EmptySeq
  <1> QED BY <1>4, <1>6 DEF none

\* One more transaction: the text before it can be had back.
LEMMA PastGrows ==
  ASSUME NEW t \in Text, NEW u \in Seq(Transactions), PastLeads(PastTexts(t, u), t, u),
         NEW transaction \in Transactions, NEW w \in Text, Leads(t, transaction, w)
  PROVE  /\ PastLeads(PastTexts(w, Append(u, transaction)), w, Append(u, transaction))
         /\ Pasts(w, Append(u, transaction)) = Append(Pasts(t, u), t)
  <1> DEFINE past == PastTexts(t, u)
             n == Len(u)
             more == Append(u, transaction)
             now == [i \in 0 .. n + 1 |-> IF i <= n THEN past[i] ELSE w]
  <1>1. n \in Nat
    BY LenProperties
  <1>2. /\ more \in Seq(Transactions) /\ Len(more) = n + 1 /\ more[n + 1] = transaction
        /\ \A i \in 1 .. n : more[i] = u[i]
    BY AppendProperties
  <1>3. /\ past \in [0 .. n -> Text] /\ past[n] = t
        /\ \A i \in 1 .. n : Leads(past[i - 1], u[i], past[i])
    BY DEF PastLeads
  <1> HIDE DEF past, more, n
  <1>4. /\ now \in [0 .. n + 1 -> Text] /\ now[n + 1] = w
        /\ \A i \in 0 .. n : now[i] = past[i]
    <2>1. \A i \in 0 .. n + 1 : (IF i <= n THEN past[i] ELSE w) \in Text
      <3> TAKE i \in 0 .. n + 1
      <3>1. i <= n => i \in 0 .. n
        BY <1>1
      <3> QED BY <1>3, <3>1
    <2>2. n + 1 \in 0 .. n + 1 /\ ~ (n + 1 <= n) /\ \A i \in 0 .. n : i \in 0 .. n + 1 /\ i <= n
      BY <1>1
    <2> QED BY <2>1, <2>2
  <1> HIDE DEF now
  <1>5. \A i \in 1 .. n + 1 : Leads(now[i - 1], more[i], now[i])
    <2> TAKE i \in 1 .. n + 1
    <2>1. CASE i <= n
      <3>1. i \in 1 .. n /\ i \in 0 .. n /\ i - 1 \in 0 .. n
        BY <1>1, <2>1
      <3> QED BY <1>2, <1>3, <1>4, <3>1
    <2>2. CASE i = n + 1
      <3>1. i - 1 = n /\ n \in 0 .. n
        BY <1>1, <2>2
      <3> QED BY <1>2, <1>3, <1>4, <2>2, <3>1
    <2> QED BY <1>1, <2>1, <2>2
  <1>6. PastLeads(now, w, more)
    BY <1>2, <1>4, <1>5 DEF PastLeads
  <1>7. PastTexts(w, more) = now
    BY <1>2, <1>6, PastIs
  <1>8. PastLeads(PastTexts(w, more), w, more)
    BY <1>6, <1>7
  <1> DEFINE a == Pasts(w, more)
             b == Pasts(t, u)
             c == Append(b, t)
  <1>9. a \in Seq(Text) /\ Len(a) = n + 1 /\ \A i \in 1 .. n + 1 : a[i] = now[i - 1]
    BY <1>2, <1>7, <1>8, PastsAre
  <1>10. b \in Seq(Text) /\ Len(b) = n /\ \A i \in 1 .. n : b[i] = past[i - 1]
    BY PastsAre DEF past, n
  <1> HIDE DEF a, b
  <1>11. c \in Seq(Text) /\ Len(c) = n + 1 /\ c[n + 1] = t /\ \A i \in 1 .. n : c[i] = b[i]
    BY <1>10, AppendProperties
  <1> HIDE DEF c
  <1>12. \A i \in 1 .. n + 1 : a[i] = c[i]
    <2> TAKE i \in 1 .. n + 1
    <2>1. i - 1 \in 0 .. n
      BY <1>1
    <2>2. a[i] = past[i - 1]
      BY <1>4, <1>9, <2>1
    <2>3. CASE i <= n
      <3>1. i \in 1 .. n
        BY <1>1, <2>3
      <3> QED BY <1>10, <1>11, <2>2, <3>1
    <2>4. CASE i = n + 1
      <3>1. i - 1 = n
        BY <1>1, <2>4
      <3> QED BY <1>3, <1>11, <2>2, <2>4, <3>1
    <2> QED BY <1>1, <2>3, <2>4
  <1>13. a = c
    BY <1>9, <1>11, <1>12, SeqEqual
  <1> QED BY <1>8, <1>13 DEF a, b, c, more

\* The last transaction undone.
LEMMA PastShrinks ==
  ASSUME NEW t \in Text, NEW u \in Seq(Transactions), PastLeads(PastTexts(t, u), t, u),
         u # <<>>
  PROVE  \E p \in Text :
            /\ Leads(p, Last(u), t)
            /\ Undone(t, Last(u)) = [text |-> p, done |-> TRUE]
            /\ PastLeads(PastTexts(p, Front(u)), p, Front(u))
            /\ Pasts(t, u) # <<>> /\ Pasts(t, u) = Append(Pasts(p, Front(u)), p)
  <1> DEFINE past == PastTexts(t, u)
             n == Len(u)
             p == past[n - 1]
             less == Front(u)
             now == [i \in 0 .. n - 1 |-> past[i]]
  <1>1. /\ n \in Nat /\ n >= 1 /\ Last(u) = u[n] /\ Last(u) \in Transactions
        /\ less \in Seq(Transactions) /\ Len(less) = n - 1
        /\ \A i \in 1 .. n - 1 : less[i] = u[i]
    BY FrontAndLast
  <1>2. /\ past \in [0 .. n -> Text] /\ past[n] = t
        /\ \A i \in 1 .. n : Leads(past[i - 1], u[i], past[i])
    BY DEF PastLeads
  <1> HIDE DEF past, n, less
  <1>3. n \in 1 .. n /\ n - 1 \in 0 .. n /\ n - 1 \in 0 .. n - 1
    BY <1>1
  <1>4. p \in Text /\ Leads(p, Last(u), t)
    BY <1>1, <1>2, <1>3
  <1>5. /\ now \in [0 .. n - 1 -> Text] /\ now[n - 1] = p
        /\ \A i \in 0 .. n - 1 : now[i] = past[i]
    <2>1. \A i \in 0 .. n - 1 : i \in 0 .. n
      BY <1>1
    <2> QED BY <1>2, <1>3, <2>1
  <1> HIDE DEF now, p
  <1>6. \A i \in 1 .. n - 1 : Leads(now[i - 1], less[i], now[i])
    <2> TAKE i \in 1 .. n - 1
    <2>1. i \in 1 .. n /\ i \in 0 .. n - 1 /\ i - 1 \in 0 .. n - 1
      BY <1>1
    <2> QED BY <1>1, <1>2, <1>5, <2>1
  <1>7. PastLeads(now, p, less)
    BY <1>1, <1>5, <1>6 DEF PastLeads
  <1>8. PastTexts(p, less) = now
    BY <1>1, <1>7, PastIs
  <1>9. PastLeads(PastTexts(p, less), p, less)
    BY <1>7, <1>8
  <1>10. Undone(t, Last(u)) = [text |-> p, done |-> TRUE]
    <2>1. Last(u).operations \in Seq(EditOperations)
      BY <1>1 DEF Transactions
    <2> QED BY <1>4, <2>1, EditsUndone DEF Leads
  <1> DEFINE a == Pasts(t, u)
             b == Pasts(p, less)
             c == Append(b, p)
  <1>11. a \in Seq(Text) /\ Len(a) = n /\ \A i \in 1 .. n : a[i] = past[i - 1]
    BY PastsAre DEF past, n
  <1>12. b \in Seq(Text) /\ Len(b) = n - 1 /\ \A i \in 1 .. n - 1 : b[i] = now[i - 1]
    BY <1>1, <1>8, <1>9, PastsAre
  <1> HIDE DEF a, b
  <1>13. /\ c \in Seq(Text) /\ Len(c) = n - 1 + 1 /\ c[n - 1 + 1] = p
         /\ \A i \in 1 .. n - 1 : c[i] = b[i]
    BY <1>4, <1>12, AppendProperties
  <1> HIDE DEF c
  <1>14. n - 1 + 1 = n
    BY <1>1
  <1>15. \A i \in 1 .. n : a[i] = c[i]
    <2> TAKE i \in 1 .. n
    <2>1. i - 1 \in 0 .. n - 1
      BY <1>1
    <2>2. a[i] = now[i - 1]
      BY <1>5, <1>11, <2>1
    <2>3. CASE i <= n - 1
      <3>1. i \in 1 .. n - 1
        BY <1>1, <2>3
      <3> QED BY <1>12, <1>13, <2>2, <3>1
    <2>4. CASE i = n
      BY <1>5, <1>13, <1>14, <2>2, <2>4
    <2> QED BY <1>1, <2>3, <2>4
  <1>16. a = c
    BY <1>11, <1>13, <1>14, <1>15, SeqEqual
  <1>17. a # <<>>
    BY <1>1, <1>11, EmptySeq
  <1> QED BY <1>4, <1>9, <1>10, <1>16, <1>17 DEF a, b, c, less

\* One transaction undone: the text there was can be had back.
LEMMA FutureGrows ==
  ASSUME NEW t \in Text, NEW r \in Seq(Transactions), FutureLeads(FutureTexts(t, r), t, r),
         NEW transaction \in Transactions, NEW p \in Text, Leads(p, transaction, t)
  PROVE  /\ FutureLeads(FutureTexts(p, Append(r, transaction)), p, Append(r, transaction))
         /\ Futures(p, Append(r, transaction)) = <<t>> \o Futures(t, r)
  <1> DEFINE future == FutureTexts(t, r)
             n == Len(r)
             more == Append(r, transaction)
             now == [i \in 0 .. n + 1 |-> IF i = 0 THEN p ELSE future[i - 1]]
  <1>1. n \in Nat
    BY LenProperties
  <1>2. /\ more \in Seq(Transactions) /\ Len(more) = n + 1 /\ more[n + 1] = transaction
        /\ \A i \in 1 .. n : more[i] = r[i]
    BY AppendProperties
  <1>3. /\ future \in [0 .. n -> Text] /\ future[0] = t
        /\ \A i \in 1 .. n : Leads(future[i - 1], r[n - i + 1], future[i])
    BY DEF FutureLeads
  <1> HIDE DEF future, more, n
  <1>4. /\ now \in [0 .. n + 1 -> Text] /\ now[0] = p
        /\ \A i \in 1 .. n + 1 : now[i] = future[i - 1]
    <2>1. \A i \in 0 .. n + 1 : (IF i = 0 THEN p ELSE future[i - 1]) \in Text
      <3> TAKE i \in 0 .. n + 1
      <3>1. i # 0 => i - 1 \in 0 .. n
        BY <1>1
      <3> QED BY <1>3, <3>1
    <2>2. 0 \in 0 .. n + 1 /\ \A i \in 1 .. n + 1 : i \in 0 .. n + 1 /\ i # 0
      BY <1>1
    <2> QED BY <2>1, <2>2
  <1> HIDE DEF now
  <1>5. \A i \in 1 .. n + 1 : Leads(now[i - 1], more[(n + 1) - i + 1], now[i])
    <2> TAKE i \in 1 .. n + 1
    <2>1. now[i] = future[i - 1]
      BY <1>4
    <2>2. CASE i = 1
      <3>1. i - 1 = 0 /\ (n + 1) - i + 1 = n + 1
        BY <1>1, <2>2
      <3> QED BY <1>2, <1>3, <1>4, <2>1, <3>1
    <2>3. CASE i # 1
      <3> DEFINE j == i - 1
      <3>1. j \in 1 .. n /\ j \in 1 .. n + 1 /\ (n + 1) - i + 1 = n - j + 1 /\ n - j + 1 \in 1 .. n
        BY <1>1, <2>3
      <3> HIDE DEF j
      <3>2. now[j] = future[j - 1] /\ more[n - j + 1] = r[n - j + 1]
        BY <1>2, <1>4, <3>1
      <3>3. Leads(future[j - 1], r[n - j + 1], future[j])
        BY <1>3, <3>1
      <3> QED BY <2>1, <3>1, <3>2, <3>3 DEF j
    <2> QED BY <2>2, <2>3
  <1>6. FutureLeads(now, p, more)
    <2> DEFINE m == n + 1
    <2>1. Len(more) = m /\ now \in [0 .. m -> Text] /\ now[0] = p
      BY <1>2, <1>4
    <2>2. \A i \in 1 .. m : Leads(now[i - 1], more[m - i + 1], now[i])
      BY <1>5
    <2> HIDE DEF m
    <2> QED BY <2>1, <2>2 DEF FutureLeads
  <1>7. FutureTexts(p, more) = now
    BY <1>2, <1>6, FutureIs
  <1>8. FutureLeads(FutureTexts(p, more), p, more)
    BY <1>6, <1>7
  <1> DEFINE a == Futures(p, more)
             b == Futures(t, r)
             c == <<t>> \o b
  <1>9. a \in Seq(Text) /\ Len(a) = n + 1 /\ \A i \in 1 .. n + 1 : a[i] = now[i]
    BY <1>2, <1>7, <1>8, FuturesAre
  <1>10. b \in Seq(Text) /\ Len(b) = n /\ \A i \in 1 .. n : b[i] = future[i]
    BY FuturesAre DEF future, n
  <1> HIDE DEF a, b
  <1>11. c \in Seq(Text) /\ Len(c) = n + 1 /\ c[1] = t /\ \A i \in 2 .. n + 1 : c[i] = b[i - 1]
    <2>1. <<t>> \in Seq(Text) /\ Len(<<t>>) = 1 /\ <<t>>[1] = t
      OBVIOUS
    <2> DEFINE one == <<t>>
    <2> HIDE DEF one
    <2>2. one \in Seq(Text) /\ Len(one) = 1 /\ one[1] = t
      BY <2>1 DEF one
    <2>3. /\ one \o b \in Seq(Text) /\ Len(one \o b) = Len(one) + Len(b)
          /\ \A i \in 1 .. Len(one) + Len(b) :
                (one \o b)[i] = IF i <= Len(one) THEN one[i] ELSE b[i - Len(one)]
      BY <1>10, <2>2, ConcatProperties
    <2>4. c = one \o b
      BY DEF one
    <2> HIDE DEF c
    <2> QED BY <1>1, <1>10, <2>2, <2>3, <2>4
  <1> HIDE DEF c
  <1>12. \A i \in 1 .. n + 1 : a[i] = c[i]
    <2> TAKE i \in 1 .. n + 1
    <2>1. a[i] = future[i - 1]
      BY <1>4, <1>9
    <2>2. CASE i = 1
      <3>1. i - 1 = 0
        BY <2>2
      <3> QED BY <1>3, <1>11, <2>1, <2>2, <3>1
    <2>3. CASE i # 1
      <3>1. i - 1 \in 1 .. n /\ i \in 2 .. n + 1
        BY <1>1, <2>3
      <3> QED BY <1>10, <1>11, <2>1, <3>1
    <2> QED BY <2>2, <2>3
  <1>13. a = c
    BY <1>9, <1>11, <1>12, SeqEqual
  <1> QED BY <1>8, <1>13 DEF a, b, c, more

\* The last transaction undone is redone.
LEMMA FutureShrinks ==
  ASSUME NEW t \in Text, NEW r \in Seq(Transactions), FutureLeads(FutureTexts(t, r), t, r),
         r # <<>>
  PROVE  \E f \in Text :
            /\ Leads(t, Last(r), f)
            /\ Redone(t, Last(r)) = [text |-> f, done |-> TRUE]
            /\ FutureLeads(FutureTexts(f, Front(r)), f, Front(r))
            /\ Futures(t, r) # <<>>
            /\ Futures(t, r) = <<f>> \o Futures(f, Front(r))
  <1> DEFINE future == FutureTexts(t, r)
             n == Len(r)
             f == future[1]
             less == Front(r)
             now == [i \in 0 .. n - 1 |-> future[i + 1]]
  <1>1. /\ n \in Nat /\ n >= 1 /\ Last(r) = r[n] /\ Last(r) \in Transactions
        /\ less \in Seq(Transactions) /\ Len(less) = n - 1
        /\ \A i \in 1 .. n - 1 : less[i] = r[i]
    BY FrontAndLast
  <1>2. /\ future \in [0 .. n -> Text] /\ future[0] = t
        /\ \A i \in 1 .. n : Leads(future[i - 1], r[n - i + 1], future[i])
    BY DEF FutureLeads
  <1> HIDE DEF future, n, less
  <1>3. 1 \in 1 .. n /\ 1 \in 0 .. n /\ n - 1 + 1 = n /\ 1 - 1 = 0
    BY <1>1
  <1>4. f \in Text /\ Leads(t, Last(r), f)
    BY <1>1, <1>2, <1>3
  <1>5. /\ now \in [0 .. n - 1 -> Text] /\ now[0] = f
        /\ \A i \in 0 .. n - 1 : now[i] = future[i + 1]
    <2>1. \A i \in 0 .. n - 1 : i + 1 \in 0 .. n
      BY <1>1
    <2>2. 0 \in 0 .. n - 1 /\ 0 + 1 = 1
      BY <1>1
    <2> QED BY <1>2, <2>1, <2>2
  <1> HIDE DEF now, f
  <1>6. \A i \in 1 .. n - 1 : Leads(now[i - 1], less[n - 1 - i + 1], now[i])
    <2> TAKE i \in 1 .. n - 1
    <2>1. /\ i + 1 \in 1 .. n /\ i \in 0 .. n - 1 /\ i - 1 \in 0 .. n - 1
          /\ (i - 1) + 1 = i /\ (i + 1) - 1 = i
          /\ n - 1 - i + 1 \in 1 .. n - 1 /\ n - 1 - i + 1 = n - (i + 1) + 1
      BY <1>1
    <2>2. now[i - 1] = future[i] /\ now[i] = future[i + 1]
      BY <1>5, <2>1
    <2>3. Leads(future[i], r[n - (i + 1) + 1], future[i + 1])
      BY <1>2, <2>1
    <2> QED BY <1>1, <2>1, <2>2, <2>3
  <1>7. FutureLeads(now, f, less)
    BY <1>1, <1>5, <1>6 DEF FutureLeads
  <1>8. FutureTexts(f, less) = now
    BY <1>1, <1>7, FutureIs
  <1>9. FutureLeads(FutureTexts(f, less), f, less)
    BY <1>7, <1>8
  <1>10. Redone(t, Last(r)) = [text |-> f, done |-> TRUE]
    <2>1. Last(r).operations \in Seq(EditOperations)
      BY <1>1 DEF Transactions
    <2> QED BY <1>4, <2>1, EditsRedone DEF Leads
  <1> DEFINE a == Futures(t, r)
             b == Futures(f, less)
             c == <<f>> \o b
  <1>12. a \in Seq(Text) /\ Len(a) = n /\ \A i \in 1 .. n : a[i] = future[i]
    BY FuturesAre DEF future, n
  <1>13. b \in Seq(Text) /\ Len(b) = n - 1 /\ \A i \in 1 .. n - 1 : b[i] = now[i]
    BY <1>1, <1>8, <1>9, FuturesAre
  <1> HIDE DEF a, b
  <1>14. c \in Seq(Text) /\ Len(c) = n /\ c[1] = f /\ \A i \in 2 .. n : c[i] = b[i - 1]
    <2>1. <<f>> \in Seq(Text) /\ Len(<<f>>) = 1 /\ <<f>>[1] = f
      BY <1>4
    <2> DEFINE one == <<f>>
    <2> HIDE DEF one
    <2>2. one \in Seq(Text) /\ Len(one) = 1 /\ one[1] = f
      BY <2>1 DEF one
    <2>3. /\ one \o b \in Seq(Text) /\ Len(one \o b) = Len(one) + Len(b)
          /\ \A i \in 1 .. Len(one) + Len(b) :
                (one \o b)[i] = IF i <= Len(one) THEN one[i] ELSE b[i - Len(one)]
      BY <1>13, <2>2, ConcatProperties
    <2>4. c = one \o b
      BY DEF one
    <2> HIDE DEF c
    <2> QED BY <1>1, <1>13, <2>2, <2>3, <2>4
  <1> HIDE DEF c
  <1>15. \A i \in 1 .. n : a[i] = c[i]
    <2> TAKE i \in 1 .. n
    <2>1. CASE i = 1
      <3>1. future[1] = f
        BY DEF f
      <3> QED BY <1>12, <1>14, <2>1, <3>1
    <2>2. CASE i # 1
      <3> DEFINE j == i - 1
      <3>1. j \in 1 .. n - 1 /\ j \in 0 .. n - 1 /\ j + 1 = i /\ i \in 2 .. n
        BY <1>1, <2>2
      <3>2. c[i] = b[j]
        BY <1>14, <3>1
      <3> HIDE DEF j
      <3> QED BY <1>5, <1>12, <1>13, <3>1, <3>2
    <2> QED BY <2>1, <2>2
  <1>16. a = c
    BY <1>12, <1>14, <1>15, SeqEqual
  <1>17. a # <<>>
    BY <1>1, <1>12, EmptySeq
  <1> QED BY <1>4, <1>9, <1>10, <1>16, <1>17 DEF a, b, c, less

\* A single operation.
LEMMA OneTurn ==
  ASSUME NEW t \in Text, NEW o \in EditOperations, NEW u
  PROVE  Edits(t, <<o>>, u) <=> Turns(t, o, u)
  <1> DEFINE none == <<>>
             one == <<o>>
  <1>1. none \in Seq(EditOperations) /\ Edits(t, none, t) /\ Append(none, o) = one
    BY NoEdits
  <1>2. Len(one) = 1 /\ one[1] = o
    OBVIOUS
  <1> HIDE DEF none, one
  <1>3. ASSUME Turns(t, o, u) PROVE Edits(t, one, u)
    <2>1. Edits(t, Append(none, o), u)
      BY <1>1, <1>3, OneMoreEdit
    <2> QED BY <1>1, <2>1
  <1>4. ASSUME Edits(t, one, u) PROVE Turns(t, o, u)
    <2>1. PICK ts \in [0 .. Len(one) -> Text] : TextsBetween(ts, t, one, u)
      BY <1>4 DEF Edits
    <2>2. /\ ts[0] = t /\ ts[Len(one)] = u
          /\ \A i \in 1 .. Len(one) : Turns(ts[i - 1], one[i], ts[i])
      BY <2>1 DEF TextsBetween
    <2>3. 1 \in 1 .. Len(one) /\ 1 - 1 = 0
      BY <1>2
    <2>4. Turns(ts[1 - 1], one[1], ts[1])
      BY <2>2, <2>3
    <2> QED BY <1>2, <2>2, <2>3, <2>4
  <1> QED BY <1>3, <1>4 DEF one

\* The byte that an operation has put in is another one.
LEMMA OtherByte ==
  ASSUME NEW p \in Text, NEW o \in EditOperations, NEW t, Turns(p, o, t), Len(o.new) = 1,
         NEW byte \in Byte
  PROVE  LET w == [t EXCEPT ![o.offset + 1] = byte]
         IN  /\ w \in Text /\ Len(w) = Len(t) /\ o.offset + 1 \in 1 .. Len(t)
             /\ Turns(p, [o EXCEPT !.new = <<byte>>], w)
  <1> DEFINE at == o.offset
             n == Len(o.old)
             b == o.new
             c == <<byte>>
             w == [t EXCEPT ![at + 1] = byte]
             x == [o EXCEPT !.new = c]
  <1>1. at \in Nat /\ b \in Text /\ o.old \in Text /\ Len(b) = 1
    BY DEF EditOperations
  <1>2. n \in Nat /\ Len(p) \in Nat
    BY <1>1, LenProperties DEF Text
  <1>3. /\ at + n <= Len(p) /\ o.old = BytesAt(p, at, n) /\ t = Splice(p, at, n, b)
    BY ReplacedIsSplice DEF Turns
  <1>4. c \in Text /\ Len(c) = 1 /\ c[1] = byte
    BY OneByteText
  <1>5. x.offset = at /\ x.old = o.old /\ x.new = c
    BY DEF EditOperations
  <1> HIDE DEF at, n, b, c, x
  <1>6. Spliced(t, p, at, n, b, Byte)
    BY <1>1, <1>2, <1>3, SpliceIs DEF Text
  <1>7. t \in Text /\ Len(t) = Len(p) - n + 1
    BY <1>1, <1>6 DEF Spliced, Text
  <1>8. at + 1 \in 1 .. Len(t) /\ Len(t) \in Nat
    BY <1>1, <1>2, <1>3, <1>7
  <1>9. /\ w \in Text /\ Len(w) = Len(t) /\ w[at + 1] = byte
        /\ \A i \in 1 .. Len(t) : i # at + 1 => w[i] = t[i]
    <2> DEFINE k == at + 1
    <2>1. k \in 1 .. Len(t)
      BY <1>8
    <2> HIDE DEF k
    <2>2. DOMAIN t = 1 .. Len(t)
      BY <1>7, LenProperties DEF Text
    <2>3. [t EXCEPT ![k] = byte] \in Text /\ Len([t EXCEPT ![k] = byte]) = Len(t)
      BY <1>7, <2>1, ExceptSeq DEF Text
    <2>4. [t EXCEPT ![k] = byte][k] = byte /\ \A i \in 1 .. Len(t) : i # k => [t EXCEPT ![k] = byte][i] = t[i]
      BY <2>1, <2>2
    <2> QED BY <2>3, <2>4 DEF k
  <1> HIDE DEF w
  <1>10. w = Splice(p, at, n, c)
    <2>1. \A i \in 1 .. Len(c) : w[at + i] = c[i]
      <3>1. \A i \in 1 .. Len(c) : i = 1
        BY <1>4
      <3> QED BY <1>4, <1>9, <3>1
    <2>2. \A i \in 1 .. Len(w) : i <= at \/ i > at + Len(c) => w[i] = t[i]
      BY <1>1, <1>4, <1>8, <1>9
    <2>3. Rewritten(w, t, at, c)
      BY <1>9, <2>1, <2>2 DEF Rewritten
    <2>4. p \in Seq(Byte) /\ b \in Seq(Byte) /\ c \in Seq(Byte) /\ w \in Seq(Byte)
      BY <1>1, <1>4, <1>9 DEF Text
    <2>5. at \in Nat /\ n \in Nat /\ at + n <= Len(p) /\ Len(b) = Len(c)
      BY <1>1, <1>2, <1>3, <1>4
    <2>6. Rewritten(w, Splice(p, at, n, b), at, c)
      BY <1>3, <2>3
    <2> QED BY <2>4, <2>5, <2>6, SpliceOver
  <1>11. Turns(p, x, w)
    <2>1. w = Replaced(p, at, n, c)
      BY <1>10, ReplacedIsSplice
    <2> QED BY <1>3, <1>5, <2>1 DEF Turns, n
  <1> QED BY <1>8, <1>9, <1>11 DEF w, x, c, at

\* The last transaction, of one operation that puts in one byte, is changed to
\* put in another one: it is undone as before.
LEMMA PastCompleted ==
  ASSUME NEW t \in Text, NEW u \in Seq(Transactions), PastLeads(PastTexts(t, u), t, u),
         u # <<>>, NEW o \in EditOperations, Last(u).operations = <<o>>, Len(o.new) = 1,
         NEW byte \in Byte, NEW transaction \in Transactions,
         transaction.before = Last(u).before,
         transaction.operations = <<[o EXCEPT !.new = <<byte>>]>>
  PROVE  LET w == [t EXCEPT ![o.offset + 1] = byte]
             v == Append(Front(u), transaction)
         IN  /\ w \in Text /\ Len(w) = Len(t) /\ o.offset + 1 \in 1 .. Len(t)
             /\ PastLeads(PastTexts(w, v), w, v)
             /\ Pasts(w, v) = Pasts(t, u) /\ Pasts(t, u) # <<>>
  <1> DEFINE w == [t EXCEPT ![o.offset + 1] = byte]
             less == Front(u)
             v == Append(less, transaction)
             x == [o EXCEPT !.new = <<byte>>]
  <1>1. PICK p \in Text :
           /\ Leads(p, Last(u), t)
           /\ PastLeads(PastTexts(p, less), p, less)
           /\ Pasts(t, u) # <<>> /\ Pasts(t, u) = Append(Pasts(p, less), p)
    BY PastShrinks
  <1>2. less \in Seq(Transactions)
    BY FrontAndLast
  <1>3. Turns(p, o, t)
    BY <1>1, OneTurn DEF Leads
  <1>4. /\ w \in Text /\ Len(w) = Len(t) /\ o.offset + 1 \in 1 .. Len(t)
        /\ Turns(p, x, w)
    BY <1>3, OtherByte
  <1>5. x \in EditOperations
    <2>1. <<byte>> \in Text
      BY OneByteText
    <2> QED BY <2>1 DEF EditOperations
  <1> HIDE DEF w, x, less
  <1>6. Edits(p, <<x>>, w)
    BY <1>4, <1>5, OneTurn
  <1>7. Leads(p, transaction, w)
    BY <1>1, <1>6 DEF Leads, x
  <1>8. PastLeads(PastTexts(w, v), w, v) /\ Pasts(w, v) = Append(Pasts(p, less), p)
    BY <1>1, <1>2, <1>4, <1>7, PastGrows
  <1> QED BY <1>1, <1>4, <1>8 DEF w, less

-----------------------------------------------------------------------------
(* The history of the document *)

HistoryInv ==
    Histories(text, undo, redo) /\ Waits(view, text, undo, redo)

\* The past and the future of the abstract history.
LEMMA PastAndFuture ==
  /\ [i \in 1 .. Len(undo) |-> pastText[i - 1]] = Pasts(text, undo)
  /\ [i \in 1 .. Len(redo) |-> futureText[i]] = Futures(text, redo)
  /\ [i \in 1 .. Len(undo) |-> pastText[i - 1]]' = Pasts(text', undo')
  /\ [i \in 1 .. Len(redo) |-> futureText[i]]' = Futures(text', redo')
  BY DEF pastText, futureText, Pasts, Futures

\* A new edit.
LEMMA EditMade ==
  ASSUME Pasts(text', undo') = Append(Pasts(text, undo), text),
         Futures(text', redo') = <<>>
  PROVE  History!Edit
  BY PastAndFuture DEF History!Edit

\* Two new edits.
LEMMA TwoEditsMade ==
  ASSUME NEW t, Pasts(text, undo) \in Seq(Text), text \in Text, t \in Text,
         Pasts(text', undo') = Append(Append(Pasts(text, undo), text), t),
         Futures(text', redo') = <<>>
  PROVE  History!EditTwice
  <1> DEFINE a == Pasts(text, undo)
             b == Append(a, text)
             c == Append(b, t)
  <1>1. a \in Seq(Text) /\ Len(a) \in Nat
    BY LenProperties
  <1> HIDE DEF a
  <1>2. b \in Seq(Text) /\ Len(b) = Len(a) + 1
    BY <1>1, AppendProperties
  <1> HIDE DEF b
  <1>3. c \in Seq(Text) /\ Len(c) = Len(b) + 1 /\ c # <<>> /\ \A i \in 1 .. Len(b) : c[i] = b[i]
    BY <1>2, AppendProperties
  <1> HIDE DEF c
  <1>4. Len(c) = Len(a) + 2
    BY <1>1, <1>2, <1>3
  <1>5. Front(c) = b
    <2>1. /\ Front(c) \in Seq(Text) /\ Len(Front(c)) = Len(c) - 1
          /\ \A i \in 1 .. Len(c) - 1 : Front(c)[i] = c[i]
      BY <1>3, FrontAndLast
    <2>2. Len(c) - 1 = Len(b)
      BY <1>1, <1>2, <1>3
    <2> QED BY <1>2, <1>3, <2>1, <2>2, SeqEqual
  <1>6. SubSeq(c, 1, Len(c) - 1) = b
    BY <1>5 DEF Front
  <1>7. /\ [i \in 1 .. Len(undo) |-> pastText[i - 1]] = a
        /\ [i \in 1 .. Len(undo) |-> pastText[i - 1]]' = c
        /\ [i \in 1 .. Len(redo) |-> futureText[i]]' = <<>>
    BY PastAndFuture DEF a, b, c
  <1> QED BY <1>4, <1>6, <1>7 DEF History!EditTwice, History!Front, b

\* After one or two new transactions there are texts for all of them, and
\* nothing to redo.
LEMMA RecordedStep ==
  ASSUME TypeInv, Histories(text, undo, redo), NEW e \in Editors, Become(e),
         Recorded(Here, e) \/ RecordedTwice(Here, e)
  PROVE  Histories(text', undo', redo') /\ History!Next
  <1>1. /\ text' = e.text /\ undo' = e.undo /\ redo' = e.redo
    BY DEF Become
  <1>2. /\ text \in Text /\ undo \in Seq(Transactions) /\ e.text \in Text
        /\ Here.text = text /\ Here.undo = undo
    BY HereType, EditorFields DEF TypeInv
  <1>3. PastLeads(PastTexts(text, undo), text, undo)
    BY DEF Histories
  <1>4. FutureLeads(FutureTexts(e.text, <<>>), e.text, <<>>) /\ Futures(e.text, <<>>) = <<>>
    BY <1>2, NothingDone
  <1>5. CASE Recorded(Here, e)
    <2>1. PICK transaction \in Transactions :
             /\ e.undo = Append(undo, transaction) /\ e.redo = <<>>
             /\ Leads(text, transaction, e.text)
      BY <1>2, <1>5 DEF Recorded
    <2>2. /\ PastLeads(PastTexts(e.text, e.undo), e.text, e.undo)
          /\ Pasts(e.text, e.undo) = Append(Pasts(text, undo), text)
      BY <1>2, <1>3, <2>1, PastGrows
    <2>3. Histories(text', undo', redo')
      BY <1>1, <1>4, <2>1, <2>2 DEF Histories
    <2>4. History!Edit
      BY <1>1, <1>4, <2>1, <2>2, EditMade
    <2> QED BY <2>3, <2>4 DEF History!Next
  <1>6. CASE RecordedTwice(Here, e)
    <2>1. PICK m \in Editors : Recorded(Here, m) /\ Recorded(m, e)
      BY <1>6 DEF RecordedTwice
    <2>2. PICK first \in Transactions :
             m.undo = Append(undo, first) /\ Leads(text, first, m.text)
      BY <1>2, <2>1 DEF Recorded
    <2>3. PICK second \in Transactions :
             /\ e.undo = Append(m.undo, second) /\ e.redo = <<>>
             /\ Leads(m.text, second, e.text)
      BY <2>1 DEF Recorded
    <2>4. m.text \in Text /\ m.undo \in Seq(Transactions)
      BY EditorFields
    <2>5. /\ PastLeads(PastTexts(m.text, m.undo), m.text, m.undo)
          /\ Pasts(m.text, m.undo) = Append(Pasts(text, undo), text)
      BY <1>2, <1>3, <2>2, <2>4, PastGrows
    <2>6. /\ PastLeads(PastTexts(e.text, e.undo), e.text, e.undo)
          /\ Pasts(e.text, e.undo) = Append(Pasts(m.text, m.undo), m.text)
      BY <1>2, <2>3, <2>4, <2>5, PastGrows, SMTT(60)
    <2>7. Histories(text', undo', redo')
      BY <1>1, <1>4, <2>3, <2>6 DEF Histories
    <2>8. Pasts(text, undo) \in Seq(Text)
      BY <1>2, <1>3, PastsAre
    <2>9. Pasts(text', undo') = Append(Append(Pasts(text, undo), text), m.text)
      BY <1>1, <2>5, <2>6
    <2>10. Futures(text', redo') = <<>>
      BY <1>1, <1>4, <2>3
    <2>11. History!EditTwice
      BY <1>2, <2>4, <2>8, <2>9, <2>10, TwoEditsMade
    <2> QED BY <2>7, <2>11 DEF History!Next
  <1> QED BY <1>5, <1>6

\* What a step has done to the history, and what it leaves behind.
HistoryStep ==
    HistoryInv' /\ (UNCHANGED <<text, undo, redo>> \/ History!Next)

\* An ordinary step makes no edit, one or two.
LEMMA OrdinaryHistory ==
  ASSUME TypeInv, HistoryInv, Ordinary
  PROVE  HistoryStep
  <1>1. PICK e \in Editors :
           /\ Become(e)
           /\ Kept(Here, e) \/ Recorded(Here, e) \/ RecordedTwice(Here, e)
           /\ \/ e.view.nibble = NoDigit
              \/ /\ Kept(Here, e) /\ e.view.nibble = view.nibble
                 /\ e.view.nibbleOffset = view.nibbleOffset
    BY DEF Ordinary
  <1>2. /\ text' = e.text /\ undo' = e.undo /\ redo' = e.redo
        /\ view' = clampView(e.view, Len(e.text))
    BY <1>1 DEF Become
  <1>3. /\ view'.nibble = e.view.nibble /\ view'.nibbleOffset = e.view.nibbleOffset
    BY <1>2, EditorFields, Clamped
  <1>4. CASE Kept(Here, e)
    <2>1. text' = text /\ undo' = undo /\ redo' = redo
      BY <1>2, <1>4, HereType DEF Kept
    <2>2. Histories(text', undo', redo')
      BY <2>1 DEF HistoryInv
    <2>3. Waits(view', text', undo', redo')
      <3>1. CASE e.view.nibble = NoDigit
        BY <1>3, <3>1 DEF Waits
      <3>2. CASE e.view.nibble = view.nibble /\ e.view.nibbleOffset = view.nibbleOffset
        <4>1. Waits(view, text, undo, redo)
          BY DEF HistoryInv
        <4> QED BY <1>3, <2>1, <3>2, <4>1 DEF Waits
      <3> QED BY <1>1, <3>1, <3>2
    <2> QED BY <2>1, <2>2, <2>3 DEF HistoryStep, HistoryInv
  <1>5. CASE ~ Kept(Here, e)
    <2>1. Histories(text', undo', redo') /\ History!Next
      BY <1>1, <1>5, RecordedStep DEF HistoryInv
    <2>2. Waits(view', text', undo', redo')
      BY <1>1, <1>3, <1>5 DEF Waits
    <2> QED BY <2>1, <2>2 DEF HistoryStep, HistoryInv
  <1> QED BY <1>4, <1>5

\* The first digit, when it goes into a single range.
LEMMA FirstNibbleHistory ==
  ASSUME TypeInv, HistoryInv, NEW digit \in TypedDigits, firstNibble(digit),
         view.additional = {}
  PROVE  HistoryStep
  <1>1. PICK e \in Editors :
           /\ Become(e)
           /\ Recorded(Here, e) \/ RecordedTwice(Here, e)
           /\ Waits(e.view, e.text, e.undo, e.redo)
    BY FirstNibbleStep
  <1>2. Histories(text', undo', redo') /\ History!Next
    BY <1>1, RecordedStep DEF HistoryInv
  <1>3. /\ text' = e.text /\ undo' = e.undo /\ redo' = e.redo
        /\ view' = clampView(e.view, Len(e.text))
    BY <1>1 DEF Become
  <1>4. /\ view'.nibble = e.view.nibble /\ view'.nibbleOffset = e.view.nibbleOffset
    BY <1>3, EditorFields, Clamped
  <1>5. Waits(view', text', undo', redo')
    BY <1>1, <1>3, <1>4 DEF Waits
  <1> QED BY <1>2, <1>5 DEF HistoryStep, HistoryInv

\* The last edit goes on.
LEMMA EditCompleted ==
  ASSUME Pasts(text', undo') = Pasts(text, undo), Pasts(text, undo) # <<>>,
         Futures(text, redo) = <<>>, Futures(text', redo') = <<>>,
         text \in Text, text' \in Text, Len(text') = Len(text),
         NEW k \in 1 .. Len(text), NEW byte, text' = [text EXCEPT ![k] = byte]
  PROVE  History!CompleteEdit
  <1>1. DOMAIN text = 1 .. Len(text)
    BY LenProperties DEF Text
  <1>2. text'[k] = byte
    BY <1>1
  <1>3. k \in DOMAIN text /\ text' = [text EXCEPT ![k] = text'[k]]
    BY <1>1, <1>2
  <1>4. /\ [i \in 1 .. Len(undo) |-> pastText[i - 1]]' = [i \in 1 .. Len(undo) |-> pastText[i - 1]]
        /\ [i \in 1 .. Len(redo) |-> futureText[i]]' = [i \in 1 .. Len(redo) |-> futureText[i]]
        /\ [i \in 1 .. Len(undo) |-> pastText[i - 1]] # <<>>
        /\ [i \in 1 .. Len(redo) |-> futureText[i]] = <<>>
    BY PastAndFuture
  <1> QED BY <1>3, <1>4 DEF History!CompleteEdit

\* The second digit completes the last edit.
LEMMA SecondNibbleHistory ==
  ASSUME TypeInv, HistoryInv, NEW digit \in TypedDigits, secondNibble(digit)
  PROVE  HistoryStep
  <1>1. view.nibble # NoDigit /\ view.nibble \in Digits /\ Waits(view, text, undo, redo)
    BY SecondNibbleStep DEF HistoryInv
  <1>2. PICK transaction \in Transactions :
           /\ text' = [text EXCEPT ![view.nibbleOffset + 1] = <<view.nibble, digit>>]
           /\ undo' = Append(Front(undo), transaction) /\ redo' = redo
           /\ view'.nibble = NoDigit
           /\ transaction.before = Last(undo).before
           /\ \A o \in EditOperations :
                 Last(undo).operations = <<o>> =>
                    transaction.operations
                       = <<[o EXCEPT !.new = <<<<view.nibble, digit>>>>]>>
    BY <1>1, SecondNibbleStep
  <1>3. redo = <<>> /\ undo # <<>>
    BY <1>1 DEF Waits
  <1>4. PICK o \in EditOperations :
           /\ Last(undo).operations = <<o>> /\ o.offset = view.nibbleOffset
           /\ o.new = <<<<view.nibble, 0>>>>
    BY <1>1 DEF Waits
  <1> DEFINE byte == <<view.nibble, digit>>
  <1>5. byte \in Byte
    BY <1>1, Inputs DEF Byte
  <1>6. /\ text' = [text EXCEPT ![o.offset + 1] = byte]
        /\ transaction.operations = <<[o EXCEPT !.new = <<byte>>]>>
        /\ Len(o.new) = 1
    BY <1>2, <1>4
  <1> HIDE DEF byte
  <1>7. /\ text \in Text /\ undo \in Seq(Transactions)
        /\ PastLeads(PastTexts(text, undo), text, undo)
    BY DEF TypeInv, HistoryInv, Histories
  <1>8. /\ text' \in Text /\ Len(text') = Len(text) /\ o.offset + 1 \in 1 .. Len(text)
        /\ PastLeads(PastTexts(text', undo'), text', undo')
        /\ Pasts(text', undo') = Pasts(text, undo) /\ Pasts(text, undo) # <<>>
    <2>1. LET w == [text EXCEPT ![o.offset + 1] = byte]
              v == Append(Front(undo), transaction)
          IN  /\ w \in Text /\ Len(w) = Len(text) /\ o.offset + 1 \in 1 .. Len(text)
              /\ PastLeads(PastTexts(w, v), w, v)
              /\ Pasts(w, v) = Pasts(text, undo) /\ Pasts(text, undo) # <<>>
      <3>1. transaction.before = Last(undo).before /\ Last(undo).operations = <<o>>
        BY <1>2, <1>4
      <3>2. transaction.operations = <<[o EXCEPT !.new = <<byte>>]>> /\ Len(o.new) = 1
        BY <1>6
      <3>3. undo # <<>>
        BY <1>3
      <3> QED BY <1>5, <1>7, <3>1, <3>2, <3>3, PastCompleted
    <2> QED BY <1>2, <1>6, <2>1
  <1>9. /\ FutureLeads(FutureTexts(text', redo'), text', redo')
        /\ Futures(text', redo') = <<>> /\ Futures(text, redo) = <<>>
    BY <1>2, <1>3, <1>7, <1>8, NothingDone
  <1>10. HistoryInv'
    BY <1>2, <1>8, <1>9 DEF HistoryInv, Histories, Waits
  <1>11. History!CompleteEdit
    <2> DEFINE k == o.offset + 1
    <2>1. k \in 1 .. Len(text) /\ text' = [text EXCEPT ![k] = byte]
      BY <1>6, <1>8
    <2> HIDE DEF k
    <2> QED BY <1>7, <1>8, <1>9, <2>1, EditCompleted
  <1> QED BY <1>10, <1>11 DEF HistoryStep, History!Next

\* The last edit is undone.
LEMMA EditUndone ==
  ASSUME NEW p \in Seq(Text), text \in Text, text' \in Text,
         Pasts(text, undo) = Append(p, text'), Pasts(text', undo') = p,
         Futures(text', redo') = <<text>> \o Futures(text, redo)
  PROVE  History!Undo
  <1> DEFINE a == Append(p, text')
  <1>1. /\ a \in Seq(Text) /\ a # <<>> /\ Len(a) = Len(p) + 1 /\ a[Len(p) + 1] = text'
        /\ \A i \in 1 .. Len(p) : a[i] = p[i]
    BY AppendProperties
  <1> HIDE DEF a
  <1>2. a[Len(a)] = text'
    BY <1>1
  <1>3. SubSeq(a, 1, Len(a) - 1) = p
    <2>1. /\ Front(a) \in Seq(Text) /\ Len(Front(a)) = Len(a) - 1
          /\ \A i \in 1 .. Len(a) - 1 : Front(a)[i] = a[i]
      BY <1>1, FrontAndLast
    <2>2. Len(a) - 1 = Len(p)
      BY <1>1, LenProperties
    <2>3. Front(a) = p
      BY <1>1, <2>1, <2>2, SeqEqual
    <2> QED BY <2>3 DEF Front
  <1>4. /\ [i \in 1 .. Len(undo) |-> pastText[i - 1]] = a
        /\ [i \in 1 .. Len(undo) |-> pastText[i - 1]]' = p
        /\ [i \in 1 .. Len(redo) |-> futureText[i]]'
              = <<text>> \o [i \in 1 .. Len(redo) |-> futureText[i]]
    BY PastAndFuture DEF a
  <1> QED BY <1>1, <1>2, <1>3, <1>4 DEF History!Undo, History!Last, History!Front

\* undoEdit undoes the last edit, all of it,
LEMMA UndoEditHistory ==
  ASSUME TypeInv, HistoryInv, undoEdit
  PROVE  /\ HistoryStep
         /\ Undone(text, Last(undo)).done /\ Inside(Last(undo).before, text')
  <1>1. /\ undo # <<>> /\ Last(undo) \in Transactions
        /\ text \in Text /\ undo \in Seq(Transactions) /\ redo \in Seq(Transactions)
        /\ PastLeads(PastTexts(text, undo), text, undo)
        /\ FutureLeads(FutureTexts(text, redo), text, redo)
    BY UndoEditStep DEF TypeInv, HistoryInv, Histories
  <1>2. PICK p \in Text :
           /\ Leads(p, Last(undo), text)
           /\ Undone(text, Last(undo)) = [text |-> p, done |-> TRUE]
           /\ PastLeads(PastTexts(p, Front(undo)), p, Front(undo))
           /\ Pasts(text, undo) = Append(Pasts(p, Front(undo)), p)
    BY <1>1, PastShrinks
  <1>3. Undone(text, Last(undo)).done /\ Undone(text, Last(undo)).text = p
    BY <1>2
  <1>4. /\ text' = p /\ undo' = Front(undo) /\ redo' = Append(redo, Last(undo))
        /\ view'.nibble = NoDigit
    BY <1>3, UndoEditStep
  <1>5. /\ FutureLeads(FutureTexts(text', redo'), text', redo')
        /\ Futures(text', redo') = <<text>> \o Futures(text, redo)
    BY <1>1, <1>2, <1>4, FutureGrows
  <1>6. HistoryInv'
    BY <1>2, <1>4, <1>5 DEF HistoryInv, Histories, Waits
  <1>7. Front(undo) \in Seq(Transactions)
    BY <1>1, FrontAndLast
  <1>8. Pasts(p, Front(undo)) \in Seq(Text)
    BY <1>2, <1>7, PastsAre
  <1>9. History!Undo
    BY <1>1, <1>2, <1>4, <1>5, <1>8, EditUndone
  <1>10. Inside(Last(undo).before, text')
    BY <1>2, <1>4 DEF Leads
  <1> QED BY <1>3, <1>6, <1>9, <1>10 DEF HistoryStep, History!Next

\* The last undone edit is redone.
LEMMA EditRedone ==
  ASSUME NEW f \in Seq(Text), text' \in Text,
         Futures(text, redo) = <<text'>> \o f, Futures(text', redo') = f,
         Pasts(text', undo') = Append(Pasts(text, undo), text)
  PROVE  History!Redo
  <1> DEFINE one == <<text'>>
             a == one \o f
  <1>1. one \in Seq(Text) /\ Len(one) = 1 /\ one[1] = text' /\ Len(f) \in Nat
    BY LenProperties
  <1> HIDE DEF one
  <1>2. /\ a \in Seq(Text) /\ Len(a) = Len(one) + Len(f)
        /\ \A i \in 1 .. Len(one) + Len(f) :
              a[i] = IF i <= Len(one) THEN one[i] ELSE f[i - Len(one)]
    BY <1>1, ConcatProperties
  <1> HIDE DEF a
  <1>3. a[1] = text' /\ \A i \in 1 .. Len(f) : a[i + 1] = f[i]
    BY <1>1, <1>2
  <1>4. a # <<>>
    BY <1>1, <1>2, EmptySeq
  <1>5. Head(a) = text'
    BY <1>2, <1>3, <1>4
  <1>6. Tail(a) = f
    <2>1. /\ Tail(a) \in Seq(Text) /\ Len(Tail(a)) = Len(a) - 1
          /\ \A i \in 1 .. Len(Tail(a)) : Tail(a)[i] = a[i + 1]
      BY <1>2, <1>4, HeadTailProperties
    <2> QED BY <1>1, <1>2, <1>3, <2>1, SeqEqual
  <1>7. /\ [i \in 1 .. Len(redo) |-> futureText[i]] = a
        /\ [i \in 1 .. Len(redo) |-> futureText[i]]' = f
        /\ [i \in 1 .. Len(undo) |-> pastText[i - 1]]'
              = Append([i \in 1 .. Len(undo) |-> pastText[i - 1]], text)
    BY PastAndFuture DEF a, one
  <1> QED BY <1>4, <1>5, <1>6, <1>7 DEF History!Redo

\* and redoEdit redoes it.
LEMMA RedoEditHistory ==
  ASSUME TypeInv, HistoryInv, redoEdit
  PROVE  HistoryStep
  <1>1. /\ redo # <<>> /\ Last(redo) \in Transactions
        /\ text \in Text /\ undo \in Seq(Transactions) /\ redo \in Seq(Transactions)
        /\ PastLeads(PastTexts(text, undo), text, undo)
        /\ FutureLeads(FutureTexts(text, redo), text, redo)
    BY RedoEditStep DEF TypeInv, HistoryInv, Histories
  <1>2. PICK f \in Text :
           /\ Leads(text, Last(redo), f)
           /\ Redone(text, Last(redo)) = [text |-> f, done |-> TRUE]
           /\ FutureLeads(FutureTexts(f, Front(redo)), f, Front(redo))
           /\ Futures(text, redo) = <<f>> \o Futures(f, Front(redo))
    BY <1>1, FutureShrinks
  <1>3. Redone(text, Last(redo)).done /\ Redone(text, Last(redo)).text = f
    BY <1>2
  <1>4. /\ text' = f /\ undo' = Append(undo, Last(redo)) /\ redo' = Front(redo)
        /\ view'.nibble = NoDigit
    BY <1>3, RedoEditStep
  <1>5. /\ PastLeads(PastTexts(text', undo'), text', undo')
        /\ Pasts(text', undo') = Append(Pasts(text, undo), text)
    BY <1>1, <1>2, <1>4, PastGrows
  <1>6. HistoryInv'
    BY <1>2, <1>4, <1>5 DEF HistoryInv, Histories, Waits
  <1>7. Futures(f, Front(redo)) \in Seq(Text)
    BY <1>1, <1>2, FrontAndLast, FuturesAre
  <1>8. History!Redo
    BY <1>2, <1>4, <1>5, <1>7, EditRedone
  <1> QED BY <1>6, <1>8 DEF HistoryStep, History!Next

\* The first digit of a byte is not typed while several ranges are selected:
\* deleting them would leave the waiting digit at another place than the byte.
DigitInOneRange ==
    \A digit \in TypedDigits : firstNibble(digit) => view.additional = {}

DigitsInOneRange == [][DigitInOneRange]_vars

\* At the start nothing can be undone.
LEMMA HistoryStarts ==
  ASSUME Init
  PROVE  HistoryInv /\ History!Init
  <1>1. text \in Text /\ undo = <<>> /\ redo = <<>>
    BY InitTypes DEF TypeInv, Init
  <1>2. Histories(text, undo, redo) /\ Pasts(text, undo) = <<>> /\ Futures(text, redo) = <<>>
    BY <1>1, NothingDone DEF Histories
  <1>3. Waits(view, text, undo, redo)
    BY StartType DEF Init, Waits
  <1>4. /\ [i \in 1 .. Len(undo) |-> pastText[i - 1]] = <<>>
        /\ [i \in 1 .. Len(redo) |-> futureText[i]] = <<>>
    BY <1>2 DEF pastText, futureText, Pasts, Futures
  <1> QED BY <1>2, <1>3, <1>4 DEF HistoryInv, History!Init

\* Every step is a step of UndoableText or a stutter, if the digits are typed
\* in one range.
LEMMA NextHistory ==
  ASSUME TypeInv, HistoryInv, [Next]_vars, [DigitInOneRange]_vars
  PROVE  HistoryStep
  <1>1. CASE Ordinary
    BY <1>1, OrdinaryHistory
  <1>2. CASE UNCHANGED <<text, view, undo, redo>>
    <2>1. text' = text /\ view' = view /\ undo' = undo /\ redo' = redo
      BY <1>2
    <2> QED BY <2>1 DEF HistoryInv, HistoryStep
  <1>3. ASSUME NEW digit \in TypedDigits, firstNibble(digit) PROVE HistoryStep
    <2>1. CASE view.additional = {}
      BY <1>3, <2>1, FirstNibbleHistory
    <2>2. CASE view.additional # {}
      <3>1. UNCHANGED <<text, view, undo, redo>>
        BY <1>3, <2>2 DEF DigitInOneRange, vars
      <3> QED BY <1>2, <3>1
    <2> QED BY <2>1, <2>2
  <1>4. ASSUME NEW digit \in TypedDigits, secondNibble(digit) PROVE HistoryStep
    BY <1>4, SecondNibbleHistory
  <1>5. CASE undoEdit
    BY <1>5, UndoEditHistory
  <1>6. CASE redoEdit
    BY <1>6, RedoEditHistory
  <1>7. CASE UNCHANGED vars
    BY <1>2, <1>7 DEF vars
  <1>8. CASE Next
    BY <1>1, <1>2, <1>3, <1>4, <1>5, <1>6, <1>8, Steps
  <1> QED BY <1>7, <1>8

\* The invariant that HistoryIsKept and PendingDigitIsKnown rest on.
LEMMA HistoryHolds == Spec /\ DigitsInOneRange => [](TypeInv /\ HistoryInv)
  <1>1. Init => TypeInv /\ HistoryInv
    BY InitTypes, HistoryStarts
  <1>2. TypeInv /\ HistoryInv /\ [Next]_vars /\ [DigitInOneRange]_vars
           => TypeInv' /\ HistoryInv'
    BY NextTypes, NextHistory DEF HistoryStep
  <1> QED BY <1>1, <1>2, PTL DEF Spec, DigitsInOneRange

\* Undoing gives back exactly the text before each edit and redoing the text
\* after it, in whatever order the user edits, selects, undoes and redoes, as
\* long as no digit is typed over several ranges.
THEOREM HistoryIsKept == Spec /\ DigitsInOneRange => KeepsHistory
  <1>1. Init => History!Init
    BY HistoryStarts
  <1>2. TypeInv /\ HistoryInv /\ [Next]_vars /\ [DigitInOneRange]_vars
           => [UNCHANGED <<text, undo, redo>> \/ History!Next]_vars
    BY NextHistory DEF HistoryStep
  <1> QED BY <1>1, <1>2, HistoryHolds, PTL DEF Spec, DigitsInOneRange, KeepsHistory

\* The byte into which the second digit will be written is the one that the
\* last edit typed, as long as no digit is typed over several ranges.
THEOREM PendingDigitIsKnown == Spec /\ DigitsInOneRange => []PendingDigitIsLastTyped
  <1>1. ASSUME Waits(view, text, undo, redo) PROVE PendingDigitIsLastTyped
    <2> SUFFICES ASSUME view.nibble # NoDigit
                 PROVE  /\ undo # <<>>
                        /\ Last(undo).operations =
                            <<[Last(undo).operations[1] EXCEPT
                                !.offset = view.nibbleOffset, !.new = <<<<view.nibble, 0>>>>]>>
                        /\ BytesAt(text, view.nibbleOffset, 1) = <<<<view.nibble, 0>>>>
      BY DEF PendingDigitIsLastTyped
    <2> DEFINE bytes == <<<<view.nibble, 0>>>>
               offset == view.nibbleOffset
    <2>1. PICK o \in EditOperations :
             Last(undo).operations = <<o>> /\ o.offset = offset /\ o.new = bytes
      BY <1>1 DEF Waits
    <2>2. undo # <<>> /\ BytesAt(text, offset, 1) = bytes
      BY <1>1 DEF Waits
    <2> HIDE DEF bytes, offset
    <2>3. Last(undo).operations[1] = o
      BY <2>1
    <2>4. [o EXCEPT !.offset = offset, !.new = bytes] = o
      BY <2>1 DEF EditOperations
    <2>5. Last(undo).operations
             = <<[Last(undo).operations[1] EXCEPT !.offset = offset, !.new = bytes]>>
      BY <2>1, <2>3, <2>4
    <2> QED BY <2>2, <2>5 DEF bytes, offset
  <1>2. HistoryInv => PendingDigitIsLastTyped
    BY <1>1 DEF HistoryInv
  <1> QED BY <1>2, HistoryHolds, PTL

-----------------------------------------------------------------------------
(* The lengths of the texts, which do not depend on the bytes that a digit is *)
(* written over.                                                             *)

\* ls are the lengths of the texts between the operations os.
LengthsBetween(ls, m, os, n) ==
    /\ ls \in [0 .. Len(os) -> Nat]
    /\ ls[0] = m /\ ls[Len(os)] = n
    /\ \A i \in 1 .. Len(os) :
          /\ os[i].offset + Len(os[i].old) <= ls[i - 1]
          /\ ls[i] = ls[i - 1] - Len(os[i].old) + Len(os[i].new)

\* The operations os lead from a text of length m to one of length n.
Fits(m, os, n) == \E ls : LengthsBetween(ls, m, os, n)

\* Operations that lead from a text to another one do so for their lengths.
LEMMA EditsFit ==
  ASSUME NEW t \in Text, NEW os \in Seq(EditOperations), NEW u, Edits(t, os, u)
  PROVE  Fits(Len(t), os, Len(u)) /\ Len(t) \in Nat /\ Len(u) \in Nat
  <1> DEFINE n == Len(os)
  <1>1. n \in Nat /\ \A i \in 1 .. n : os[i] \in EditOperations
    BY LenProperties, ElementOfSeq
  <1>2. PICK ts \in [0 .. n -> Text] : TextsBetween(ts, t, os, u)
    BY DEF Edits
  <1>3. /\ ts[0] = t /\ ts[n] = u
        /\ \A i \in 1 .. n : Turns(ts[i - 1], os[i], ts[i])
    BY <1>2 DEF TextsBetween
  <1> DEFINE ls == [i \in 0 .. n |-> Len(ts[i])]
  <1> HIDE DEF n
  <1>4. \A i \in 0 .. n : ts[i] \in Text /\ Len(ts[i]) \in Nat /\ ls[i] = Len(ts[i])
    BY <1>2, LenProperties DEF Text
  <1>5. ls \in [0 .. n -> Nat] /\ ls[0] = Len(t) /\ ls[n] = Len(u)
    BY <1>1, <1>3, <1>4
  <1> HIDE DEF ls
  <1>6. \A i \in 1 .. n :
           /\ os[i].offset + Len(os[i].old) <= ls[i - 1]
           /\ ls[i] = ls[i - 1] - Len(os[i].old) + Len(os[i].new)
    <2> TAKE i \in 1 .. n
    <2>1. i \in 0 .. n /\ i - 1 \in 0 .. n
      BY <1>1
    <2> DEFINE at == os[i].offset
               k == Len(os[i].old)
               b == os[i].new
               before == ts[i - 1]
    <2>2. /\ at + k <= Len(before) /\ ts[i] = Replaced(before, at, k, b)
      BY <1>3 DEF Turns
    <2>3. at \in Nat /\ k \in Nat /\ b \in Text
      BY <1>1, LenProperties DEF EditOperations, Text
    <2>4. before \in Text
      BY <1>4, <2>1
    <2> HIDE DEF at, k, b, before
    <2>5. Len(Replaced(before, at, k, b)) = Len(before) - k + Len(b)
      BY <2>2, <2>3, <2>4, ReplacedType DEF InDocument
    <2>6. ls[i] = Len(before) - k + Len(b)
      BY <1>4, <2>1, <2>2, <2>5
    <2>7. ls[i - 1] = Len(before)
      BY <1>4, <2>1 DEF before
    <2> QED BY <2>2, <2>6, <2>7 DEF at, k, b
  <1>7. LengthsBetween(ls, Len(t), os, Len(u))
    BY <1>5, <1>6 DEF LengthsBetween, n
  <1>8. Len(t) \in Nat /\ Len(u) \in Nat
    BY <1>1, <1>3, <1>4
  <1> QED BY <1>7, <1>8 DEF Fits

\* The answer is a text of length n.
Answered(r, n) ==
    \E t \in Text : r = [text |-> t, done |-> TRUE] /\ Len(t) = n

\* An operation whose range is in the text is not refused.
LEMMA FitApplied ==
  ASSUME NEW r, NEW l, Answered(r, l), NEW at \in Nat, NEW n \in Nat, NEW b \in Text,
         at + n <= l
  PROVE  Answered(ApplyOperation(r, at, n, b), l - n + Len(b))
  <1>1. PICK t \in Text : r = [text |-> t, done |-> TRUE] /\ Len(t) = l
    BY DEF Answered
  <1>2. InDocument(t, at, n)
    BY <1>1 DEF InDocument
  <1>3. ApplyOperation(r, at, n, b) = [text |-> Replaced(t, at, n, b), done |-> TRUE]
    BY <1>1, <1>2, Applied
  <1>4. Replaced(t, at, n, b) \in Text /\ Len(Replaced(t, at, n, b)) = l - n + Len(b)
    BY <1>1, <1>2, ReplacedType
  <1> QED BY <1>3, <1>4 DEF Answered

\* Operations that fit a text can be undone, all of them.
LEMMA FitsUndone ==
  ASSUME NEW t \in Text, NEW transaction \in Transactions, NEW m,
         Fits(m, transaction.operations, Len(t))
  PROVE  /\ Undone(t, transaction).done /\ Undone(t, transaction).text \in Text
         /\ Len(Undone(t, transaction).text) = m /\ m \in Nat
  <1> DEFINE os == transaction.operations
             n == Len(os)
  <1>1. n \in Nat /\ \A i \in 1 .. n : os[i] \in EditOperations
    BY LenProperties, ElementOfSeq DEF Transactions
  <1>2. PICK ls : LengthsBetween(ls, m, os, Len(t))
    BY DEF Fits
  <1>3. /\ ls \in [0 .. n -> Nat] /\ ls[0] = m /\ ls[n] = Len(t)
        /\ \A i \in 1 .. n :
              /\ os[i].offset + Len(os[i].old) <= ls[i - 1]
              /\ ls[i] = ls[i - 1] - Len(os[i].old) + Len(os[i].new)
    BY <1>2 DEF LengthsBetween
  <1>4. PICK g : UndoneBy(g, t, transaction)
    BY UndoneSteps
  <1>5. /\ g \in [0 .. n -> Answers] /\ g[n] = [text |-> t, done |-> TRUE]
        /\ \A i \in 0 .. n - 1 :
              g[i] = ApplyOperation(g[i + 1], os[i + 1].offset,
                                    Len(os[i + 1].new), os[i + 1].old)
        /\ Undone(t, transaction) = g[0]
    BY <1>4 DEF UndoneBy
  <1> DEFINE T == {i \in 0 .. n : Answered(g[i], ls[i])}
  <1> HIDE DEF n
  <1>6. n \in T
    <2>1. Answered(g[n], ls[n])
      BY <1>3, <1>5 DEF Answered
    <2> QED BY <1>1, <2>1
  <1>7. \A i \in 0 .. n - 1 : i + 1 \in T => i \in T
    <2> TAKE i \in 0 .. n - 1
    <2> HAVE i + 1 \in T
    <2>1. i \in 0 .. n /\ i + 1 \in 0 .. n /\ i + 1 \in 1 .. n /\ (i + 1) - 1 = i
      BY <1>1
    <2> DEFINE r == g[i + 1]
               o == os[i + 1]
    <2>2. Answered(r, ls[i + 1])
      BY <2>1
    <2>3. o \in EditOperations
      BY <1>1, <2>1
    <2>4. /\ o.offset \in Nat /\ o.old \in Text /\ o.new \in Text
          /\ Len(o.old) \in Nat /\ Len(o.new) \in Nat
      BY <2>3, LenProperties DEF EditOperations, Text
    <2>5. o.offset + Len(o.old) <= ls[i] /\ ls[i + 1] = ls[i] - Len(o.old) + Len(o.new) /\ ls[i] \in Nat
      BY <1>3, <2>1
    <2>6. g[i] = ApplyOperation(r, o.offset, Len(o.new), o.old)
      BY <1>5
    <2> HIDE DEF r, o
    <2>7. o.offset + Len(o.new) <= ls[i + 1] /\ ls[i + 1] - Len(o.new) + Len(o.old) = ls[i]
      BY <2>4, <2>5, SMTT(60)
    <2>8. Answered(g[i], ls[i])
      <3> DEFINE at == o.offset
                 k == Len(o.new)
                 b == o.old
                 l == ls[i + 1]
      <3>1. at \in Nat /\ k \in Nat /\ b \in Text /\ at + k <= l
        BY <2>4, <2>7
      <3> HIDE DEF at, k, b, l
      <3>2. Answered(ApplyOperation(r, at, k, b), l - k + Len(b))
        BY <2>2, <3>1, FitApplied DEF l
      <3> QED BY <2>6, <2>7, <3>2 DEF at, k, b, l
    <2> QED BY <2>1, <2>8
  <1>8. 0 \in T
    <2>1. 0 \in 0 .. n
      BY <1>1
    <2> HIDE DEF T
    <2> QED BY <1>1, <1>6, <1>7, <2>1, DownFrom
  <1>9. 0 \in 0 .. n
    BY <1>1
  <1>10. Answered(g[0], m) /\ m \in Nat
    BY <1>3, <1>8, <1>9
  <1> QED BY <1>5, <1>10 DEF Answered

\* And redone, all of them.
LEMMA FitsRedone ==
  ASSUME NEW t \in Text, NEW transaction \in Transactions, NEW m,
         Fits(Len(t), transaction.operations, m)
  PROVE  /\ Redone(t, transaction).done /\ Redone(t, transaction).text \in Text
         /\ Len(Redone(t, transaction).text) = m /\ m \in Nat
  <1> DEFINE os == transaction.operations
             n == Len(os)
  <1>1. n \in Nat /\ \A i \in 1 .. n : os[i] \in EditOperations
    BY LenProperties, ElementOfSeq DEF Transactions
  <1>2. PICK ls : LengthsBetween(ls, Len(t), os, m)
    BY DEF Fits
  <1>3. /\ ls \in [0 .. n -> Nat] /\ ls[0] = Len(t) /\ ls[n] = m
        /\ \A i \in 1 .. n :
              /\ os[i].offset + Len(os[i].old) <= ls[i - 1]
              /\ ls[i] = ls[i - 1] - Len(os[i].old) + Len(os[i].new)
    BY <1>2 DEF LengthsBetween
  <1>4. PICK f : RedoneBy(f, t, transaction)
    BY RedoneSteps
  <1>5. /\ f \in [0 .. n -> Answers] /\ f[0] = [text |-> t, done |-> TRUE]
        /\ \A i \in 1 .. n :
              f[i] = ApplyOperation(f[i - 1], os[i].offset, Len(os[i].old), os[i].new)
        /\ Redone(t, transaction) = f[n]
    BY <1>4 DEF RedoneBy
  <1> DEFINE T == {i \in 0 .. n : Answered(f[i], ls[i])}
  <1> HIDE DEF n
  <1>6. 0 \in T
    <2>1. Answered(f[0], ls[0])
      BY <1>3, <1>5 DEF Answered
    <2> QED BY <1>1, <2>1
  <1>7. \A i \in 1 .. n : i - 1 \in T => i \in T
    <2> TAKE i \in 1 .. n
    <2> HAVE i - 1 \in T
    <2>1. i \in 0 .. n /\ i - 1 \in 0 .. n
      BY <1>1
    <2> DEFINE r == f[i - 1]
               o == os[i]
               l == ls[i - 1]
    <2>2. Answered(r, l)
      BY <2>1
    <2>3. o \in EditOperations
      BY <1>1
    <2>4. /\ o.offset \in Nat /\ o.old \in Text /\ o.new \in Text
          /\ Len(o.old) \in Nat /\ Len(o.new) \in Nat
      BY <2>3, LenProperties DEF EditOperations, Text
    <2>5. o.offset + Len(o.old) <= l /\ ls[i] = l - Len(o.old) + Len(o.new) /\ l \in Nat
      BY <1>3, <2>1
    <2>6. f[i] = ApplyOperation(r, o.offset, Len(o.old), o.new)
      BY <1>5
    <2> HIDE DEF r, o, l
    <2>7. Answered(f[i], ls[i])
      <3> DEFINE at == o.offset
                 k == Len(o.old)
                 b == o.new
      <3>1. at \in Nat /\ k \in Nat /\ b \in Text /\ at + k <= l
        BY <2>4, <2>5
      <3> HIDE DEF at, k, b
      <3>2. Answered(ApplyOperation(r, at, k, b), l - k + Len(b))
        BY <2>2, <3>1, FitApplied
      <3> QED BY <2>5, <2>6, <3>2 DEF at, k, b
    <2> QED BY <2>1, <2>7
  <1>8. n \in T
    <2>1. n \in 0 .. n
      BY <1>1
    <2> HIDE DEF T
    <2> QED BY <1>1, <1>6, <1>7, <2>1, UpTo
  <1>9. n \in 0 .. n
    BY <1>1
  <1>10. Answered(f[n], m) /\ m \in Nat
    BY <1>3, <1>8, <1>9
  <1> QED BY <1>5, <1>10 DEF Answered

\* The selection s is in a text of length n.
Within(s, n) ==
    /\ s.offset + s.length <= n /\ s.anchor <= n
    /\ s.additional \subseteq 0 .. (n - 1)

\* The transaction leads from a text of length m, where its first selection is,
\* to one of length n.
FitsLead(m, transaction, n) ==
    Fits(m, transaction.operations, n) /\ Within(transaction.before, m)

\* ls are the lengths of the texts to which the transactions of the stack can
\* be undone.
PastFits(ls, n, stack) ==
    /\ ls \in [0 .. Len(stack) -> Nat]
    /\ ls[Len(stack)] = n
    /\ \A i \in 1 .. Len(stack) : FitsLead(ls[i - 1], stack[i], ls[i])

\* Of those to which they can be redone.
FutureFits(ls, n, stack) ==
    /\ ls \in [0 .. Len(stack) -> Nat]
    /\ ls[0] = n
    /\ \A i \in 1 .. Len(stack) :
          FitsLead(ls[i - 1], stack[Len(stack) - i + 1], ls[i])

CanUndo(n, stack) == \E ls : PastFits(ls, n, stack)

CanRedo(n, stack) == \E ls : FutureFits(ls, n, stack)

\* A transaction that leads from a text to another one.
LEMMA LeadsFit ==
  ASSUME NEW t \in Text, NEW transaction \in Transactions, NEW u, Leads(t, transaction, u)
  PROVE  FitsLead(Len(t), transaction, Len(u)) /\ Len(t) \in Nat /\ Len(u) \in Nat
  <1>1. transaction.operations \in Seq(EditOperations)
    BY DEF Transactions
  <1>2. Edits(t, transaction.operations, u) /\ Inside(transaction.before, t)
    BY DEF Leads
  <1>3. Fits(Len(t), transaction.operations, Len(u)) /\ Len(t) \in Nat /\ Len(u) \in Nat
    BY <1>1, <1>2, EditsFit
  <1> QED BY <1>2, <1>3 DEF FitsLead, Inside, Within

\* Nothing to undo or redo.
LEMMA NothingFits ==
  ASSUME NEW n \in Nat
  PROVE  CanUndo(n, <<>>) /\ CanRedo(n, <<>>)
  <1> DEFINE ls == [i \in 0 .. 0 |-> n]
             none == <<>>
  <1>1. Len(none) = 0
    OBVIOUS
  <1> HIDE DEF none
  <1>2. /\ ls \in [0 .. Len(none) -> Nat] /\ ls[0] = n /\ ls[Len(none)] = n
        /\ \A i \in 1 .. Len(none) : FALSE
    BY <1>1
  <1> HIDE DEF ls
  <1>3. PastFits(ls, n, none) /\ FutureFits(ls, n, none)
    BY <1>2 DEF PastFits, FutureFits
  <1> QED BY <1>3 DEF CanUndo, CanRedo, none

\* One more transaction to undo.
LEMMA CanUndoMore ==
  ASSUME NEW n \in Nat, NEW u \in Seq(Transactions), CanUndo(n, u),
         NEW transaction \in Transactions, NEW k \in Nat, FitsLead(n, transaction, k)
  PROVE  CanUndo(k, Append(u, transaction))
  <1> DEFINE l == Len(u)
             more == Append(u, transaction)
  <1>1. PICK ls : PastFits(ls, n, u)
    BY DEF CanUndo
  <1>2. l \in Nat
    BY LenProperties
  <1>3. /\ Len(more) = l + 1 /\ more[l + 1] = transaction
        /\ \A i \in 1 .. l : more[i] = u[i]
    BY AppendProperties
  <1>4. /\ ls \in [0 .. l -> Nat] /\ ls[l] = n
        /\ \A i \in 1 .. l : FitsLead(ls[i - 1], u[i], ls[i])
    BY <1>1 DEF PastFits
  <1> DEFINE now == [i \in 0 .. l + 1 |-> IF i <= l THEN ls[i] ELSE k]
  <1> HIDE DEF more, l
  <1>5. /\ now \in [0 .. l + 1 -> Nat] /\ now[l + 1] = k
        /\ \A i \in 0 .. l : now[i] = ls[i]
    <2>1. \A i \in 0 .. l + 1 : i <= l => i \in 0 .. l
      BY <1>2
    <2>2. l + 1 \in 0 .. l + 1 /\ ~ (l + 1 <= l) /\ \A i \in 0 .. l : i \in 0 .. l + 1 /\ i <= l
      BY <1>2
    <2> QED BY <1>4, <2>1, <2>2
  <1> HIDE DEF now
  <1>6. \A i \in 1 .. l + 1 : FitsLead(now[i - 1], more[i], now[i])
    <2> TAKE i \in 1 .. l + 1
    <2>1. CASE i <= l
      <3>1. i \in 1 .. l /\ i \in 0 .. l /\ i - 1 \in 0 .. l
        BY <1>2, <2>1
      <3> QED BY <1>3, <1>4, <1>5, <3>1
    <2>2. CASE i = l + 1
      <3>1. i - 1 = l /\ l \in 0 .. l
        BY <1>2, <2>2
      <3> QED BY <1>3, <1>4, <1>5, <2>2, <3>1
    <2> QED BY <1>2, <2>1, <2>2
  <1>7. PastFits(now, k, more)
    BY <1>3, <1>5, <1>6 DEF PastFits
  <1> QED BY <1>7 DEF CanUndo, more

\* The last one undone.
LEMMA CanUndoLess ==
  ASSUME NEW n \in Nat, NEW u \in Seq(Transactions), CanUndo(n, u), u # <<>>
  PROVE  \E m \in Nat : FitsLead(m, Last(u), n) /\ CanUndo(m, Front(u))
  <1> DEFINE l == Len(u)
             less == Front(u)
  <1>1. PICK ls : PastFits(ls, n, u)
    BY DEF CanUndo
  <1>2. /\ l \in Nat /\ l >= 1 /\ Last(u) = u[l] /\ Len(less) = l - 1
        /\ \A i \in 1 .. l - 1 : less[i] = u[i]
    BY FrontAndLast
  <1>3. /\ ls \in [0 .. l -> Nat] /\ ls[l] = n
        /\ \A i \in 1 .. l : FitsLead(ls[i - 1], u[i], ls[i])
    BY <1>1 DEF PastFits
  <1> DEFINE m == ls[l - 1]
             now == [i \in 0 .. l - 1 |-> ls[i]]
  <1> HIDE DEF less, l
  <1>4. l \in 1 .. l /\ l - 1 \in 0 .. l /\ l - 1 \in 0 .. l - 1 /\ \A i \in 0 .. l - 1 : i \in 0 .. l
    BY <1>2
  <1>5. /\ now \in [0 .. l - 1 -> Nat] /\ now[l - 1] = m
        /\ \A i \in 0 .. l - 1 : now[i] = ls[i]
    BY <1>3, <1>4
  <1> HIDE DEF now
  <1>6. \A i \in 1 .. l - 1 : FitsLead(now[i - 1], less[i], now[i])
    <2> TAKE i \in 1 .. l - 1
    <2>1. i \in 1 .. l /\ i \in 0 .. l - 1 /\ i - 1 \in 0 .. l - 1
      BY <1>2
    <2> QED BY <1>2, <1>3, <1>5, <2>1
  <1>7. PastFits(now, m, less)
    BY <1>2, <1>5, <1>6 DEF PastFits
  <1>8. m \in Nat /\ FitsLead(m, Last(u), n)
    BY <1>2, <1>3, <1>4
  <1> QED BY <1>7, <1>8 DEF CanUndo, less

\* One more transaction to redo.
LEMMA CanRedoMore ==
  ASSUME NEW n \in Nat, NEW r \in Seq(Transactions), CanRedo(n, r),
         NEW transaction \in Transactions, NEW m \in Nat, FitsLead(m, transaction, n)
  PROVE  CanRedo(m, Append(r, transaction))
  <1> DEFINE l == Len(r)
             more == Append(r, transaction)
  <1>1. PICK ls : FutureFits(ls, n, r)
    BY DEF CanRedo
  <1>2. l \in Nat
    BY LenProperties
  <1>3. /\ Len(more) = l + 1 /\ more[l + 1] = transaction
        /\ \A i \in 1 .. l : more[i] = r[i]
    BY AppendProperties
  <1>4. /\ ls \in [0 .. l -> Nat] /\ ls[0] = n
        /\ \A i \in 1 .. l : FitsLead(ls[i - 1], r[l - i + 1], ls[i])
    BY <1>1 DEF FutureFits
  <1> DEFINE k == l + 1
             now == [i \in 0 .. k |-> IF i = 0 THEN m ELSE ls[i - 1]]
  <1>5. /\ k \in Nat /\ k = l + 1 /\ \A i \in 1 .. k : i \in 0 .. k /\ i # 0 /\ i - 1 \in 0 .. l
    BY <1>2
  <1> HIDE DEF more, l, k
  <1>6. /\ now \in [0 .. k -> Nat] /\ now[0] = m
        /\ \A i \in 1 .. k : now[i] = ls[i - 1]
    <2>1. \A i \in 0 .. k : i # 0 => i - 1 \in 0 .. l
      BY <1>5
    <2>2. 0 \in 0 .. k
      BY <1>5
    <2> QED BY <1>4, <1>5, <2>1, <2>2
  <1> HIDE DEF now
  <1>7. \A i \in 1 .. k : FitsLead(now[i - 1], more[k - i + 1], now[i])
    <2> TAKE i \in 1 .. k
    <2>1. now[i] = ls[i - 1]
      BY <1>6
    <2>2. CASE i = 1
      <3>1. i - 1 = 0 /\ k - i + 1 = l + 1
        BY <1>2, <1>5, <2>2
      <3> QED BY <1>3, <1>4, <1>6, <2>1, <3>1
    <2>3. CASE i # 1
      <3> DEFINE j == i - 1
      <3>1. j \in 1 .. l /\ j \in 1 .. k /\ k - i + 1 = l - j + 1 /\ l - j + 1 \in 1 .. l
        BY <1>2, <1>5, <2>3
      <3> HIDE DEF j
      <3>2. now[j] = ls[j - 1] /\ more[l - j + 1] = r[l - j + 1]
        BY <1>3, <1>6, <3>1
      <3>3. FitsLead(ls[j - 1], r[l - j + 1], ls[j])
        BY <1>4, <3>1
      <3> QED BY <2>1, <3>1, <3>2, <3>3 DEF j
    <2> QED BY <2>2, <2>3
  <1>8. FutureFits(now, m, more)
    BY <1>3, <1>5, <1>6, <1>7 DEF FutureFits
  <1> QED BY <1>8 DEF CanRedo, more

\* The last one redone.
LEMMA CanRedoLess ==
  ASSUME NEW n \in Nat, NEW r \in Seq(Transactions), CanRedo(n, r), r # <<>>
  PROVE  \E m \in Nat : FitsLead(n, Last(r), m) /\ CanRedo(m, Front(r))
  <1> DEFINE l == Len(r)
             less == Front(r)
  <1>1. PICK ls : FutureFits(ls, n, r)
    BY DEF CanRedo
  <1>2. /\ l \in Nat /\ l >= 1 /\ Last(r) = r[l] /\ Len(less) = l - 1
        /\ \A i \in 1 .. l - 1 : less[i] = r[i]
    BY FrontAndLast
  <1>3. /\ ls \in [0 .. l -> Nat] /\ ls[0] = n
        /\ \A i \in 1 .. l : FitsLead(ls[i - 1], r[l - i + 1], ls[i])
    BY <1>1 DEF FutureFits
  <1> DEFINE m == ls[1]
             now == [i \in 0 .. l - 1 |-> ls[i + 1]]
  <1> HIDE DEF less, l
  <1>4. /\ 1 \in 1 .. l /\ 1 \in 0 .. l /\ l - 1 + 1 = l /\ 1 - 1 = 0 /\ 0 \in 0 .. l - 1
        /\ 0 + 1 = 1 /\ \A i \in 0 .. l - 1 : i + 1 \in 0 .. l
    BY <1>2
  <1>5. m \in Nat /\ FitsLead(n, Last(r), m)
    BY <1>2, <1>3, <1>4
  <1>6. /\ now \in [0 .. l - 1 -> Nat] /\ now[0] = m
        /\ \A i \in 0 .. l - 1 : now[i] = ls[i + 1]
    BY <1>3, <1>4
  <1> HIDE DEF now, m
  <1>7. \A i \in 1 .. l - 1 : FitsLead(now[i - 1], less[l - 1 - i + 1], now[i])
    <2> TAKE i \in 1 .. l - 1
    <2>1. /\ i + 1 \in 1 .. l /\ i \in 0 .. l - 1 /\ i - 1 \in 0 .. l - 1
          /\ (i - 1) + 1 = i /\ (i + 1) - 1 = i
          /\ l - 1 - i + 1 \in 1 .. l - 1 /\ l - 1 - i + 1 = l - (i + 1) + 1
      BY <1>2
    <2>2. now[i - 1] = ls[i] /\ now[i] = ls[i + 1]
      BY <1>6, <2>1
    <2>3. FitsLead(ls[i], r[l - (i + 1) + 1], ls[i + 1])
      BY <1>3, <2>1
    <2> QED BY <1>2, <2>1, <2>2, <2>3
  <1>8. FutureFits(now, m, less)
    BY <1>2, <1>6, <1>7 DEF FutureFits
  <1> QED BY <1>5, <1>8 DEF CanRedo, less

\* Other bytes at the same places.
LEMMA SameFits ==
  ASSUME NEW m, NEW n, NEW a, NEW b, FitsLead(m, a, n), b.before = a.before,
         SameShape(a.operations, b.operations)
  PROVE  FitsLead(m, b, n)
  <1> DEFINE os == a.operations
             ps == b.operations
  <1>1. PICK ls : LengthsBetween(ls, m, os, n)
    BY DEF FitsLead, Fits
  <1> HIDE DEF os, ps
  <1>2. LengthsBetween(ls, m, ps, n)
    BY <1>1 DEF LengthsBetween, SameShape, os, ps
  <1> QED BY <1>2 DEF FitsLead, Fits, ps

\* Each of the past texts is the next one with a transaction undone.
LEMMA PastSteps ==
  ASSUME NEW t \in Text, NEW stack \in Seq(Transactions)
  PROVE  /\ PastTexts(t, stack)[Len(stack)] = t
         /\ \A i \in 0 .. Len(stack) - 1 :
               PastTexts(t, stack)[i]
                  = Undone(PastTexts(t, stack)[i + 1], stack[i + 1]).text
  <1> DEFINE n == Len(stack)
             before[i \in 0 .. n] ==
                IF i = n THEN t ELSE Undone(before[i + 1], stack[i + 1]).text
             Equation(f) ==
                f = [i \in 0 .. n |->
                        IF i = n THEN t ELSE Undone(f[i + 1], stack[i + 1]).text]
             step == [i \in 1 .. n |-> [x \in Text |-> Undone(x, stack[i]).text]]
  <1>1. n \in Nat /\ \A i \in 1 .. n : stack[i] \in Transactions
    BY LenProperties, ElementOfSeq
  <1>2. PastTexts(t, stack) = before /\ before = CHOOSE f : Equation(f)
    BY DEF PastTexts
  <1>3. step \in [1 .. n -> [Text -> Text]]
    <2>1. \A i \in 1 .. n : \A x \in Text : Undone(x, stack[i]).text \in Text
      BY <1>1, UndoneType
    <2> HIDE DEF n
    <2> QED BY <2>1
  <1>4. \A i \in 1 .. n : \A x \in Text : step[i][x] = Undone(x, stack[i]).text
    OBVIOUS
  <1> HIDE DEF before, step, Equation
  <1>5. PICK g : IteratedBack(g, n, Text, t, step)
    <2> HIDE DEF n
    <2> QED BY <1>1, <1>3, IteratesBack
  <1>6. /\ g \in [0 .. n -> Text] /\ g[n] = t
        /\ \A i \in 0 .. n - 1 : g[i] = step[i + 1][g[i + 1]]
    BY <1>5 DEF IteratedBack
  <1>7. Equation(g)
    <2>1. g = [i \in 0 .. n |-> g[i]]
      BY <1>6
    <2>2. \A i \in 0 .. n :
             g[i] = IF i = n THEN t ELSE Undone(g[i + 1], stack[i + 1]).text
      <3> TAKE i \in 0 .. n
      <3>1. CASE i = n
        BY <1>6, <3>1
      <3>2. CASE i # n
        <4>1. i \in 0 .. n - 1 /\ i + 1 \in 1 .. n /\ i + 1 \in 0 .. n
          BY <1>1, <3>2
        <4>2. g[i + 1] \in Text /\ g[i] = step[i + 1][g[i + 1]]
          BY <1>6, <4>1
        <4>3. g[i] = Undone(g[i + 1], stack[i + 1]).text
          BY <1>4, <4>1, <4>2
        <4> QED BY <3>2, <4>3
      <3> QED BY <3>1, <3>2
    <2> HIDE DEF n
    <2> QED BY <2>1, <2>2 DEF Equation
  <1>8. Equation(before)
    BY <1>2, <1>7
  <1>9. before[n] = t
    BY <1>1, <1>8 DEF Equation
  <1>10. \A i \in 0 .. n - 1 : before[i] = Undone(before[i + 1], stack[i + 1]).text
    <2> TAKE i \in 0 .. n - 1
    <2>1. i \in 0 .. n /\ i # n
      BY <1>1
    <2> QED BY <1>8, <2>1 DEF Equation
  <1> QED BY <1>2, <1>9, <1>10

\* Each of the future texts is the one before it with a transaction redone.
LEMMA FutureSteps ==
  ASSUME NEW t \in Text, NEW stack \in Seq(Transactions)
  PROVE  /\ FutureTexts(t, stack)[0] = t
         /\ \A i \in 1 .. Len(stack) :
               FutureTexts(t, stack)[i]
                  = Redone(FutureTexts(t, stack)[i - 1], stack[Len(stack) - i + 1]).text
  <1> DEFINE n == Len(stack)
             after[i \in 0 .. n] ==
                IF i = 0 THEN t ELSE Redone(after[i - 1], stack[n - i + 1]).text
             Equation(f) ==
                f = [i \in 0 .. n |->
                        IF i = 0 THEN t ELSE Redone(f[i - 1], stack[n - i + 1]).text]
             step == [i \in 1 .. n |-> [x \in Text |-> Redone(x, stack[n - i + 1]).text]]
  <1>1. n \in Nat /\ \A i \in 1 .. n : stack[i] \in Transactions
    BY LenProperties, ElementOfSeq
  <1>2. FutureTexts(t, stack) = after /\ after = CHOOSE f : Equation(f)
    BY DEF FutureTexts
  <1>3. step \in [1 .. n -> [Text -> Text]]
    <2>1. \A i \in 1 .. n : \A x \in Text : Redone(x, stack[n - i + 1]).text \in Text
      <3> TAKE i \in 1 .. n
      <3>1. n - i + 1 \in 1 .. n
        BY <1>1
      <3> QED BY <1>1, <3>1, RedoneType
    <2> HIDE DEF n
    <2> QED BY <2>1
  <1>4. \A i \in 1 .. n : \A x \in Text : step[i][x] = Redone(x, stack[n - i + 1]).text
    OBVIOUS
  <1> HIDE DEF after, step, Equation
  <1>5. PICK g : Iterated(g, n, Text, t, step)
    <2> HIDE DEF n
    <2> QED BY <1>1, <1>3, Iterates
  <1>6. /\ g \in [0 .. n -> Text] /\ g[0] = t
        /\ \A i \in 1 .. n : g[i] = step[i][g[i - 1]]
    BY <1>5 DEF Iterated
  <1>7. Equation(g)
    <2>1. g = [i \in 0 .. n |-> g[i]]
      BY <1>6
    <2>2. \A i \in 0 .. n :
             g[i] = IF i = 0 THEN t ELSE Redone(g[i - 1], stack[n - i + 1]).text
      <3> TAKE i \in 0 .. n
      <3>1. CASE i = 0
        BY <1>6, <3>1
      <3>2. CASE i # 0
        <4>1. i \in 1 .. n /\ i - 1 \in 0 .. n
          BY <1>1, <3>2
        <4>2. g[i - 1] \in Text /\ g[i] = step[i][g[i - 1]]
          BY <1>6, <4>1
        <4>3. g[i] = Redone(g[i - 1], stack[n - i + 1]).text
          BY <1>4, <4>1, <4>2
        <4> QED BY <3>2, <4>3
      <3> QED BY <3>1, <3>2
    <2> HIDE DEF n
    <2> QED BY <2>1, <2>2 DEF Equation
  <1>8. Equation(after)
    BY <1>2, <1>7
  <1>9. after[0] = t
    BY <1>1, <1>8 DEF Equation
  <1>10. \A i \in 1 .. n : after[i] = Redone(after[i - 1], stack[n - i + 1]).text
    <2> TAKE i \in 1 .. n
    <2>1. i \in 0 .. n /\ i # 0
      BY <1>1
    <2> QED BY <1>8, <2>1 DEF Equation
  <1> QED BY <1>2, <1>9, <1>10

\* No transaction is refused on the way back.
LEMMA UndoApplies ==
  ASSUME NEW t \in Text, NEW u \in Seq(Transactions), CanUndo(Len(t), u)
  PROVE  \A i \in 1 .. Len(u) : Undone(PastTexts(t, u)[i], u[i]).done
  <1> DEFINE n == Len(u)
             past == PastTexts(t, u)
  <1>1. n \in Nat /\ \A i \in 1 .. n : u[i] \in Transactions
    BY LenProperties, ElementOfSeq
  <1>2. PICK ls : PastFits(ls, Len(t), u)
    BY DEF CanUndo
  <1>3. ls[n] = Len(t) /\ \A i \in 1 .. n : FitsLead(ls[i - 1], u[i], ls[i])
    BY <1>2 DEF PastFits
  <1>4. past[n] = t /\ \A i \in 0 .. n - 1 : past[i] = Undone(past[i + 1], u[i + 1]).text
    BY PastSteps
  <1> HIDE DEF past, n
  <1>5. ASSUME NEW i \in 1 .. n, past[i] \in Text, Len(past[i]) = ls[i]
        PROVE  /\ Undone(past[i], u[i]).done
               /\ Undone(past[i], u[i]).text \in Text
               /\ Len(Undone(past[i], u[i]).text) = ls[i - 1]
    <2> DEFINE x == past[i]
               transaction == u[i]
               m == ls[i - 1]
    <2>1. transaction \in Transactions /\ x \in Text /\ Fits(m, transaction.operations, Len(x))
      BY <1>1, <1>3, <1>5 DEF FitsLead
    <2> HIDE DEF x, transaction, m
    <2>2. /\ Undone(x, transaction).done /\ Undone(x, transaction).text \in Text
          /\ Len(Undone(x, transaction).text) = m
      BY <2>1, FitsUndone
    <2> QED BY <2>2 DEF x, transaction, m
  <1> DEFINE T == {i \in 0 .. n : past[i] \in Text /\ Len(past[i]) = ls[i]}
  <1>6. n \in T
    BY <1>1, <1>3, <1>4
  <1>7. \A i \in 0 .. n - 1 : i + 1 \in T => i \in T
    <2> TAKE i \in 0 .. n - 1
    <2> HAVE i + 1 \in T
    <2>1. i \in 0 .. n /\ i + 1 \in 1 .. n /\ (i + 1) - 1 = i
      BY <1>1
    <2>2. past[i + 1] \in Text /\ Len(past[i + 1]) = ls[i + 1]
      OBVIOUS
    <2> DEFINE j == i + 1
    <2>3. j \in 1 .. n /\ j - 1 = i /\ past[j] \in Text /\ Len(past[j]) = ls[j]
      BY <2>1, <2>2
    <2>4. past[i] = Undone(past[j], u[j]).text
      BY <1>4
    <2> HIDE DEF j
    <2>5. Undone(past[j], u[j]).text \in Text /\ Len(Undone(past[j], u[j]).text) = ls[j - 1]
      BY <1>5, <2>3
    <2> QED BY <2>1, <2>3, <2>4, <2>5
  <1>8. \A i \in 0 .. n : i \in T
    <2> HIDE DEF T
    <2> QED BY <1>1, <1>6, <1>7, DownFrom
  <1>9. \A i \in 1 .. n : i \in 0 .. n
    BY <1>1
  <1> QED BY <1>5, <1>8, <1>9 DEF past, n

\* Or on the way forth.
LEMMA RedoApplies ==
  ASSUME NEW t \in Text, NEW r \in Seq(Transactions), CanRedo(Len(t), r)
  PROVE  \A i \in 1 .. Len(r) : Redone(FutureTexts(t, r)[Len(r) - i], r[i]).done
  <1> DEFINE n == Len(r)
             future == FutureTexts(t, r)
  <1>1. n \in Nat /\ \A i \in 1 .. n : r[i] \in Transactions
    BY LenProperties, ElementOfSeq
  <1>2. PICK ls : FutureFits(ls, Len(t), r)
    BY DEF CanRedo
  <1>3. ls[0] = Len(t) /\ \A i \in 1 .. n : FitsLead(ls[i - 1], r[n - i + 1], ls[i])
    BY <1>2 DEF FutureFits
  <1>4. future[0] = t /\ \A i \in 1 .. n : future[i] = Redone(future[i - 1], r[n - i + 1]).text
    BY FutureSteps
  <1> HIDE DEF future, n
  <1>5. ASSUME NEW i \in 1 .. n, future[i - 1] \in Text, Len(future[i - 1]) = ls[i - 1]
        PROVE  /\ Redone(future[i - 1], r[n - i + 1]).done
               /\ Redone(future[i - 1], r[n - i + 1]).text \in Text
               /\ Len(Redone(future[i - 1], r[n - i + 1]).text) = ls[i]
    <2> DEFINE x == future[i - 1]
               transaction == r[n - i + 1]
               m == ls[i]
    <2>1. n - i + 1 \in 1 .. n
      BY <1>1
    <2>2. transaction \in Transactions /\ x \in Text /\ Fits(Len(x), transaction.operations, m)
      BY <1>1, <1>3, <1>5, <2>1 DEF FitsLead
    <2> HIDE DEF x, transaction, m
    <2>3. /\ Redone(x, transaction).done /\ Redone(x, transaction).text \in Text
          /\ Len(Redone(x, transaction).text) = m
      BY <2>2, FitsRedone
    <2> QED BY <2>3 DEF x, transaction, m
  <1> DEFINE T == {i \in 0 .. n : future[i] \in Text /\ Len(future[i]) = ls[i]}
  <1>6. 0 \in T
    BY <1>1, <1>3, <1>4
  <1>7. \A i \in 1 .. n : i - 1 \in T => i \in T
    <2> TAKE i \in 1 .. n
    <2> HAVE i - 1 \in T
    <2>1. i \in 0 .. n
      BY <1>1
    <2>2. Redone(future[i - 1], r[n - i + 1]).text \in Text
      BY <1>5
    <2>3. Len(Redone(future[i - 1], r[n - i + 1]).text) = ls[i]
      BY <1>5
    <2>4. future[i] = Redone(future[i - 1], r[n - i + 1]).text
      BY <1>4
    <2> QED BY <2>1, <2>2, <2>3, <2>4
  <1>8. \A i \in 0 .. n : i \in T
    <2> HIDE DEF T
    <2> QED BY <1>1, <1>6, <1>7, UpTo
  <1>9. \A i \in 1 .. n : Redone(future[i - 1], r[n - i + 1]).done
    <2> TAKE i \in 1 .. n
    <2>1. i - 1 \in 0 .. n
      BY <1>1
    <2>2. future[i - 1] \in Text /\ Len(future[i - 1]) = ls[i - 1]
      BY <1>8, <2>1
    <2> QED BY <1>5, <2>2
  <1>10. \A i \in 1 .. n : Redone(future[n - i], r[i]).done
    <2> TAKE i \in 1 .. n
    <2> DEFINE j == n - i + 1
    <2>1. j \in 1 .. n /\ j - 1 = n - i /\ n - j + 1 = i
      BY <1>1
    <2> HIDE DEF j
    <2>2. Redone(future[j - 1], r[n - j + 1]).done
      BY <1>9, <2>1
    <2> QED BY <2>1, <2>2
  <1> QED BY <1>10 DEF future, n

\* Every transaction of the two stacks fits the texts it will be applied to.
FitsInv == CanUndo(Len(text), undo) /\ CanRedo(Len(text), redo)

\* What a step does to the stacks, and what it selects when it undoes.
FitsStep ==
    /\ FitsInv'
    /\ Len(undo') < Len(undo) => captureSelection(view') = Last(undo).before

\* One more transaction.
LEMMA RecordedFits ==
  ASSUME NEW a \in Editors, NEW b \in Editors, Recorded(a, b),
         CanUndo(Len(a.text), a.undo)
  PROVE  /\ CanUndo(Len(b.text), b.undo) /\ CanRedo(Len(b.text), b.redo)
         /\ Len(b.undo) = Len(a.undo) + 1 /\ Len(a.undo) \in Nat
  <1>1. PICK transaction \in Transactions :
           /\ b.undo = Append(a.undo, transaction) /\ b.redo = <<>>
           /\ Leads(a.text, transaction, b.text)
    BY DEF Recorded
  <1>2. a.text \in Text /\ a.undo \in Seq(Transactions) /\ b.text \in Text
    BY EditorFields
  <1> DEFINE t == a.text
             u == a.undo
             w == b.text
  <1> HIDE DEF t, u, w
  <1>3. FitsLead(Len(t), transaction, Len(w)) /\ Len(t) \in Nat /\ Len(w) \in Nat
    BY <1>1, <1>2, LeadsFit DEF t, w
  <1>4. CanUndo(Len(w), Append(u, transaction))
    BY <1>2, <1>3, CanUndoMore DEF t, u
  <1>5. CanRedo(Len(w), <<>>)
    BY <1>3, NothingFits
  <1>6. Len(Append(u, transaction)) = Len(u) + 1 /\ Len(u) \in Nat
    BY <1>2, AppendProperties, LenProperties DEF u
  <1> QED BY <1>1, <1>4, <1>5, <1>6 DEF u, w

\* The operations an edit records fit, and so do those that were there.
LEMMA RecordedStepFits ==
  ASSUME TypeInv, FitsInv, NEW e \in Editors, Become(e),
         Recorded(Here, e) \/ RecordedTwice(Here, e)
  PROVE  FitsStep
  <1>1. text' = e.text /\ undo' = e.undo /\ redo' = e.redo
    BY DEF Become
  <1>2. Here \in Editors /\ Here.text = text /\ Here.undo = undo
    BY HereType
  <1>3. CanUndo(Len(Here.text), Here.undo)
    BY <1>2 DEF FitsInv
  <1>4. /\ CanUndo(Len(e.text), e.undo) /\ CanRedo(Len(e.text), e.redo)
        /\ Len(e.undo) \in Nat /\ Len(Here.undo) \in Nat /\ Len(e.undo) > Len(Here.undo)
    <2>1. CASE Recorded(Here, e)
      <3>1. /\ CanUndo(Len(e.text), e.undo) /\ CanRedo(Len(e.text), e.redo)
            /\ Len(e.undo) = Len(Here.undo) + 1 /\ Len(Here.undo) \in Nat
        BY <1>2, <1>3, <2>1, RecordedFits
      <3> QED BY <3>1
    <2>2. CASE RecordedTwice(Here, e)
      <3>1. PICK m \in Editors : Recorded(Here, m) /\ Recorded(m, e)
        BY <2>2 DEF RecordedTwice
      <3>2. /\ CanUndo(Len(m.text), m.undo)
            /\ Len(m.undo) = Len(Here.undo) + 1 /\ Len(Here.undo) \in Nat
        BY <1>2, <1>3, <3>1, RecordedFits
      <3>3. /\ CanUndo(Len(e.text), e.undo) /\ CanRedo(Len(e.text), e.redo)
            /\ Len(e.undo) = Len(m.undo) + 1
        BY <3>1, <3>2, RecordedFits
      <3> QED BY <3>2, <3>3
    <2> QED BY <2>1, <2>2
  <1>5. ~ (Len(undo') < Len(undo))
    BY <1>1, <1>2, <1>4
  <1> QED BY <1>1, <1>4, <1>5 DEF FitsStep, FitsInv

\* The stacks are left alone, and the text keeps its length.
LEMMA KeptFits ==
  ASSUME TypeInv, FitsInv, Len(text') = Len(text), undo' = undo, redo' = redo
  PROVE  FitsStep
  <1>1. Len(undo) \in Nat
    BY LenProperties DEF TypeInv
  <1> QED BY <1>1 DEF FitsStep, FitsInv

\* An ordinary step keeps what can be undone and redone.
LEMMA OrdinaryFits ==
  ASSUME TypeInv, FitsInv, Ordinary
  PROVE  FitsStep
  <1>1. PICK e \in Editors :
           Become(e) /\ (Kept(Here, e) \/ Recorded(Here, e) \/ RecordedTwice(Here, e))
    BY DEF Ordinary
  <1>2. CASE Kept(Here, e)
    BY <1>1, <1>2, HereType, KeptFits DEF Kept, Become
  <1>3. CASE ~ Kept(Here, e)
    BY <1>1, <1>3, RecordedStepFits
  <1> QED BY <1>2, <1>3

\* The second digit changes no length.
LEMMA SecondNibbleFits ==
  ASSUME TypeInv, FitsInv, NEW digit \in TypedDigits, secondNibble(digit)
  PROVE  FitsStep
  <1>1. /\ Len(text') = Len(text) /\ redo' = redo /\ TypeInv'
        /\ \/ undo' = undo
           \/ \E transaction \in Transactions :
                 /\ undo # <<>> /\ undo' = Append(Front(undo), transaction)
                 /\ transaction.before = Last(undo).before
                 /\ SameShape(Last(undo).operations, transaction.operations)
    BY SecondNibbleStep
  <1>2. CASE undo' = undo
    BY <1>1, <1>2, KeptFits
  <1>3. ASSUME NEW transaction \in Transactions,
               undo # <<>>, undo' = Append(Front(undo), transaction),
               transaction.before = Last(undo).before,
               SameShape(Last(undo).operations, transaction.operations)
        PROVE  FitsStep
    <2> DEFINE n == Len(text)
    <2>1. n \in Nat /\ undo \in Seq(Transactions) /\ CanUndo(n, undo) /\ CanRedo(n, redo)
      BY TextLength DEF TypeInv, FitsInv
    <2> HIDE DEF n
    <2>2. PICK m \in Nat : FitsLead(m, Last(undo), n) /\ CanUndo(m, Front(undo))
      BY <1>3, <2>1, CanUndoLess
    <2>3. FitsLead(m, transaction, n)
      BY <1>3, <2>2, SameFits
    <2>4. Front(undo) \in Seq(Transactions) /\ Len(Front(undo)) = Len(undo) - 1 /\ Len(undo) \in Nat
      BY <1>3, <2>1, FrontAndLast
    <2>5. CanUndo(n, undo')
      BY <1>3, <2>1, <2>2, <2>3, <2>4, CanUndoMore
    <2>6. Len(undo') = Len(undo)
      BY <1>3, <2>4, AppendProperties
    <2> QED BY <1>1, <2>1, <2>4, <2>5, <2>6 DEF FitsStep, FitsInv, n
  <1> QED BY <1>1, <1>2, <1>3

\* undoEdit succeeds and gives the text the length it had,
LEMMA UndoEditFits ==
  ASSUME TypeInv, FitsInv, undoEdit
  PROVE  FitsStep
  <1> DEFINE n == Len(text)
             last == Last(undo)
  <1>1. /\ undo # <<>> /\ last \in Transactions /\ text \in Text
        /\ undo \in Seq(Transactions) /\ redo \in Seq(Transactions)
        /\ n \in Nat /\ CanUndo(n, undo) /\ CanRedo(n, redo)
    BY UndoEditStep, TextLength DEF TypeInv, FitsInv
  <1>2. PICK m \in Nat : FitsLead(m, last, n) /\ CanUndo(m, Front(undo))
    <2> HIDE DEF n
    <2> QED BY <1>1, CanUndoLess
  <1>3. Fits(m, last.operations, n) /\ Within(last.before, m)
    BY <1>2 DEF FitsLead
  <1>4. Undone(text, last).done /\ Undone(text, last).text \in Text /\ Len(Undone(text, last).text) = m
    <2> HIDE DEF last
    <2> QED BY <1>1, <1>3, FitsUndone
  <1>5. /\ text' = Undone(text, last).text
        /\ undo' = Front(undo) /\ redo' = Append(redo, last)
        /\ Inside(last.before, text') => captureSelection(view') = last.before
    BY <1>4, UndoEditStep
  <1> HIDE DEF last, n
  <1>6. Len(text') = m /\ Inside(last.before, text')
    BY <1>3, <1>4, <1>5 DEF Inside, Within
  <1>7. CanRedo(m, Append(redo, last))
    BY <1>1, <1>2, CanRedoMore
  <1> QED BY <1>2, <1>5, <1>6, <1>7 DEF FitsStep, FitsInv, last

\* and so does redoEdit.
LEMMA RedoEditFits ==
  ASSUME TypeInv, FitsInv, redoEdit
  PROVE  FitsStep
  <1> DEFINE n == Len(text)
             last == Last(redo)
  <1>1. /\ redo # <<>> /\ last \in Transactions /\ text \in Text
        /\ undo \in Seq(Transactions) /\ redo \in Seq(Transactions)
        /\ n \in Nat /\ CanUndo(n, undo) /\ CanRedo(n, redo)
    BY RedoEditStep, TextLength DEF TypeInv, FitsInv
  <1>2. PICK m \in Nat : FitsLead(n, last, m) /\ CanRedo(m, Front(redo))
    <2> HIDE DEF n
    <2> QED BY <1>1, CanRedoLess
  <1>3. Fits(n, last.operations, m)
    BY <1>2 DEF FitsLead
  <1>4. Redone(text, last).done /\ Redone(text, last).text \in Text /\ Len(Redone(text, last).text) = m
    <2> HIDE DEF last
    <2> QED BY <1>1, <1>3, FitsRedone
  <1>5. /\ text' = Redone(text, last).text
        /\ undo' = Append(undo, last) /\ redo' = Front(redo)
    BY <1>4, RedoEditStep
  <1> HIDE DEF last, n
  <1>6. CanUndo(m, Append(undo, last))
    BY <1>1, <1>2, CanUndoMore
  <1>7. Len(undo') = Len(undo) + 1 /\ Len(undo) \in Nat
    BY <1>1, <1>5, AppendProperties, LenProperties
  <1>8. ~ (Len(undo') < Len(undo))
    BY <1>7
  <1> QED BY <1>2, <1>4, <1>5, <1>6, <1>8 DEF FitsStep, FitsInv

\* Every step keeps what can be undone and redone.
LEMMA NextFits ==
  ASSUME TypeInv, FitsInv, [Next]_vars
  PROVE  FitsStep
  <1>1. CASE Ordinary
    BY <1>1, OrdinaryFits
  <1>2. CASE UNCHANGED <<text, view, undo, redo>>
    BY <1>2, KeptFits
  <1>3. ASSUME NEW digit \in TypedDigits, firstNibble(digit) PROVE FitsStep
    <2>1. PICK e \in Editors : Become(e) /\ (Recorded(Here, e) \/ RecordedTwice(Here, e))
      BY <1>3, FirstNibbleStep
    <2> QED BY <2>1, RecordedStepFits
  <1>4. ASSUME NEW digit \in TypedDigits, secondNibble(digit) PROVE FitsStep
    BY <1>4, SecondNibbleFits
  <1>5. CASE undoEdit
    BY <1>5, UndoEditFits
  <1>6. CASE redoEdit
    BY <1>6, RedoEditFits
  <1>7. CASE UNCHANGED vars
    BY <1>2, <1>7 DEF vars
  <1>8. CASE Next
    BY <1>1, <1>2, <1>3, <1>4, <1>5, <1>6, <1>8, Steps
  <1> QED BY <1>7, <1>8

\* The invariant that HistoryCanBeApplied and UndoSelectsAgain rest on.
LEMMA FitsHold == Spec => [](TypeInv /\ FitsInv)
  <1>1. Init => TypeInv /\ FitsInv
    <2> SUFFICES ASSUME Init PROVE TypeInv /\ FitsInv
      OBVIOUS
    <2>1. TypeInv
      BY InitTypes
    <2>2. Len(text) \in Nat
      BY <2>1, TextLength
    <2>3. undo = <<>> /\ redo = <<>>
      BY DEF Init
    <2> QED BY <2>1, <2>2, <2>3, NothingFits DEF FitsInv
  <1>2. TypeInv /\ FitsInv /\ [Next]_vars => TypeInv' /\ FitsInv'
    BY NextTypes, NextFits DEF FitsStep
  <1> QED BY <1>1, <1>2, PTL DEF Spec

\* Undoing and redoing never stop half-way: whatever was typed, over however
\* many ranges, each operation of either stack lies in the text that it will be
\* applied to.
THEOREM HistoryCanBeApplied == Spec => []HistoryApplies
  <1>1. TypeInv /\ FitsInv => HistoryApplies
    <2> SUFFICES ASSUME TypeInv, FitsInv PROVE HistoryApplies
      OBVIOUS
    <2>1. text \in Text /\ undo \in Seq(Transactions) /\ redo \in Seq(Transactions)
      BY DEF TypeInv
    <2>2. \A i \in 1 .. Len(undo) : Undone(pastText[i], undo[i]).done
      BY <2>1, UndoApplies DEF FitsInv, pastText
    <2>3. \A i \in 1 .. Len(redo) : Redone(futureText[Len(redo) - i], redo[i]).done
      BY <2>1, RedoApplies DEF FitsInv, futureText
    <2>4. DOMAIN undo = 1 .. Len(undo) /\ DOMAIN redo = 1 .. Len(redo)
      BY <2>1, LenProperties
    <2> QED BY <2>2, <2>3, <2>4 DEF HistoryApplies
  <1> QED BY <1>1, FitsHold, PTL

\* Undoing selects what was selected before the edit, and all of it is in the
\* text that comes back.
THEOREM UndoSelectsAgain == Spec => UndoRestoresSelection
  <1>1. TypeInv /\ FitsInv /\ [Next]_vars
           => [Len(undo') < Len(undo)
                  => captureSelection(view') = Last(undo).before]_vars
    BY NextFits DEF FitsStep
  <1> QED BY <1>1, FitsHold, PTL DEF Spec, UndoRestoresSelection
-----------------------------------------------------------------------------
(* What deleting the selection leaves *)

\* Where the bytes are that are not at the positions of S.
Unselected(t, S) == {j \in DOMAIN t : j - 1 \notin S}

\* Outside keeps them, in their order.
LEMMA OutsideIs ==
  ASSUME NEW t \in Text, NEW S
  PROVE  Outside(t, S) \in Text /\ \E at : KeptAt(Outside(t, S), t, Unselected(t, S), at)
  <1> DEFINE n == Len(t)
             P == Unselected(t, S)
             outside[i \in 0 .. n] ==
                IF i = 0 THEN <<>>
                ELSE IF i - 1 \notin S THEN Append(outside[i - 1], t[i])
                ELSE outside[i - 1]
             Equation(f) ==
                f = [i \in 0 .. n |->
                        IF i = 0 THEN <<>>
                        ELSE IF i - 1 \notin S THEN Append(f[i - 1], t[i])
                        ELSE f[i - 1]]
             kept == CHOOSE f : KeptSoFar(f, t, P, n)
  <1>1. n \in Nat /\ DOMAIN t = 1 .. n
    BY LenProperties DEF Text
  <1>2. Outside(t, S) = outside[n]
    BY DEF Outside
  <1>3. outside = CHOOSE f : Equation(f)
    OBVIOUS
  <1>4. \A i \in 0 .. n : i # 0 => (i \in P <=> i - 1 \notin S)
    <2> TAKE i \in 0 .. n
    <2> HAVE i # 0
    <2>1. i \in DOMAIN t
      <3> HIDE DEF n
      <3> QED BY <1>1
    <2> QED BY <2>1 DEF Unselected
  <1> HIDE DEF P, n, outside
  <1>5. \A f : Equation(f) <=> KeptSoFar(f, t, P, n)
    <2> TAKE f
    <2>1. [i \in 0 .. n |-> IF i = 0 THEN <<>>
                            ELSE IF i - 1 \notin S THEN Append(f[i - 1], t[i])
                            ELSE f[i - 1]]
          = [i \in 0 .. n |-> IF i = 0 THEN <<>>
                              ELSE IF i \in P THEN Append(f[i - 1], t[i])
                              ELSE f[i - 1]]
      BY <1>4
    <2> QED BY <2>1 DEF KeptSoFar
  <1> HIDE DEF Equation
  <1>6. (CHOOSE f : Equation(f)) = kept
    BY <1>5
  <1> HIDE DEF kept
  <1>7. kept[n] \in Seq(Byte) /\ \E at : KeptAt(kept[n], t, P, at)
    BY KeepingIs DEF kept, n, Text
  <1>8. Outside(t, S) = kept[n]
    BY <1>2, <1>3, <1>6
  <1> QED BY <1>7, <1>8 DEF P, Text

\* The ranges of the selection spare what is not selected.
LEMMA RangesSpare ==
  ASSUME NEW t \in Text, NEW S \in SUBSET Nat, IsFiniteSet(S)
  PROVE  Spared(t, RangesFromEnd(S), Len(RangesFromEnd(S))) = Unselected(t, S)
  <1> DEFINE rs == RangesFromEnd(S)
             n == Len(rs)
             In(j, k) == j - 1 \in Positions(rs[k].offset, rs[k].length)
  <1>1. /\ FromEnd(rs, S)
        /\ \A r \in Ranges(S) : \E i \in 1 .. n : rs[i] = r
    BY RangesInOrder
  <1>2. \A k \in 1 .. n : rs[k] \in Ranges(S)
    <2> HIDE DEF rs
    <2> QED BY <1>1, ElementOfSeq DEF FromEnd
  <1> HIDE DEF rs, n
  <1>3. ASSUME NEW j \in DOMAIN t, NEW k \in 1 .. n, In(j, k)
        PROVE  j - 1 \in S
    <2>1. IsRange(rs[k], S)
      BY <1>2, RangesAre
    <2> QED BY <1>3, <2>1 DEF IsRange
  <1>4. ASSUME NEW j \in DOMAIN t, j - 1 \in S
        PROVE  \E k \in 1 .. n : In(j, k)
    <2>1. PICK r \in Ranges(S) : j - 1 \in Positions(r.offset, r.length)
      BY <1>4, RangesCover
    <2>2. PICK k \in 1 .. n : rs[k] = r
      BY <1>1
    <2> QED BY <2>1, <2>2
  <1>5. Spared(t, rs, n) = {j \in DOMAIN t : \A k \in 1 .. n : ~ In(j, k)}
    BY DEF Spared
  <1> HIDE DEF In
  <1>6. Spared(t, rs, n) = Unselected(t, S)
    BY <1>3, <1>4, <1>5 DEF Unselected
  <1> QED BY <1>6 DEF rs, n

\* Deleting the ranges of a selection leaves what is outside of it.
LEMMA RangesDeletedOutside ==
  ASSUME NEW t \in Text, NEW S \in SUBSET Nat, S \subseteq 0 .. (Len(t) - 1),
         IsFiniteSet(S), S # {}
  PROVE  DeleteRanges(t, RangesFromEnd(S)).text = Outside(t, S)
  <1> DEFINE rs == RangesFromEnd(S)
             u == DeleteRanges(t, rs).text
             w == Outside(t, S)
             P == Unselected(t, S)
  <1>1. RangesOf(rs, t)
    BY SelectedRanges
  <1>2. Spared(t, rs, Len(rs)) = P
    BY RangesSpare
  <1>3. w \in Text /\ \E at : KeptAt(w, t, P, at)
    BY OutsideIs
  <1> HIDE DEF rs, P, w
  <1>4. Progress(t, DeleteRanges(t, rs)) /\ Remains(u, t, rs, Len(rs))
    BY <1>1, RangesDeleted
  <1>5. u \in Text
    BY <1>4 DEF Progress
  <1> HIDE DEF u
  <1>6. \E bt : KeptAt(u, t, P, bt)
    BY <1>2, <1>4 DEF Remains
  <1>7. u = w
    BY <1>3, <1>5, <1>6, KeptOnce DEF Text
  <1> QED BY <1>7 DEF u, w, rs

\* So does deleting one range leave what is outside of it.
LEMMA OneRangeOutside ==
  ASSUME NEW t \in Text, NEW a \in Nat, NEW l \in Nat, InDocument(t, a, l)
  PROVE  Replaced(t, a, l, <<>>) = Outside(t, Positions(a, l))
  <1> DEFINE n == Len(t)
             S == Positions(a, l)
             Q == Unselected(t, S)
             D == DOMAIN t
             at == [k \in 1 .. n |-> k]
             v == Replaced(t, a, l, <<>>)
             w == Outside(t, S)
  <1>1. n \in Nat /\ DOMAIN t = 1 .. n /\ t \in Seq(Byte) /\ a + l <= n
    BY LenProperties DEF Text, InDocument
  <1>2. w \in Seq(Byte) /\ \E bt : KeptAt(w, t, Q, bt)
    BY OutsideIs DEF Text
  <1>3. Spliced(v, t, a, l, <<>>, Byte)
    <2>1. <<>> \in Seq(Byte)
      OBVIOUS
    <2>2. Spliced(Splice(t, a, l, <<>>), t, a, l, <<>>, Byte)
      BY <1>1, <2>1, SpliceIs
    <2> QED BY <2>2, ReplacedIsSplice
  <1>4. v \in Seq(Byte)
    BY <1>3 DEF Spliced
  <1>5. KeptAt(t, t, D, at)
    BY <1>1 DEF KeptAt
  <1>6. InPlace(at, a + l)
    <2>1. \A k \in 1 .. a + l : k \in 1 .. n
      <3> HIDE DEF n
      <3> QED BY <1>1
    <2> QED BY <2>1 DEF InPlace
  <1>7. Without(Q, D, t, a, l)
    <2> SUFFICES ASSUME NEW j \in DOMAIN t
                 PROVE  j \in Q <=> j \in D /\ j \notin a + 1 .. a + l
      BY DEF Without
    <2>1. j \in Nat
      <3> HIDE DEF n
      <3>1. j \in 1 .. n
        BY <1>1
      <3> QED BY <1>1, <3>1
    <2>2. j - 1 \in S <=> j \in a + 1 .. a + l
      BY <2>1 DEF Positions
    <2> QED BY <2>2 DEF Unselected
  <1> HIDE DEF at, D, Q, S, v, w
  <1>8. \E bt : KeptAt(v, t, Q, bt)
    <2>1. a + l <= Len(t)
      BY <1>1
    <2> QED BY <1>1, <1>3, <1>4, <1>5, <1>6, <1>7, <2>1, KeptLess
  <1>9. v = w
    BY <1>1, <1>2, <1>4, <1>8, KeptOnce
  <1> QED BY <1>9 DEF v, w, S
\* One deletion, by key or by cutting.
LEMMA DeletionStep ==
  ASSUME TypeInv, NEW backwards \in BOOLEAN, deleteSelection(backwards),
         Len(undo') > Len(undo), SelectedPositions(view) # {}
  PROVE  text' = Outside(text, SelectedPositions(view))
  <1> DEFINE e == [Here EXCEPT !.view = WithoutPendingDigit(view)]
             none == <<>>
             S == SelectedPositions(view)
  <1>1. IF editMode = "ReadOnly" THEN Become(e)
        ELSE IF view.additional # {} THEN Become(deleteSelectedRanges(Here))
        ELSE IF view.length > 0
        THEN Become(applyReplacement(e, view.offset, view.length, none))
        ELSE IF ~ backwards
        THEN Become(applyReplacement(e, view.offset, 1, none))
        ELSE IF view.offset > 0
        THEN Become(applyReplacement(e, view.offset - 1, 1, none))
        ELSE Become(e)
    BY DEF deleteSelection
  <1>2. /\ e \in Editors /\ Kept(Here, e) /\ Inside(e.view, e.text)
    BY HereWithoutPendingDigit
  <1>3. /\ Here \in Editors /\ Inside(Here.view, Here.text)
        /\ Here.text = text /\ Here.view = view /\ Here.undo = undo
    BY HereType
  <1>4. e.text = text /\ e.undo = undo
    BY <1>2, <1>3 DEF Kept
  <1>5. none \in Text
    BY DEF Text
  <1>6. /\ text \in Text /\ view \in Views /\ Inside(view, text) /\ Len(undo) \in Nat
        /\ view.offset \in Nat /\ view.length \in Nat
    BY TextLength, LenProperties DEF TypeInv
  <1>7. /\ S \in SUBSET Nat /\ S \subseteq 0 .. (Len(text) - 1)
        /\ IsFiniteSet(S) /\ S # {}
    BY <1>6, Selected
  <1> HIDE DEF e
  <1>8. ~ Become(e)
    BY <1>4, <1>6 DEF Become
  <1>9. CASE view.additional # {} /\ Become(deleteSelectedRanges(Here))
    <2> DEFINE r == deleteSelectedRanges(Here)
    <2>1. r.text = DeleteRanges(text, RangesFromEnd(S)).text
      BY <1>3, <1>7, SelectionDeleted
    <2>2. DeleteRanges(text, RangesFromEnd(S)).text = Outside(text, S)
      BY <1>6, <1>7, RangesDeletedOutside
    <2> HIDE DEF r, S
    <2>3. text' = r.text
      BY <1>9 DEF Become, r
    <2> QED BY <2>1, <2>2, <2>3 DEF S
  <1>10. ASSUME view.additional = {}
         PROVE  view.length > 0 /\ S = Positions(view.offset, view.length)
    <2>1. S = Positions(view.offset, view.length)
      BY <1>10 DEF SelectedPositions
    <2>2. view.length > 0
      BY <1>6, <1>7, <2>1 DEF Positions
    <2> QED BY <2>1, <2>2
  <1>11. CASE /\ view.additional = {}
              /\ Become(applyReplacement(e, view.offset, view.length, none))
    <2> DEFINE r == applyReplacement(e, view.offset, view.length, none)
    <2>1. InDocument(text, view.offset, view.length)
      BY <1>6 DEF Inside, InDocument
    <2>2. r.text = Replaced(text, view.offset, view.length, none)
      BY <1>2, <1>4, <1>5, <1>6, <2>1, ReplacementApplied
    <2>3. Replaced(text, view.offset, view.length, none) = Outside(text, S)
      BY <1>6, <1>10, <1>11, <2>1, OneRangeOutside
    <2> HIDE DEF r, S
    <2>4. text' = r.text
      BY <1>11 DEF Become, r
    <2> QED BY <2>2, <2>3, <2>4 DEF S
  <1> HIDE DEF S
  <1> QED BY <1>1, <1>8, <1>9, <1>10, <1>11 DEF S

\* However many ranges are selected, and however they lie, deleting the
\* selection (deleteSelectedRanges, from the last range to the first, or one
\* replacement) leaves exactly the bytes that are outside of it, in their order.
THEOREM DeletionTakesSelection == Spec => DeletesSelectedBytes
  <1>1. TypeInv => [\A backwards \in BOOLEAN :
                       Len(undo') > Len(undo) /\ SelectedPositions(view) # {}
                           /\ deleteSelection(backwards)
                       => text' = Outside(text, SelectedPositions(view))]_vars
    BY DeletionStep
  <1> QED BY <1>1, FitsHold, PTL DEF DeletesSelectedBytes
-----------------------------------------------------------------------------
(* What replacing all matches leaves *)

\* The offsets at which pattern is found in the text.
Found(pattern) == Matches(text, pattern, 0, Len(text))

Readings == [out : Text, from : Nat]

\* read are the states of reading the text once.
Reading(read, pattern, replacement) ==
    /\ read \in [0 .. Len(text) -> Readings]
    /\ read[0] = [out |-> <<>>, from |-> 0]
    /\ \A i \in 1 .. Len(text) :
          read[i] = ReadByte(read[i - 1], i - 1, pattern, replacement)
    /\ everyMatchReplaced(pattern, replacement) = read[Len(text)].out

\* What reading a byte answers.
LEMMA ReadByteType ==
  ASSUME text \in Text, NEW pattern \in Text, NEW replacement \in Text,
         NEW r \in Readings, NEW i \in 1 .. Len(text)
  PROVE  ReadByte(r, i - 1, pattern, replacement) \in Readings
  <1>1. r.out \in Seq(Byte) /\ r.from \in Nat /\ replacement \in Seq(Byte)
    BY DEF Readings, Text
  <1>2. Len(text) \in Nat /\ i - 1 \in Nat /\ text[i] \in Byte /\ Len(pattern) \in Nat
    BY LenProperties, ElementOfSeq DEF Text
  <1>3. r.out \o replacement \in Text /\ Append(r.out, text[i]) \in Text
    BY <1>1, <1>2, ConcatProperties, AppendProperties DEF Text
  <1>4. i - 1 + 1 = i /\ i - 1 + Len(pattern) \in Nat /\ i \in Nat
    BY <1>2
  <1> QED BY <1>3, <1>4 DEF ReadByte, Readings

\* There are such states.
LEMMA ReadingIs ==
  ASSUME text \in Text, NEW pattern \in Text, NEW replacement \in Text
  PROVE  \E read : Reading(read, pattern, replacement)
  <1> DEFINE n == Len(text)
             base == [out |-> <<>>, from |-> 0]
             read[i \in 0 .. n] ==
                IF i = 0 THEN [out |-> <<>>, from |-> 0]
                ELSE ReadByte(read[i - 1], i - 1, pattern, replacement)
             Equation(f) ==
                f = [i \in 0 .. n |->
                        IF i = 0 THEN [out |-> <<>>, from |-> 0]
                        ELSE ReadByte(f[i - 1], i - 1, pattern, replacement)]
             step == [i \in 1 .. n |->
                        [r \in Readings |-> ReadByte(r, i - 1, pattern, replacement)]]
  <1>1. n \in Nat
    BY LenProperties DEF Text
  <1>2. everyMatchReplaced(pattern, replacement) = read[n].out
    BY DEF everyMatchReplaced
  <1>3. read = CHOOSE f : Equation(f)
    OBVIOUS
  <1>4. base \in Readings
    BY DEF Readings, Text
  <1>5. /\ step \in [1 .. n -> [Readings -> Readings]]
        /\ \A i \in 1 .. n : \A r \in Readings :
              step[i][r] = ReadByte(r, i - 1, pattern, replacement)
    <2>1. \A i \in 1 .. n : \A r \in Readings :
             ReadByte(r, i - 1, pattern, replacement) \in Readings
      BY ReadByteType
    <2> HIDE DEF n
    <2> QED BY <2>1
  <1> HIDE DEF read, step, Equation
  <1>6. PICK f : Iterated(f, n, Readings, base, step)
    <2> HIDE DEF n, base
    <2> QED BY <1>1, <1>4, <1>5, Iterates
  <1>7. /\ f \in [0 .. n -> Readings] /\ f[0] = base
        /\ \A i \in 1 .. n : f[i] = step[i][f[i - 1]]
    BY <1>6 DEF Iterated
  <1>8. \A i \in 1 .. n : f[i] = ReadByte(f[i - 1], i - 1, pattern, replacement)
    <2> TAKE i \in 1 .. n
    <2>1. i - 1 \in 0 .. n
      BY <1>1
    <2>2. f[i - 1] \in Readings
      BY <1>7, <2>1
    <2> QED BY <1>5, <1>7, <2>2
  <1>9. Equation(f)
    <2>1. f = [i \in 0 .. n |-> f[i]]
      BY <1>7
    <2>2. \A i \in 0 .. n :
             f[i] = IF i = 0 THEN base
                    ELSE ReadByte(f[i - 1], i - 1, pattern, replacement)
      <3> TAKE i \in 0 .. n
      <3>1. i # 0 => i \in 1 .. n
        BY <1>1
      <3> HIDE DEF base, n
      <3> QED BY <1>7, <1>8, <3>1
    <2> HIDE DEF n
    <2> QED BY <2>1, <2>2 DEF Equation
  <1>10. Equation(read)
    BY <1>3, <1>9
  <1>11. /\ read[0] = base
         /\ \A i \in 1 .. n : read[i] = ReadByte(read[i - 1], i - 1, pattern, replacement)
    <2>1. 0 \in 0 .. n /\ \A i \in 1 .. n : i \in 0 .. n /\ i # 0
      BY <1>1
    <2> HIDE DEF n
    <2> QED BY <1>10, <2>1 DEF Equation
  <1>12. read \in [0 .. n -> Readings]
    <2> DEFINE T == {i \in 0 .. n : read[i] \in Readings}
    <2>1. 0 \in T /\ \A i \in 1 .. n : i - 1 \in T => i \in T
      <3>1. 0 \in 0 .. n /\ \A i \in 1 .. n : i \in 0 .. n
        BY <1>1
      <3>2. \A i \in 1 .. n : read[i - 1] \in Readings => read[i] \in Readings
        BY <1>11, ReadByteType
      <3> HIDE DEF n, base
      <3> QED BY <1>4, <1>11, <3>1, <3>2
    <2>2. \A i \in 0 .. n : i \in T
      <3> HIDE DEF T, n
      <3> QED BY <1>1, <2>1, UpTo
    <2>3. DOMAIN read = 0 .. n /\ read = [i \in 0 .. n |-> read[i]]
      <3> HIDE DEF n
      <3> QED BY <1>10 DEF Equation
    <2> HIDE DEF n
    <2> QED BY <2>2, <2>3
  <1> QED BY <1>2, <1>11, <1>12 DEF Reading

\* Everything before p has been read, and o is what it has become.
Read(read, p, o) ==
    /\ p \in 0 .. Len(text) /\ read[p].from = p /\ read[p].out = o /\ o \in Text

\* Nothing is found from p to q.
NothingFound(pattern, p, q) == \A j \in p .. q - 1 : j \notin Found(pattern)

\* Reading on over bytes where nothing is found.
LEMMA ReadingOn ==
  ASSUME text \in Text, NEW pattern \in Text, NEW replacement \in Text,
         NEW read, Reading(read, pattern, replacement),
         NEW p, NEW o, Read(read, p, o),
         NEW q \in Nat, p <= q, q <= Len(text), NothingFound(pattern, p, q)
  PROVE  \E x : /\ Read(read, q, x) /\ Len(x) = Len(o) + (q - p)
                /\ Replaced(text, 0, q, x) = Replaced(text, 0, p, o)
  <1> DEFINE n == Len(text)
             w == Replaced(text, 0, p, o)
             Good(i) == \E x : /\ Read(read, p + i, x) /\ Len(x) = Len(o) + i
                               /\ Replaced(text, 0, p + i, x) = w
             m == q - p
             T == {i \in 0 .. m : Good(i)}
  <1>1. n \in Nat /\ p \in Nat /\ o \in Text /\ Len(o) \in Nat /\ m \in Nat
    BY LenProperties DEF Read, Text
  <1>2. 0 \in T
    <2>1. p + 0 = p /\ Len(o) + 0 = Len(o)
      BY <1>1
    <2>2. Good(0)
      BY <2>1
    <2> HIDE DEF Good, m
    <2> QED BY <1>1, <2>2
  <1>3. ASSUME NEW i \in 1 .. m, i - 1 \in T PROVE i \in T
    <2> DEFINE a == p + (i - 1)
               b == p + i
    <2>1. PICK x : /\ Read(read, a, x) /\ Len(x) = Len(o) + (i - 1)
                   /\ Replaced(text, 0, a, x) = w
      BY <1>3
    <2>2. /\ a \in Nat /\ b = a + 1 /\ b \in 1 .. n /\ b - 1 = a /\ a + 1 <= Len(text)
          /\ a \in p .. q - 1 /\ b \in 0 .. n
      BY <1>1
    <2> HIDE DEF a, b, w
    <2>3. read[a].from = a /\ read[a].out = x /\ x \in Text
      BY <2>1 DEF Read
    <2>4. a \notin Matches(text, pattern, read[a].from, Len(text))
      <3>1. a \notin Matches(text, pattern, 0, Len(text))
        BY <2>2 DEF NothingFound, Found
      <3>2. Len(pattern) \in Nat
        BY LenProperties DEF Text
      <3> QED BY <1>1, <2>2, <2>3, <3>1, <3>2 DEF Matches
    <2>5. read[b] = [out |-> Append(x, text[a + 1]), from |-> a + 1]
      <3>1. read[b] = ReadByte(read[a], a, pattern, replacement)
        BY <2>2 DEF Reading
      <3>2. ~ (a < read[a].from)
        BY <2>2, <2>3
      <3> QED BY <2>3, <2>4, <3>1, <3>2 DEF ReadByte
    <2> DEFINE y == Append(x, text[a + 1])
    <2>6. y \in Text /\ Len(y) = Len(x) + 1
      <3>1. text[b] \in Byte
        BY <2>2, ElementOfSeq DEF Text
      <3> QED BY <2>2, <2>3, <3>1, AppendProperties DEF Text
    <2>7. Replaced(text, 0, b, y) = w
      <3>1. Splice(text, 0, a + 1, Append(x, text[a + 1])) = Splice(text, 0, a, x)
        BY <2>2, <2>3, RewrittenSame DEF Text
      <3> QED BY <2>1, <2>2, <3>1, ReplacedIsSplice
    <2>8. read[b].from = b /\ read[b].out = y
      BY <2>2, <2>5
    <2> HIDE DEF y
    <2>9. Read(read, b, y)
      BY <2>2, <2>6, <2>8 DEF Read
    <2>10. Len(y) = Len(o) + i
      BY <1>1, <2>1, <2>6
    <2>11. Good(i)
      BY <2>7, <2>9, <2>10 DEF b
    <2> HIDE DEF Good, m
    <2> QED BY <2>11
  <1>4. m \in T
    <2> HIDE DEF T
    <2>1. \A i \in 0 .. m : i \in T
      <3> HIDE DEF m
      <3> QED BY <1>1, <1>2, <1>3, UpTo
    <2> HIDE DEF m
    <2> QED BY <1>1, <2>1
  <1>5. p + m = q
    BY <1>1
  <1>6. Good(m)
    BY <1>4
  <1> HIDE DEF m
  <1> QED BY <1>5, <1>6 DEF m

\* Reading over a match.
LEMMA ReadingMatch ==
  ASSUME text \in Text, NEW pattern \in Text, pattern # <<>>, NEW replacement \in Text,
         NEW read, Reading(read, pattern, replacement),
         NEW p, NEW o, Read(read, p, o), p \in Found(pattern)
  PROVE  Read(read, p + Len(pattern), o \o replacement)
  <1> DEFINE n == Len(text)
             l == Len(pattern)
             x == o \o replacement
             r == [out |-> x, from |-> p + l]
             T == {i \in 0 .. l : i # 0 => read[p + i] = r}
  <1>1. /\ n \in Nat /\ p \in Nat /\ o \in Text /\ l \in Nat /\ l > 0
        /\ read[p].from = p /\ read[p].out = o
    BY LenProperties, EmptySeq DEF Read, Text
  <1>2. x \in Text
    BY <1>1, ConcatProperties DEF Text
  <1>3. p + l <= n /\ p \in Matches(text, pattern, read[p].from, Len(text))
    BY <1>1 DEF Found, Matches
  <1> HIDE DEF x
  <1>4. ASSUME NEW i \in 1 .. l, i - 1 \in T PROVE i \in T
    <2> DEFINE a == p + (i - 1)
               b == p + i
    <2>1. b \in 1 .. n /\ b - 1 = a /\ a < p + l /\ a \in Nat
      BY <1>1, <1>3
    <2>2. read[b] = ReadByte(read[a], a, pattern, replacement)
      <3> HIDE DEF a, b
      <3> QED BY <2>1 DEF Reading
    <2>3. CASE i = 1
      <3>1. a = p /\ ~ (p < p)
        BY <1>1, <2>3
      <3>2. read[b] = r
        BY <1>1, <1>3, <2>2, <3>1 DEF ReadByte, x
      <3> QED BY <3>2
    <2>4. CASE i # 1
      <3>1. read[a] = r
        <4>1. i - 1 # 0
          BY <2>4
        <4> QED BY <1>4, <4>1
      <3>2. read[b] = r
        <4>1. a < r.from
          BY <2>1
        <4> QED BY <2>2, <3>1, <4>1 DEF ReadByte
      <3> QED BY <3>2
    <2> QED BY <2>3, <2>4
  <1>5. l \in T
    <2>1. 0 \in T
      BY <1>1
    <2> HIDE DEF T
    <2>2. \A i \in 0 .. l : i \in T
      <3> HIDE DEF l
      <3> QED BY <1>1, <1>4, <2>1, UpTo
    <2> HIDE DEF l
    <2> QED BY <1>1, <2>2
  <1>6. read[p + l] = r
    BY <1>1, <1>5
  <1>7. p + l \in 0 .. n
    BY <1>1, <1>3
  <1> QED BY <1>2, <1>6, <1>7 DEF Read, x
\* What is found behind what has been replaced is what is found in the text.
LEMMA FoundBehind ==
  ASSUME text \in Text, NEW pattern \in Text, NEW p \in Nat, p <= Len(text),
         NEW o \in Text, NEW w, w = Replaced(text, 0, p, o), NEW d \in Nat
  PROVE  Len(o) + d \in Matches(w, pattern, Len(o), Len(w)) <=> p + d \in Found(pattern)
  <1> DEFINE n == Len(text)
             l == Len(pattern)
             k == Len(o)
             m == Len(w)
  <1>1. n \in Nat /\ l \in Nat /\ k \in Nat
    BY LenProperties DEF Text
  <1>2. m = k + (n - p)
    <2>1. w = Splice(text, 0, p, o)
      BY ReplacedIsSplice
    <2>2. Fronted(w, text, p, o, Byte)
      BY <2>1, RewrittenFront DEF Text
    <2> QED BY <2>2 DEF Fronted
  <1>3. k + d \in Matches(w, pattern, k, m) <=> k + d + l <= m /\ BytesAt(w, k + d, l) = pattern
    <2> HIDE DEF k, m, l
    <2>1. m \in Nat
      BY <1>1, <1>2 DEF n
    <2>2. k + d \in k .. (m - l) <=> k + d + l <= m
      BY <1>1, <2>1
    <2> QED BY <2>2 DEF Matches, l
  <1>4. p + d \in Found(pattern) <=> p + d + l <= n /\ BytesAt(text, p + d, l) = pattern
    <2> HIDE DEF n, l
    <2>1. p + d \in 0 .. (n - l) <=> p + d + l <= n
      BY <1>1
    <2> QED BY <2>1 DEF Found, Matches, n, l
  <1>5. k + d + l <= m <=> p + d + l <= n
    <2> HIDE DEF k, m, l, n
    <2> QED BY <1>1, <1>2
  <1>6. ASSUME p + d + l <= n PROVE BytesAt(w, k + d, l) = BytesAt(text, p + d, l)
    <2>1. /\ text \in Seq(Byte) /\ o \in Seq(Byte)
          /\ p \in Nat /\ d \in Nat /\ l \in Nat /\ p + d + l <= Len(text)
      BY <1>1, <1>6 DEF Text
    <2>2. w = Splice(text, 0, p, o)
      BY ReplacedIsSplice
    <2> DEFINE b == k + d
               c == p + d
    <2>3. /\ b \in Nat /\ Len(o) <= b /\ c \in Nat /\ c = p + (b - Len(o))
          /\ c + l <= Len(text)
      BY <1>1, <2>1
    <2> HIDE DEF b, c, l, n, m, k
    <2>4. Part(Splice(text, 0, p, o), b, l) = Part(text, c, l)
      BY <2>1, <2>3, RewrittenPart
    <2>5. BytesAt(w, b, l) = BytesAt(text, c, l)
      BY <2>2, <2>4, ReplacedIsSplice
    <2> QED BY <2>5 DEF b, c
  <1> HIDE DEF n, l, k, m
  <1>7. k + d \in Matches(w, pattern, k, m) <=> p + d \in Found(pattern)
    BY <1>3, <1>4, <1>5, <1>6
  <1> QED BY <1>7 DEF k, m

\* r is what replacing has come to when what is before p has become o.
Replaces(r, p, o) == r.text = Replaced(text, 0, p, o) /\ r.from = Len(o)

\* One round of replacing is the reading up to the end of the next match.
LEMMA ReplacingReads ==
  ASSUME text \in Text, NEW pattern \in Text, pattern # <<>>,
         NEW replacement \in Text, replacement # <<>>,
         NEW read, Reading(read, pattern, replacement),
         NEW p, NEW o, Read(read, p, o), NEW r, Replaces(r, p, o),
         NEW e, e = ReplaceMatch(r, pattern, replacement, Greatest(Len(replacement), 1))
  PROVE  \/ e = r /\ \A j \in Nat : j >= p => j \notin Found(pattern)
         \/ \E q, x : p < q /\ Read(read, q, x) /\ Replaces(e, q, x)
  <1> DEFINE w == Replaced(text, 0, p, o)
             k == Len(o)
             l == Len(pattern)
             advance == Greatest(Len(replacement), 1)
             M == Matches(w, pattern, k, Len(w))
  <1>1. /\ p \in Nat /\ p <= Len(text) /\ o \in Text /\ k \in Nat /\ l \in Nat /\ l > 0
        /\ Len(text) \in Nat
    BY LenProperties, EmptySeq DEF Read, Text
  <1>2. advance = Len(replacement) /\ Len(replacement) \in Nat
    <2>1. Len(replacement) \in Nat /\ Len(replacement) > 0
      BY LenProperties, EmptySeq DEF Text
    <2> QED BY <2>1 DEF Greatest
  <1>3. w \in Text /\ Len(w) \in Nat
    <2>1. 0 \in Nat /\ InDocument(text, 0, p)
      BY <1>1 DEF InDocument
    <2>2. w \in Text
      BY <1>1, <2>1, ReplacedType
    <2> QED BY <2>2, LenProperties DEF Text
  <1>4. \A d \in Nat : k + d \in M <=> p + d \in Found(pattern)
    BY <1>1, FoundBehind
  <1>5. e = IF M = {} THEN r
            ELSE [text |-> Replaced(w, First(M), l, replacement),
                  operations |-> Append(r.operations,
                        Operation(w, First(M), l, replacement)),
                  from |-> First(M) + advance]
    BY DEF ReplaceMatch, Replaces
  <1>6. M \in SUBSET Nat /\ \A i \in M : k <= i
    BY <1>1, <1>3 DEF Matches
  <1> HIDE DEF w, k, advance, M
  <1>7. CASE M = {}
    <2>1. ASSUME NEW j \in Nat, j >= p PROVE j \notin Found(pattern)
      <3> DEFINE d == j - p
      <3>1. d \in Nat /\ p + d = j
        BY <1>1, <2>1
      <3> HIDE DEF d
      <3> QED BY <1>4, <1>7, <3>1
    <2> QED BY <1>5, <1>7, <2>1
  <1>8. CASE M # {}
    <2> DEFINE at == First(M)
               d == at - k
               q == p + d
    <2>1. at \in M /\ \A j \in M : at <= j
      <3>1. \E i \in M : \A j \in M : i <= j
        BY <1>6, <1>8, LeastElement
      <3> QED BY <3>1 DEF First
    <2>2. d \in Nat /\ k + d = at /\ at \in Nat /\ q \in Nat /\ p <= q
      <3>1. at \in Nat /\ k <= at
        BY <1>6, <2>1
      <3> HIDE DEF at
      <3> QED BY <1>1, <3>1
    <2>3. q \in Found(pattern)
      <3> HIDE DEF at, d
      <3> QED BY <1>4, <2>1, <2>2
    <2>4. q <= Len(text) /\ q + l <= Len(text)
      BY <1>1, <2>3 DEF Found, Matches
    <2>5. NothingFound(pattern, p, q)
      <3> SUFFICES ASSUME NEW j \in p .. q - 1 PROVE j \notin Found(pattern)
        BY DEF NothingFound
      <3> DEFINE c == j - p
      <3>1. c \in Nat /\ p + c = j /\ c < d /\ k + c < at
        BY <1>1, <2>2
      <3>2. k + c \notin M
        <4> HIDE DEF c, d, at
        <4> QED BY <1>1, <2>1, <2>2, <3>1
      <3> HIDE DEF c
      <3> QED BY <1>4, <3>1, <3>2
    <2> HIDE DEF at, d, q
    <2>6. PICK x : /\ Read(read, q, x) /\ Len(x) = Len(o) + (q - p)
                   /\ Replaced(text, 0, q, x) = Replaced(text, 0, p, o)
      BY <2>2, <2>4, <2>5, ReadingOn
    <2> DEFINE y == x \o replacement
               end == q + l
    <2>7. Read(read, end, y)
      BY <2>3, <2>6, ReadingMatch
    <2>8. Len(x) = at /\ x \in Text
      <3>1. q - p = d
        BY <1>1, <2>2 DEF q
      <3>2. Len(x) = k + d
        BY <2>6, <3>1 DEF k
      <3> QED BY <2>2, <2>6, <3>2 DEF Read
    <2>9. Replaced(w, at, l, replacement) = Replaced(text, 0, end, y)
      <3>1. text \in Seq(Byte) /\ x \in Seq(Byte) /\ replacement \in Seq(Byte)
        BY <2>8 DEF Text
      <3>2. Splice(Splice(text, 0, q, x), Len(x), l, replacement) = Splice(text, 0, end, y)
        <4> HIDE DEF l
        <4> QED BY <1>1, <2>2, <2>4, <3>1, RewrittenNext
      <3>3. w = Splice(text, 0, q, x)
        BY <2>6, ReplacedIsSplice DEF w
      <3> HIDE DEF end, y
      <3> QED BY <2>8, <3>2, <3>3, ReplacedIsSplice
    <2>10. Len(y) = at + advance
      BY <1>2, <2>8, ConcatProperties DEF Text
    <2>11. p < end
      BY <1>1, <2>2
    <2> HIDE DEF y, end
    <2>12. e.text = Replaced(text, 0, end, y) /\ e.from = Len(y)
      BY <1>5, <1>8, <2>9, <2>10 DEF at
    <2> QED BY <2>7, <2>11, <2>12 DEF Replaces
  <1> QED BY <1>7, <1>8

\* So all the rounds are the whole reading: after i of them what is before i has
\* been read, or nothing more is found.
LEMMA ReplacedOnce ==
  ASSUME text \in Text, NEW pattern \in Text, pattern # <<>>,
         NEW replacement \in Text, replacement # <<>>
  PROVE  replacingAll(pattern, replacement).text = everyMatchReplaced(pattern, replacement)
  <1> DEFINE n == Len(text)
             l == Len(pattern)
  <1>1. n \in Nat /\ l \in Nat /\ l > 0
    BY LenProperties, EmptySeq DEF Text
  <1>2. PICK rep : Replacing(rep, pattern, replacement)
    BY AllReplaced
  <1>3. PICK read : Reading(read, pattern, replacement)
    BY ReadingIs
  <1> DEFINE Nothing(p) == \A j \in Nat : j >= p => j \notin Found(pattern)
             Good(i) == \E p, o : /\ Read(read, p, o) /\ Replaces(rep[i], p, o)
                                  /\ i <= p \/ Nothing(p)
             T == {i \in 0 .. n : Good(i)}
  <1>4. Good(0)
    <2> DEFINE none == <<>>
    <2>1. none \in Text /\ Len(none) = 0
      BY DEF Text
    <2>2. Read(read, 0, none)
      <3>1. 0 \in 0 .. Len(text)
        BY <1>1
      <3> QED BY <1>3, <2>1, <3>1 DEF Reading, Read
    <2>3. Replaces(rep[0], 0, none)
      <3>1. rep[0].text = text /\ rep[0].from = 0
        BY <1>2 DEF Replacing
      <3>2. Replaced(text, 0, 0, none) = text
        <4>1. Splice(text, 0, 0, <<>>) = text
          BY <2>1, RewrittenEnds DEF Text
        <4> QED BY <4>1, ReplacedIsSplice
      <3> HIDE DEF none
      <3> QED BY <2>1, <3>1, <3>2 DEF Replaces
    <2> HIDE DEF none, Nothing
    <2> QED BY <2>2, <2>3
  <1>5. ASSUME NEW i \in 1 .. n, Good(i - 1) PROVE Good(i)
    <2>1. PICK p, o : /\ Read(read, p, o) /\ Replaces(rep[i - 1], p, o)
                      /\ i - 1 <= p \/ Nothing(p)
      BY <1>5
    <2>2. p \in Nat /\ i \in Nat
      BY <1>1, <2>1 DEF Read
    <2>3. rep[i] = ReplaceMatch(rep[i - 1], pattern, replacement, Greatest(Len(replacement), 1))
      BY <1>2 DEF Replacing
    <2>4. \/ rep[i] = rep[i - 1] /\ Nothing(p)
          \/ \E q, x : p < q /\ Read(read, q, x) /\ Replaces(rep[i], q, x)
      BY <1>3, <2>1, <2>3, ReplacingReads
    <2>5. CASE rep[i] = rep[i - 1] /\ Nothing(p)
      <3> HIDE DEF Nothing
      <3> QED BY <2>1, <2>5
    <2>6. CASE \E q, x : p < q /\ Read(read, q, x) /\ Replaces(rep[i], q, x)
      <3>1. PICK q, x : p < q /\ Read(read, q, x) /\ Replaces(rep[i], q, x)
        BY <2>6
      <3>2. q \in Nat
        BY <1>1, <3>1 DEF Read
      <3>3. CASE i - 1 <= p
        <4>1. i <= q
          BY <2>2, <3>1, <3>2, <3>3
        <4> QED BY <3>1, <4>1
      <3>4. CASE Nothing(p)
        <4>1. Nothing(q)
          BY <2>2, <3>1, <3>2, <3>4
        <4> HIDE DEF Nothing
        <4> QED BY <3>1, <4>1
      <3> QED BY <2>1, <3>3, <3>4
    <2> QED BY <2>4, <2>5, <2>6
  <1> HIDE DEF Good
  <1>6. Good(n)
    <2>1. 0 \in T /\ \A i \in 1 .. n : i - 1 \in T => i \in T
      <3>1. 0 \in 0 .. n /\ \A i \in 1 .. n : i \in 0 .. n
        BY <1>1
      <3> QED BY <1>4, <1>5, <3>1
    <2> HIDE DEF T
    <2>2. \A i \in 0 .. n : i \in T
      <3> HIDE DEF n
      <3> QED BY <1>1, <2>1, UpTo
    <2> QED BY <1>1, <2>2 DEF T
  <1>7. PICK p, o : /\ Read(read, p, o) /\ Replaces(rep[n], p, o)
                    /\ n <= p \/ Nothing(p)
    BY <1>6 DEF Good
  <1>8. p \in Nat /\ p <= n
    BY <1>1, <1>7 DEF Read
  <1>9. NothingFound(pattern, p, n)
    <2> SUFFICES ASSUME NEW j \in p .. n - 1 PROVE j \notin Found(pattern)
      BY DEF NothingFound
    <2>1. j \in Nat /\ j >= p /\ ~ (n <= p)
      BY <1>1, <1>8
    <2> QED BY <1>7, <2>1
  <1>10. PICK x : /\ Read(read, n, x)
                  /\ Replaced(text, 0, n, x) = Replaced(text, 0, p, o)
    <2>1. n <= Len(text)
      BY <1>1
    <2> QED BY <1>1, <1>3, <1>7, <1>8, <1>9, <2>1, ReadingOn
  <1>11. Replaced(text, 0, n, x) = x /\ read[n].out = x
    <2>1. x \in Seq(Byte) /\ text \in Seq(Byte)
      BY <1>10 DEF Read, Text
    <2>2. Splice(text, 0, Len(text), x) = x
      BY <2>1, RewrittenEnds
    <2> QED BY <1>10, <2>2, ReplacedIsSplice DEF Read
  <1>12. rep[n].text = x
    BY <1>7, <1>10, <1>11 DEF Replaces
  <1> QED BY <1>2, <1>3, <1>11, <1>12 DEF Replacing, Reading

\* Replace All replaces the matches of the text it was called on, each once, and
\* none found in what has been put in, if nothing is replaced by nothing: then
\* the search goes on one byte too far (main.cpp:3071).
THEOREM MatchesReplacedOnce == Spec /\ <<>> \notin Replacements => ReplaceAllIsOnePass
  <1> SUFFICES ASSUME <<>> \notin Replacements PROVE Spec => ReplaceAllIsOnePass
    OBVIOUS
  <1>1. TypeInv
           => [\A pattern \in Patterns, replacement \in Replacements :
                  ReplacesEveryMatch(pattern, replacement)]_vars
    <2> SUFFICES ASSUME TypeInv, NEW pattern \in Patterns, NEW replacement \in Replacements,
                        replaceAllMatches(pattern, replacement)
                 PROVE  text' = everyMatchReplaced(pattern, replacement)
      BY DEF ReplacesEveryMatch
    <2>1. /\ pattern \in Text /\ replacement \in Text /\ text \in Text
          /\ pattern # <<>> /\ replacement # <<>>
      BY Inputs, LinuxEditorAssumption DEF TypeInv
    <2> DEFINE r == replacingAll(pattern, replacement)
               offset == Least(r.from, Greatest(Len(r.text), 1) - 1)
               v == [WithoutPendingDigit(view) EXCEPT
                       !.offset = offset, !.length = Len(replacement),
                       !.anchor = offset]
               e == Record(Here, r.text, v, r.operations)
    <2>2. Become(e)
      BY DEF replaceAllMatches
    <2>3. r.text = everyMatchReplaced(pattern, replacement)
      BY <2>1, ReplacedOnce
    <2>4. e.text = r.text
      <3> HIDE DEF r, v
      <3> QED BY DEF Record, Here
    <2> HIDE DEF e, r
    <2> QED BY <2>2, <2>3, <2>4 DEF Become
  <1> QED BY <1>1, FitsHold, PTL DEF ReplaceAllIsOnePass
=============================================================================
