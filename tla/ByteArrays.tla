----------------------------- MODULE ByteArrays -----------------------------
(***************************************************************************)
(* The data an in-place save works on: byte arrays made of slices, and the *)
(* file operations HFByteArray(HFileWriting) derives from them             *)
(* (framework/sources/HFByteArray_FileWriting.m).                          *)
(*                                                                         *)
(* A byte array is a record [length, slices].  A slice is a record         *)
(* [at, len, from]: it supplies the bytes at .. at+len-1 of the array, and *)
(* takes them from offset `from' of the file that is about to be saved, or *)
(* from somewhere else (memory, another file) when from = NotInFile, the   *)
(* {ULLONG_MAX, ULLONG_MAX} that sourceRangeForFile: returns.              *)
(***************************************************************************)
EXTENDS Integers, FiniteSets

NotInFile == -1

Slice == [at : Nat, len : Nat \ {0}, from : Nat \cup {NotInFile}]

Target(s) == s.at .. (s.at + s.len - 1)
Source(s) == s.from .. (s.from + s.len - 1)

\* sourceLocationForTargetLocation: and targetLocationForSourceLocation:
SourceOf(s, c) == c - s.at + s.from
TargetOf(s, c) == c - s.from + s.at

IsByteArray(a) ==
    /\ a = [length |-> a.length, slices |-> a.slices]
    /\ a.length \in Nat
    /\ a.slices \subseteq Slice
    /\ IsFiniteSet(a.slices)
    /\ \A s, t \in a.slices : s # t => Target(s) \cap Target(t) = {}
    /\ \A c \in 0 .. (a.length - 1) : \E s \in a.slices : c \in Target(s)
    /\ \A s \in a.slices : Target(s) \subseteq 0 .. (a.length - 1)

\* The slices sourced from the file lie inside it.
SourcesFit(a, fileLength) ==
    \A s \in a.slices : s.from # NotInFile => s.from + s.len <= fileLength

-----------------------------------------------------------------------------
(* Bytes are told apart by where they come from. *)

FileByte(c)   == [origin |-> "file", at |-> c]
MemoryByte(c) == [origin |-> "memory", at |-> c]
ZeroByte      == [origin |-> "zero", at |-> 0]

\* The byte slice s supplies for position c of its array.
SuppliedByte(s, c) ==
    IF s.from = NotInFile THEN MemoryByte(c) ELSE FileByte(SourceOf(s, c))

OriginalFile(fileLength) == [c \in 0 .. (fileLength - 1) |-> FileByte(c)]

\* What the array reads as while the file is unchanged.
Contents(a) ==
    [c \in 0 .. (a.length - 1) |->
        SuppliedByte(CHOOSE s \in a.slices : c \in Target(s), c)]

-----------------------------------------------------------------------------
(* computeFileOperations: each slice is an identity, external or internal  *)
(* operation on the file.                                                  *)

Identity(a) == {s \in a.slices : s.from = s.at}
External(a) == {s \in a.slices : s.from = NotInFile}
Internal(a) == {s \in a.slices : s.from # NotInFile /\ s.from # s.at}

\* computeDependencies: b is a dependency of a, b must be read before a is
\* written, when a's target range covers a part of b's source range.
DependsOn(a, b) == Source(b) \cap Target(a) # {}

\* Mutant of ModifiedBySaving: the truncated tail is not announced.
ModifiedBySavingNoTail(a, fileLength) ==
    UNION {Target(s) : s \in External(a) \cup Internal(a)}

\* rangesOfFileModifiedIfSavedToFile:, as a set of file positions.
ModifiedBySaving(a, fileLength) ==
    (UNION {Target(s) : s \in External(a) \cup Internal(a)})
        \cup (a.length .. (fileLength - 1))
=============================================================================
