--------------------------- MODULE MCFileWriting ---------------------------
(* Arrays of up to MaxSlices slices, for files of up to MaxFile bytes. *)
EXTENDS FileWriting

CONSTANTS MaxFile, MaxArray, MaxSlices

\* The offsets at which the slices of an array of length n may begin.
Starts(n) ==
    {S \in SUBSET (0 .. (n - 1)) :
        Cardinality(S) <= MaxSlices /\ (n > 0 => 0 \in S)}

SliceEnd(S, at, n) ==
    IF \E t \in S : t > at
    THEN CHOOSE t \in S : t > at /\ \A u \in S : u > at => t <= u
    ELSE n

MCArrays ==
    UNION {{[length |-> n,
             slices |-> {[at |-> at, len |-> SliceEnd(S, at, n) - at,
                          from |-> f[at]] : at \in S}] :
                f \in [S -> {NotInFile} \cup (0 .. (MaxFile - 1))]} :
           <<n, S>> \in UNION {{m} \X Starts(m) : m \in 0 .. MaxArray}}

MCFileLengths == 0 .. MaxFile
=============================================================================
