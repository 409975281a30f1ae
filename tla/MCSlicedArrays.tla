--------------------------- MODULE MCSlicedArrays ---------------------------
(***************************************************************************)
(* A document and another array that shares slices with it.                *)
(***************************************************************************)
EXTENDS SlicedArrays

CONSTANTS a, b, x, y, d1, d2, d3

OriginalBytes == <<y>>
Typed == {<<x>>}

AnyNames == Permutations(Data) \cup Permutations(Arrays)
=============================================================================
