---------------------------- MODULE MCObjectGraph ----------------------------
EXTENDS ObjectGraph

\* Every set of dependencies in every order it may be enumerated in.
EveryOrder ==
    [Operations -> UNION {SetToSeqs(S) : S \in SUBSET Operations}]
=============================================================================
