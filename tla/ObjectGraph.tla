----------------------------- MODULE ObjectGraph -----------------------------
(***************************************************************************)
(* How a save orders its internal operations (steps 3 to 6 of the strategy *)
(* of framework/sources/HFByteArray_FileWriting.m): HFObjectGraph's        *)
(* strongly connected components (Tarjan), the graph of the components,    *)
(* and its topological sort (framework/sources/HFObjectGraph.m).           *)
(*                                                                         *)
(* A graph is a function from an object to the sequence of its             *)
(* dependencies, in the order in which fast enumeration of the NSSet gives *)
(* them.  The recursive definitions follow the recursive C functions.      *)
(***************************************************************************)
EXTENDS Integers, FiniteSets, SequencesExt

CONSTANTS
    Operations,  \* the internal operations of a save
    Graphs       \* the dependency graphs computeDependencies may produce

ASSUME ObjectGraphAssumption ==
    /\ IsFiniteSet(Operations)
    /\ \A g \in Graphs : DOMAIN g = Operations
            /\ \A op \in Operations : ToSet(g[op]) \subseteq Operations

VARIABLES
    cyclicGraph,   \* dependencies between operations
    internal,      \* the operations, in the order of their targets
    components,    \* stronglyConnectedComponents; a chain is its component
    acyclicGraph,  \* dependencies between chains, by their index
    sortedChains,  \* topologicallySortedChains
    step           \* the next step of the strategy

vars == <<cyclicGraph, internal, components, acyclicGraph, sortedChains, step>>

-----------------------------------------------------------------------------
(* stronglyConnectedComponentsForObjects: *)

magicStartNode == "Magic Start Node"

IndexIn(s, x) == CHOOSE i \in DOMAIN s : s[i] = x

\* The objects on the stack from node upwards are a component; it lists them
\* in the order in which they are popped.
PopComponent(st, node) ==
    LET first == IndexIn(st.stack, node)
    IN  [st EXCEPT !.stack = SubSeq(@, 1, first - 1),
                   !.out = Append(@, Reverse(SubSeq(st.stack, first,
                                                    Len(st.stack))))]

\* Mutant of LowerLink: the link of a node is never lowered.
LowerLinkNever(st, node, link) == st

LowerLink(st, node, link) ==
    IF link < st.low[node] THEN [st EXCEPT !.low[node] = link] ELSE st

\* The state st: vIndexes, vLowlinks, the stack, the next index and the
\* resulting components.
RECURSIVE Tarjan(_, _, _, _)
Tarjan(g, node, dependencies, st) ==
    LET entered == [st EXCEPT !.index = @ @@ (node :> st.next),
                              !.low = @ @@ (node :> st.next),
                              !.stack = Append(@, node),
                              !.next = @ + 1]
        Visit(s, successor) ==
            IF successor \notin DOMAIN s.index
            THEN LET v == Tarjan(g, successor, g[successor], s)
                 IN  LowerLink(v, node, v.low[successor])
            ELSE IF Contains(s.stack, successor)
            THEN LowerLink(s, node, s.index[successor])
            ELSE s
        left == FoldLeft(Visit, entered, dependencies)
    IN  IF left.low[node] = left.index[node]
        THEN PopComponent(left, node)
        ELSE left

\* Mutant of StronglyConnectedComponents: the components the other way round.
ComponentsReversed(g, objects) ==
    LET st == Tarjan(g, magicStartNode, objects,
                     [index |-> <<>>, low |-> <<>>, stack |-> <<>>,
                      next |-> 0, out |-> <<>>])
    IN  Reverse(Front(st.out))

StronglyConnectedComponents(g, objects) ==
    LET st == Tarjan(g, magicStartNode, objects,
                     [index |-> <<>>, low |-> <<>>, stack |-> <<>>,
                      next |-> 0, out |-> <<>>])
    IN  Front(st.out)

-----------------------------------------------------------------------------
(* createAcyclicGraphFromStronglyConnectedComponents.  The loop over the   *)
(* dependencies of an operation looks up the operation's own chain.        *)

ContainingChain(comps, op) ==
    CHOOSE i \in DOMAIN comps : Contains(comps[i], op)

DependencyChain(comps, operation, dependency) ==
    ContainingChain(comps, operation)

AcyclicGraph(g, comps) ==
    [i \in DOMAIN comps |->
        SetToSeq({DependencyChain(comps, operation, dependency) :
                    <<operation, dependency>> \in
                        {p \in Operations \X Operations :
                            /\ Contains(comps[i], p[1])
                            /\ Contains(g[p[1]], p[2])}} \ {i})]

-----------------------------------------------------------------------------
(* topologicallySortObjects: *)

RECURSIVE TopologicallySort(_, _, _)
TopologicallySort(g, object, result) ==
    LET Visit(r, dependency) ==
            IF Contains(r, dependency) THEN r
            ELSE TopologicallySort(g, dependency, r)
    IN  Append(FoldLeft(Visit, result, g[object]), object)

TopologicallySortObjects(g, objects) ==
    FoldLeft(LAMBDA r, object : TopologicallySort(g, object, r), <<>>, objects)

-----------------------------------------------------------------------------
Init ==
    /\ cyclicGraph \in Graphs
    /\ internal \in SetToSeqs(Operations)
    /\ components = <<>> /\ acyclicGraph = <<>> /\ sortedChains = <<>>
    /\ step = 4

FindComponents ==
    /\ step = 4 /\ step' = 5
    /\ components' = StronglyConnectedComponents(cyclicGraph, internal)
    /\ UNCHANGED <<cyclicGraph, internal, acyclicGraph, sortedChains>>

BuildAcyclicGraph ==
    /\ step = 5 /\ step' = 6
    /\ acyclicGraph' = AcyclicGraph(cyclicGraph, components)
    /\ UNCHANGED <<cyclicGraph, internal, components, sortedChains>>

SortChains ==
    /\ step = 6 /\ step' = 7
    /\ sortedChains' = TopologicallySortObjects(acyclicGraph,
                            [i \in 1 .. Len(components) |-> i])
    /\ UNCHANGED <<cyclicGraph, internal, components, acyclicGraph>>

Next == FindComponents \/ BuildAcyclicGraph \/ SortChains

Spec == Init /\ [][Next]_vars

-----------------------------------------------------------------------------
(* Properties *)

Depends(a, b) == Contains(cyclicGraph[a], b)

\* A chain of dependencies leads from a to b.
Reaches(a, b) ==
    \A S \in SUBSET Operations :
        a \in S /\ (\A p \in S, q \in Operations : Depends(p, q) => q \in S)
            => b \in S

\* Two operations are in one component exactly if each depends on the other,
\* directly or through others, and each operation is in one component
\* (verifyEveryObjectInExactlyOneConnectedComponent).
ComponentsAreStrong ==
    step > 4 =>
        /\ \A a, b \in Operations :
            (\E C \in ToSet(components) : Contains(C, a) /\ Contains(C, b))
                <=> Reaches(a, b) /\ Reaches(b, a)
        /\ \A a \in Operations :
            Cardinality({i \in DOMAIN components : Contains(components[i], a)})
                = 1
        /\ \A C \in ToSet(components) : IsInjective(C)

\* Every chain is written once, after the chains it depends on: what step 6
\* relies on, and what module FileWriting assumes of the order.
ChainsInDependencyOrder ==
    step = 7 =>
        /\ Len(sortedChains) = Len(components)
        /\ ToSet(sortedChains) = DOMAIN components
        /\ \A i, j \in DOMAIN sortedChains :
            \A a \in ToSet(components[sortedChains[i]]),
               b \in ToSet(components[sortedChains[j]]) :
                Depends(a, b) => j <= i
=============================================================================
