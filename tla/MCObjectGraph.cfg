CONSTANTS
    Operations = {o1, o2, o3}
    Graphs <- EveryOrder
SPECIFICATION Spec
INVARIANTS
    ComponentsAreStrong
    ChainsInDependencyOrder
CHECK_DEADLOCK FALSE
