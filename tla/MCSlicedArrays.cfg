CONSTANTS
    a = a
    b = b
    x = x
    y = y
    d1 = d1
    d2 = d2
    d3 = d3
    Arrays = {a, b}
    Original <- OriginalBytes
    Inserted <- Typed
    Bytes = {x, y}
    MaxTail = 1
    MaxSlice = 4
    Data = {d1, d2, d3}
    File = File
    Nil = Nil
    MaxLength = 3
    MaxData = 2
    MaxObjects = 1
SPECIFICATION Spec
CHECK_DEADLOCK FALSE
SYMMETRY AnyNames
INVARIANTS
    TypeOK
    EditsAreExact
