SPECIFICATION Spec
CONSTANTS
    a = a
    b = b
    c = c
    d = d
    Obj = {a, b, c, d}
    StackSize = 1
    MaxFields = 3
    MaxMutations = 3
    Heaps <- Starts
INVARIANTS
    TypeOK
    NoDangling
    MarksExact
PROPERTIES
    AbstractSpec
    CollectReturns
