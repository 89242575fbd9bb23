SPECIFICATION Spec
CONSTANTS
    N = 3
    Dims <- Three
    Programs <- WithinOnMpi
    MaxRounds = 2
INVARIANT SizesFirst
