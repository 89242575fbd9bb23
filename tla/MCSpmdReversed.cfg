SPECIFICATION Spec
CONSTANTS
    N = 4
    Dims <- Square
    Programs <- Reversed
INVARIANT OwnVisited
