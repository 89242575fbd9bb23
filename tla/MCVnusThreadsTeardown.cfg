SPECIFICATION Spec
CONSTANTS
    N = 2
    Programs <- TwoSignalled
    MaxRounds = 2
INVARIANT TeardownSafe
