SPECIFICATION Spec
CONSTANTS
    N = 3
    Programs <- AllThree
    MaxRounds = 2
INVARIANTS TypeOK InOrder NoLostWakeup
PROPERTIES AbstractSpec Finishes
