SPECIFICATION Spec
CONSTANTS
    N = 3
    Dims <- Three
    Programs <- PassPrograms
    MaxRounds = 2
INVARIANTS TypeOK Delivered TasksInOrder
PROPERTIES AbstractSpec Finishes
