SPECIFICATION Spec
CONSTANTS
    N = 4
    Dims <- Square
    Programs <- PassPrograms
INVARIANTS TypeOK OwnVisited Matched Assigned
PROPERTIES Finishes
