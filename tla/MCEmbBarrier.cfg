SPECIFICATION Spec
CONSTANTS
    N = 4
    MaxRounds = 3
INVARIANTS
    TypeOK
    Separates
PROPERTIES
    Returns
    AbstractSpec
\* The system stops after MaxRounds barriers.
CHECK_DEADLOCK FALSE
