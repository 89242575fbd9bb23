SPECIFICATION Spec
CONSTANTS
    Proc <- Three
    BPQ = 2
    Programs <- OneWayHostRing
INVARIANTS
    TypeOK
    NoLateAccess
    WritesCurrent
    SectionsArrive
PROPERTIES
    AbstractSpec
    Completes
