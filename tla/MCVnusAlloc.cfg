SPECIFICATION Spec
CONSTANTS
    a = a
    b = b
    c = c
    Block = {a, b, c}
    Sizes = {1, 3}
    OVERHEAD = 1
    EMERGENCY_SIZE = 3
    MIN_MAXMEM = 2
    CollectPart = 2
    Arrays = TRUE
    Totals = {10}
    Limits = {0, 8, 14}
    Settings <- Start
    Capacity = 6
    Word = 21
SYMMETRY Perms
INVARIANTS TypeOK AccountsExact EmergencyServed LimitsOrdered
