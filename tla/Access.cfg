SPECIFICATION Spec
CONSTANTS
    Operators = {boot, o1}
    Bootstrap = boot
    Requests = {r1, r2}
    MaxSessions = 2
SYMMETRY Symmetry
INVARIANTS
    TypeOK
    AdminRemains
