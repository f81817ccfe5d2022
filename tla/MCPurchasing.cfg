SPECIFICATION Spec
CONSTANTS
    Lines = {l1}
    Allocations = {1, 2, 3}
    Results = {r1, r2}
    Suppliers = {s1}
    Quantities = {1, 2}
    Ordered = 2
    Days = {1}
    Clients = {c1, c2}
    Null = Null
    MaxCommits = 2
SYMMETRY ClientSymmetry
INVARIANTS
    TypeOK
PROPERTIES
    OverbuyIsStale
    LineHasOnePlan
    DanglingSupplierIsUnchecked
CHECK_DEADLOCK FALSE
