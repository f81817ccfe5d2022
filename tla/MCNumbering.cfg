SPECIFICATION Spec
CONSTANTS
    o1 = o1
    o2 = o2
    l1 = l1
    l2 = l2
    i1 = i1
    i2 = i2
    i3 = i3
    Orders = {o1, o2}
    Lines = {l1, l2}
    Invoices = {i1, i2, i3}
    Years = {2025, 2026}
    OrderOf <- TwoOrders
    YearOf <- TwoYears
SYMMETRY TwoOrdersSymmetry
INVARIANTS
    NumbersAreUnique
    NumbersHaveNoGap
PROPERTIES
    ImplementsLedger
    BillingStaysInOneOrder
