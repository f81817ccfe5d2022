SPECIFICATION Spec
CONSTANTS
    o1 = o1
    o2 = o2
    l1 = l1
    l2 = l2
    i1 = i1
    i2 = i2
    i3 = i3
    Orders = {o1}
    Lines = {l1, l2}
    Invoices = {i1, i2}
    Years = {2026}
    OrderOf <- OneOrder
    YearOf <- OneYear
SYMMETRY OneOrderSymmetry
INVARIANTS
    TypeOK
    BilledOrderIsShipped
    BilledLineIsInvoiced
    DeliveryExactlyWhenShipped
    LockedIsIssued
    NoDanglingRows
PROPERTIES
    ShippedIsForever
    StatusChangeRefreshesDelivery
    ReopeningFreesLines
