SPECIFICATION Spec
CONSTANTS
    i1 = i1
    i2 = i2
    l1 = l1
    l2 = l2
    c1 = c1
    c2 = c2
    Clients = {c1, c2}
    Invoices = {i1}
    Lines = {l1}
    ItemsOf <- OneLine
    Order = Order
    Sequence = Sequence
    Requests <- Finalizes
    MaxRequests <- OneEach
PROPERTIES
    NoRenumbering
CHECK_DEADLOCK FALSE
