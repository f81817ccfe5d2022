SPECIFICATION Spec
CONSTANTS
    i1 = i1
    i2 = i2
    l1 = l1
    l2 = l2
    c1 = c1
    c2 = c2
    Clients = {c1, c2}
    Invoices = {i1, i2}
    Lines = {l1, l2}
    ItemsOf <- OneLineEach
    Order = Order
    Sequence = Sequence
    Requests <- SinglesAndBatches
    MaxRequests <- OneAndTwo
INVARIANTS
    TypeOK
    AnsweredNumbersAreUnique
    WaitsAreResolved
PROPERTIES
    UnsyncedOnlyByStaleRequest
    ImplementsRegister
    RequestsShrink
    RequestsEnd
CHECK_DEADLOCK FALSE
