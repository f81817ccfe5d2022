SPECIFICATION Spec
CONSTANTS
    o1 = o1
    o2 = o2
    l1 = l1
    l2 = l2
    Orders = {o1, o2}
    Lines = {l1, l2}
    OrderOf <- LinesOfO1
    Clients = {c1}
    Limit = 2
    MaxDay = 2
    MaxDrafts = 1
INVARIANT LineNumberIdentifiesLine
CHECK_DEADLOCK FALSE
