SPECIFICATION Spec
CONSTANTS
    i1 = i1
    k1 = k1
    k2 = k2
    Invoices = {i1}
    ItemsOf <- OneInvoice
    WeightOf <- Weights
    Quantities = {1, 3}
    Prices = {10, 24}
    Costs = {20}
    Settings <- TwoSettings
    Clients = {c1, c2}
    Null = Null
    MaxCommits = 2


PROPERTIES
    FinalizedIsFrozen
CHECK_DEADLOCK FALSE
