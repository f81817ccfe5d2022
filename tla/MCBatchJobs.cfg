SPECIFICATION Spec
CONSTANTS
    Jobs = {j1, j2, j3}
    Dates = {d1, d2}
    Keys = {k1, k2, k3}
    Clients = {c1, c2}
    FailedJobs = {j1, j2, j3}
    NoDate = NoDate
    NoKey = NoKey
SYMMETRY Symmetric
INVARIANTS
    TypeOK
    KeyNamesOneJob
    ActiveAtMostClients
PROPERTIES
    FinishedChangesOnlyByStaleRequest
CHECK_DEADLOCK FALSE
