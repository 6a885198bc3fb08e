\* Every fault, one document, three deliveries: the lock.
CONSTANTS
    Run = {r1, r2, r3}
    NoRun = NoRun
    Handler = {q1}
    Doc = {d1}
    NoDoc = NoDoc
    MaxVersion = 1
    Reverts = FALSE
    Fault = {"kill", "hostloss", "redis", "stall", "db", "api"}
    MaxFaults = 2
    MaxTasks = 3
SPECIFICATION Spec
SYMMETRY Symmetry
INVARIANTS
    TypeOK
    MutualExclusion
PROPERTIES
    HolderKeepsLock
CHECK_DEADLOCK FALSE
