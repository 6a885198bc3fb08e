\* Two nodes, two requests and transactions, two faults.
CONSTANTS
    NumNodes = 2
    Request = {r1, r2}
    Tx = {x1, x2}
    NoTx = NoTx
    MaxWrites = 1
    MaxFaults = 2
SPECIFICATION Spec
SYMMETRY Symmetry
INVARIANTS
    TypeOK
    RunsOnce
    OnlyLostNodesRefuse
    NothingLeftOpen
PROPERTIES
    Promise
CHECK_DEADLOCK FALSE
