\* Two accounts, two requests at once beside the clean-up.
CONSTANTS
    User = {u1, u2}
    Group = {g1}
    Request = {t1, t2}
SPECIFICATION Spec
SYMMETRY Symmetry
INVARIANTS
    TypeOK
    OneFounder
    OneLeader
PROPERTIES
    RequestsSuffice
    RunSuffices
CHECK_DEADLOCK FALSE
