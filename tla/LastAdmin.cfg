\* Two admins, two requests.
CONSTANTS
    User = {u1, u2}
    Group = {g1}
    Request = {t1, t2}
SPECIFICATION Spec
SYMMETRY Symmetry
INVARIANTS
    AdminRemains
CHECK_DEADLOCK FALSE
