\* Three decisions, so that a circle needs a third link; two requests.
CONSTANTS
    Decision = {d1, d2, d3}
    Risk = {}
    Lesson = {}
    DecisionStatus = {}
    RiskStatus = {"closed"}
    Linkable = {"supersedes"}
    Request = {t1, t2}
    MaxLinks = 3
SPECIFICATION Spec
SYMMETRY Symmetry
INVARIANTS
    TypeOK
    StatusDerived
    WritesFresh
    LinksWellFormed
PROPERTIES
    ChecksSuffice
CHECK_DEADLOCK FALSE
