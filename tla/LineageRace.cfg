\* Two requests link at once.
CONSTANTS
    Decision = {d1, d2, d3}
    Risk = {}
    Lesson = {}
    DecisionStatus = {}
    RiskStatus = {"closed"}
    Linkable = {"supersedes", "reverses"}
    Request = {t1, t2}
    MaxLinks = 3
SPECIFICATION Spec
SYMMETRY Symmetry
INVARIANTS
    LinksSound
CHECK_DEADLOCK FALSE
