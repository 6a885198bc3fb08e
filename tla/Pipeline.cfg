\* One document and its copy; one version has an item the other lacks; two requests, three jobs.
CONSTANTS
    c1 = c1
    c2 = c2
    t1 = t1
    t2 = t2
    Doc = {d1}
    Content = {c1, c2}
    Title = {t1, t2}
    None = None
    Titles <- MCTitles
    Links <- MCLinks
    Imported = c1
    Declares = {c1}
    Request = {r1, r2}
    MaxJobs = 3
SPECIFICATION Spec
SYMMETRY Symmetry
INVARIANTS
    TypeOK
    ItemsBelong
    ItemsFollowContent
PROPERTIES
    ReviewSurvives
    JobsComplete
CHECK_DEADLOCK FALSE
