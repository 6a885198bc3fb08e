\* Hosts are lost but Redis and the event loop are not: documents, redelivery, display.
CONSTANTS
    Run = {r1, r2}
    NoRun = NoRun
    Handler = {q1, q2}
    Doc = {d1}
    NoDoc = NoDoc
    MaxVersion = 2
    Reverts = FALSE
    Fault = {"hostloss"}
    MaxFaults = 1
    MaxTasks = 2
SPECIFICATION FairSpec
INVARIANTS
    NeverAlongside
    OkMeansStored
PROPERTIES
    NoRegress
    InterruptedResumes
    LockIsFreed
    FollowsLifecycle
CHECK_DEADLOCK FALSE
