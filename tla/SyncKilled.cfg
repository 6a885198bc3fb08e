\* One worker process dies: the interrupted sync is not run again.
CONSTANTS
    Run = {r1, r2}
    NoRun = NoRun
    Handler = {q1}
    Doc = {d1}
    NoDoc = NoDoc
    MaxVersion = 1
    Reverts = FALSE
    Fault = {"kill"}
    MaxFaults = 1
    MaxTasks = 2
SPECIFICATION FairSpec
PROPERTIES
    InterruptedResumes
CHECK_DEADLOCK FALSE
