SPECIFICATION FairSpec
CONSTANTS
    Runs = {r1, r2}
    Bindings = {b1}
    NoRun = NoRun
    MaxFaults = 3
    SlowStart = FALSE
INVARIANTS TypeOK NotedAdvisorKeepsWorkspace OneAdvisorPerBinding AcceptedWasIntact
PROPERTIES LeftoverReclaimed
CHECK_DEADLOCK FALSE
