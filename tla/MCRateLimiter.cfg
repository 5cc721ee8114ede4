\* One peer, two limiters, one of them never pruned
CONSTANTS
    Keys = {k1}
    Protocols = {"Ping", "LightClientBootstrap"}
    Quota <- MCQuota
    Tokens = {1, 2, 31}
    MaxNs = 31
    MaxTime = 5
    Absent = Absent
    NoResult = NoResult
SPECIFICATION Spec
\* Time stops at MaxTime; requests and prunes stay enabled
INVARIANTS TypeOK BurstBound
PROPERTIES GcraRefinement
