SPECIFICATION FairSpec
CONSTANTS
    j1 = j1
    j2 = j2
    c1 = c1
    c2 = c2
    Jobs = {j1, j2}
    NoJob = NoJob
    Chains = {c1, c2}
    NoChain = NoChain
    Supported = {c1}
    ChainOf <- MCChainOf
    Plan <- MCPlanAlwaysDue
    Malformed = {j2}
    Faults = {"revert", "shutdown"}
    MaxTime = 2
    MaxOps = 3
    MaxQueue = 3
INVARIANT TypeOK
PROPERTIES
    RegisteredSettles
    DueJobsAreTriggered
