SPECIFICATION FairSpec
CONSTANTS
    poller = poller
    executor = executor
    Workers <- MCWorkers
    Poller = poller
    Executor = executor
    Chains = {c1}
    MaxClients = 4
    NumRequests = 2
    Environments = {"dev"}
INVARIANTS
    TypeOK
    NoOrphanClient
    OwnLoggerOnTop
    ConnectionsOutliveUsers
    GracefulLeavesNothingOpen
    OnlySchedulerTimesOut
PROPERTY SignalEndsProcess
CHECK_DEADLOCK FALSE
