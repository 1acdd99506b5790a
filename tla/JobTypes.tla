------------------------------- MODULE JobTypes --------------------------------
(* The constants the components share: the jobs of the instance, the chains    *)
(* they live on, what their owners planned, and which failures and             *)
(* interventions can happen.                                                   *)
EXTENDS ExecutionConfig

CONSTANTS
    Jobs,        \* the jobs users may register (one database UUID each)
    NoJob,       \* the value of a job variable that names no job
    Chains,      \* chain ids that occur in registrations
    NoChain,     \* Go's zero chain id, found in records written without one
    Supported,   \* the chains of the switch in BlockchainService.GetClient
    ChainOf,     \* the chain each job is registered for
    Plan,        \* the configuration each owner stores on chain
    Malformed,   \* jobs whose stored user operation ExecuteJob always refuses
    Faults,      \* the failures and interventions this instance allows
    MaxTime,     \* bound on the clock
    MaxOps,      \* bound on the user operations sent for one job
    MaxQueue     \* bound on the length of the Redis list

FaultKinds ==
    { "redis",      \* a Redis command fails without effect
      "get",        \* the GET of isJobInCache fails
      "lostreply",  \* a command takes effect and its reply is lost
      "db",         \* a database statement fails
      "rpc",        \* a contract call of the poller fails
      "lag",        \* a contract call does not show the last execution yet
      "lagswitch",  \* a contract call does not show the owner's last switch yet
      "client",     \* a bundler client cannot be obtained
      "exec",       \* ExecuteJob fails before the operation is sent
      "revert",     \* an operation reverts on chain
      "drop",       \* the bundler forgets an accepted operation
      "crash",      \* the process dies (or exits after the 15 s timeout)
      "shutdown",   \* the process gets SIGTERM and is started again
      "expiry",     \* the 24 h TTL of a cache record elapses
      "early",      \* a job is registered before its configuration is on chain
      "switch",     \* owners switch their jobs off, and on again
      "manual" }    \* cmd/executeJob executes jobs beside the scheduler

ASSUME JobsAssumption == NoJob \notin Jobs
ASSUME ChainsAssumption ==
    /\ NoChain \notin Chains
    /\ Supported \subseteq Chains
    /\ ChainOf \in [Jobs -> Chains]
ASSUME PlanAssumption ==
    /\ Plan \in [Jobs -> ExecutionConfigs]
    /\ \A j \in Jobs : Plan[j].total > 0 /\ Plan[j].completed = 0 /\ Plan[j].last = 0
ASSUME BoundsAssumption ==
    /\ Malformed \subseteq Jobs
    /\ Faults \subseteq FaultKinds
    /\ MaxTime \in Nat
    /\ MaxOps \in Nat
    /\ MaxQueue \in Nat

MayFail(kind) == kind \in Faults
================================================================================
