---------------------------- MODULE ExecutionConfig ----------------------------
(* The on-chain execution configuration of a job and the two questions the     *)
(* scheduler asks of it: src/src/domain/job.go and the completion test of      *)
(* src/src/service/scheduler.go. Pure definitions; times are in ticks of the   *)
(* model's clock, and 0 is the Go/Solidity zero value "never".                 *)
EXTENDS Naturals

\* executionLog(account, jobId) as the backend unpacks it; executionData is
\* carried along by the code and never read, so it is left out.
ExecutionConfigs ==
    [interval : Nat, total : Nat, completed : Nat,
     start : Nat, enabled : BOOLEAN, last : Nat]

\* What the contract's mapping returns for a job the dapp has not stored yet:
\* the call succeeds and every field is zero.
UnsetConfig ==
    [interval |-> 0, total |-> 0, completed |-> 0,
     start |-> 0, enabled |-> FALSE, last |-> 0]

\* config.NumberOfExecutionsCompleted >= config.NumberOfExecutions. (Wrong_...
\* definitions, here and in the other modules, are mistakes the definition after
\* them could contain: the properties are shown to notice them.)
Wrong_AllButOneExecuted(config) == config.completed + 1 >= config.total
AllExecuted(config) == config.completed >= config.total

\* The first execution waits for the start date, a later one for a full
\* interval after the last execution. On-chain integers are never nil.
Wrong_DueFromStart(config, now) ==
    config.enabled /\ now >= config.start
Wrong_IgnoresSwitch(config, now) ==
    IF config.last = 0
      THEN now >= config.start
      ELSE now >= config.last + config.interval
IsTimeToExecute(config, now) ==
    /\ config.enabled
    /\ IF config.last = 0
         THEN now >= config.start
         ELSE now >= config.last + config.interval
================================================================================
