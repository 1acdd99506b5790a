------------------------------ MODULE Blockchain -------------------------------
(* The world the backend talks to and does not control: the contract's         *)
(* executionLog, the wall clock, and the ERC-4337 bundler with the user        *)
(* operations it was given. Modelled from what the code in src/ sends and      *)
(* reads back (GetExecutionConfigsBatch, SendUserOperation,                    *)
(* GetUserOperationReceipt).                                                   *)
EXTENDS JobTypes, Sequences

VARIABLES
    log,   \* log[j]: executionLog[account][onChainJobId] of job j
    now,   \* the clock, shared by the backend and the chain
    ops    \* ops[j]: the operations accepted for j, in order; hash k is ops[j][k]

chainVars == <<log, now, ops>>

\* GetClient and GetBundlerClient know the chains of one and the same switch; a
\* client they made once comes from the pool.
HasClient(c) == c \in Supported
HasBundlerClient(c) == c \in Supported

OpStatuses == {"pending", "success", "reverted", "dropped"}

\* The dapp stores the owner's configuration.
ConfigureOnChain(j) ==
    /\ log[j] = UnsetConfig
    /\ log' = [log EXCEPT ![j] = Plan[j]]
    /\ UNCHANGED <<now, ops>>

\* The owner switches the job off, or on again: isEnabled.
SwitchedLog(config) == [config EXCEPT !.enabled = ~@]
SwitchJob(j) ==
    /\ MayFail("switch")
    /\ log[j] # UnsetConfig
    /\ log' = [log EXCEPT ![j] = SwitchedLog(@)]
    /\ UNCHANGED <<now, ops>>

Tick ==
    /\ now < MaxTime
    /\ now' = now + 1
    /\ UNCHANGED <<log, ops>>

\* What a call of the contract may return: the present log or, from a node that
\* lags behind the bundler, the log before the last execution or the last switch.
LogBefore(config, t) == [[config EXCEPT !.completed = @ - 1] EXCEPT !.last = t]
ReadableLogs(j) ==
    {log[j]} \cup
    {config \in {LogBefore(log[j], t) : t \in 0 .. now} :
        MayFail("lag") /\ log[j].completed > 0} \cup
    {config \in {SwitchedLog(log[j])} :
        MayFail("lagswitch") /\ log[j] # UnsetConfig}

\* What ExecuteJob asks of the stored operation: a nonce with a key in front of
\* its 8-byte sequence, and a signature that ends in the dummy signature.
WellFormed(j) == j \notin Malformed

\* The bundler accepts an operation: eth_sendUserOperation.
SendUserOperation(j) ==
    /\ Len(ops[j]) < MaxOps
    /\ ops' = [ops EXCEPT ![j] = Append(@, "pending")]

\* The contract counts an execution and remembers when it was.
Executed(config) == [[config EXCEPT !.completed = @ + 1] EXCEPT !.last = now]

\* A bundle with the operation is mined: the execution is recorded in the log.
IncludeOp(j, k) ==
    /\ k \in 1 .. Len(ops[j]) /\ ops[j][k] = "pending"
    /\ ops' = [ops EXCEPT ![j] = [@ EXCEPT ![k] = "success"]]
    /\ log' = [log EXCEPT ![j] = Executed(log[j])]
    /\ UNCHANGED now

\* It is mined but its call reverts: the log is as before.
RevertOp(j, k) ==
    /\ MayFail("revert")
    /\ k \in 1 .. Len(ops[j]) /\ ops[j][k] = "pending"
    /\ ops' = [ops EXCEPT ![j] = [@ EXCEPT ![k] = "reverted"]]
    /\ UNCHANGED <<log, now>>

\* The bundler drops it from its pool: there will never be a receipt.
DropOp(j, k) ==
    /\ MayFail("drop")
    /\ k \in 1 .. Len(ops[j]) /\ ops[j][k] = "pending"
    /\ ops' = [ops EXCEPT ![j] = [@ EXCEPT ![k] = "dropped"]]
    /\ UNCHANGED <<log, now>>

\* cmd/executeJob has executed the job, which it takes from its row whatever the
\* log says of it: an operation of its own is mined. It had the job's nonce key,
\* so one of the scheduler's that was pending has lost its sequence number. (One
\* that reverts, or is pushed out itself, leaves at most that: DropOp.)
WithoutPending(outcomes) ==
    [k \in 1 .. Len(outcomes) |->
        IF outcomes[k] = "pending" THEN "dropped" ELSE outcomes[k]]
ExecuteBeside(j) ==
    /\ MayFail("manual")
    /\ log[j] # UnsetConfig /\ log[j].completed < MaxOps
    /\ log' = [log EXCEPT ![j] = Executed(log[j])]
    /\ ops' = [ops EXCEPT ![j] = WithoutPending(@)]
    /\ UNCHANGED now

\* eth_getUserOperationReceipt: nil until the operation is mined.
Wrong_NilIsSuccess(j, hash) ==
    IF ops[j][hash] = "reverted" THEN "reverted" ELSE "success"
Wrong_NilIsRevert(j, hash) ==
    IF ops[j][hash] = "success" THEN "success" ELSE "reverted"
Receipt(j, hash) ==
    IF ops[j][hash] \in {"success", "reverted"} THEN ops[j][hash] ELSE "nil"
================================================================================
