----------------------------- MODULE JobScheduler ------------------------------
(* JobScheduler (src/src/service/scheduler.go) with its two goroutines, the    *)
(* poller and the executor, on top of the Redis cache and queue, the jobs      *)
(* table, the chain and the process that hosts them.                           *)
(*                                                                             *)
(* A step of a goroutine is the code between two operations another actor can  *)
(* observe: one Redis, database or RPC call with the local code that follows   *)
(* it. A loop over a Go slice or map is a set of jobs still to be treated,     *)
(* taken in any order.                                                         *)
EXTENDS JobCache, JobStore, Blockchain

VARIABLES
    \* the poller: pollJobLogic
    pc,        \* the stage of the poll it is in
    todo,      \* jobs the loop of this stage has still to treat
    group,     \* receipt check: jobs of the chain being checked
    seen,      \* the snapshot a GetJobCachesByStatus returned
    active,    \* the jobs GetActiveJobs returned
    config,    \* the execution configs fetched for them
    picked,    \* jobsToExecute
    cur,       \* the job between two calls of one loop iteration
    \* the executor: processJobs and executeJobLogic
    epc, ejob, \* its stage and the job it dequeued
    ehash,     \* the hash ExecuteJob returned, ZeroHash for an error
    \* the process
    cancelled  \* js.ctx is done

pollerVars   == <<pc, todo, group, seen, active, config, picked, cur>>
executorVars == <<epc, ejob, ehash>>
vars == <<cacheVars, storeVars, chainVars, pollerVars, executorVars, cancelled>>

Stages == { "idle", "receipts", "readFailed", "syncFailed", "delFailed",
            "readCompleted", "syncCompleted", "delCompleted", "loadActive",
            "fetch", "filter", "complete", "enqueue", "push", "cleanup" }

NoSnapshot == [j \in Jobs |-> NoRecord]
NoConfigs  == [j \in Jobs |-> UnsetConfig]

\* Every Redis command is given js.ctx: once it is cancelled the client refuses
\* to send, and before that it may fail by itself.
RedisUp    == ~cancelled
RedisFails == cancelled \/ MayFail("redis")
ReplyLost  == ~cancelled /\ MayFail("lostreply")

--------------------------------------------------------------------------------
(* The poller, stage 1: checkReceiptsForPendingJobs.                           *)

Snapshot(status) ==
    [j \in Jobs |-> IF cache[j].status = status THEN cache[j] ELSE NoRecord]

ReadPending ==
    /\ pc = "idle"
    /\ \/ /\ RedisUp
          /\ pc' = "receipts"
          /\ todo' = JobCachesByStatus("pending")
          /\ seen' = Snapshot("pending")
       \/ /\ RedisFails
          /\ pc' = "readFailed"
          /\ UNCHANGED <<todo, seen>>
    /\ UNCHANGED <<cacheVars, storeVars, chainVars, executorVars, cancelled,
                   group, active, config, picked, cur>>

\* checkReceiptsForChain: without a bundler client the whole chain is skipped.
CheckChain ==
    /\ pc = "receipts" /\ group = {} /\ todo # {}
    /\ \E c \in {seen[j].chain : j \in todo} :
         LET jobs == {j \in todo : seen[j].chain = c} IN
         /\ todo' = todo \ jobs
         /\ \/ HasBundlerClient(c) /\ group' = jobs
            \/ (~HasBundlerClient(c) \/ MayFail("client")) /\ UNCHANGED group
    /\ UNCHANGED <<cacheVars, storeVars, chainVars, executorVars, cancelled,
                   pc, seen, active, config, picked, cur>>

\* checkSingleJobReceipt: a verdict is the cache write that the snapshot's hash
\* and the receipt call for; the record is not read again.
Wrong_ZeroHashWaits(j) ==
    IF seen[j].hash # ZeroHash /\ Receipt(j, seen[j].hash) = "success"
      THEN DeleteJobCache(j) ELSE UNCHANGED cache
Verdict(j) ==
    \/ seen[j].hash = ZeroHash /\ SetJobStatusFailed(j, "emptyhash")
    \/ /\ seen[j].hash # ZeroHash
       /\ LET receipt == Receipt(j, seen[j].hash) IN
            \/ receipt = "success"  /\ DeleteJobCache(j)
            \/ receipt = "reverted" /\ SetJobStatusFailed(j, "onchain")
            \/ receipt = "nil"      /\ UNCHANGED cache

CheckReceipt ==
    /\ pc = "receipts"
    /\ \E j \in group :
         /\ group' = group \ {j}
         /\ \/ RedisUp /\ Verdict(j)
            \/ (RedisFails \/ MayFail("rpc")) /\ UNCHANGED cache
    /\ UNCHANGED <<queue, storeVars, chainVars, executorVars, cancelled,
                   pc, todo, seen, active, config, picked, cur>>

ReceiptsDone ==
    /\ pc = "receipts" /\ todo = {} /\ group = {}
    /\ pc' = "readFailed"
    /\ seen' = NoSnapshot
    /\ UNCHANGED <<cacheVars, storeVars, chainVars, executorVars, cancelled,
                   todo, group, active, config, picked, cur>>

--------------------------------------------------------------------------------
(* Stage 2: syncCacheToDatabase, the failed records first, then the completed. *)

ReadStage(status)   == IF status = "failed" THEN "readFailed" ELSE "readCompleted"
SyncStage(status)   == IF status = "failed" THEN "syncFailed" ELSE "syncCompleted"
DeleteStage(status) == IF status = "failed" THEN "delFailed" ELSE "delCompleted"
AfterSync(status)   == IF status = "failed" THEN "readCompleted" ELSE "loadActive"

ReadForSync(status) ==
    /\ pc = ReadStage(status)
    /\ \/ /\ RedisUp
          /\ pc' = SyncStage(status)
          /\ todo' = JobCachesByStatus(status)
          /\ seen' = Snapshot(status)
       \/ /\ RedisFails
          /\ pc' = AfterSync(status)
          /\ UNCHANGED <<todo, seen>>
    /\ UNCHANGED <<cacheVars, storeVars, chainVars, executorVars, cancelled,
                   group, active, config, picked, cur>>

\* convertCacheStatusToDBStatus, for the two statuses it is called with.
ConvertCacheStatusToDBStatus(status) == status

\* syncJobsToDatabase, first half: the row; on an error the record stays cached.
SyncRow(status) ==
    /\ pc = SyncStage(status)
    /\ \E j \in todo :
         /\ todo' = todo \ {j}
         /\ \/ /\ UpdateJobStatus(j, ConvertCacheStatusToDBStatus(status), seen[j].reason)
               /\ \/ pc' = DeleteStage(status) /\ cur' = j
                  \/ MayFail("lostreply") /\ UNCHANGED <<pc, cur>>
            \/ MayFail("db") /\ UNCHANGED <<storeVars, pc, cur>>
    /\ UNCHANGED <<cacheVars, chainVars, executorVars, cancelled,
                   group, seen, active, config, picked>>

\* Second half: the record is deleted, or stays for the next poll to sync again.
SyncDelete(status) ==
    /\ pc = DeleteStage(status)
    /\ \/ RedisUp /\ DeleteJobCache(cur)
       \/ RedisFails /\ UNCHANGED cache
    /\ pc' = SyncStage(status)
    /\ cur' = NoJob
    /\ UNCHANGED <<queue, storeVars, chainVars, executorVars, cancelled,
                   todo, group, seen, active, config, picked>>

SyncDone(status) ==
    /\ pc = SyncStage(status) /\ todo = {}
    /\ pc' = AfterSync(status)
    /\ seen' = NoSnapshot
    /\ UNCHANGED <<cacheVars, storeVars, chainVars, executorVars, cancelled,
                   todo, group, active, config, picked, cur>>

--------------------------------------------------------------------------------
(* Stages 3 and 4: GetActiveJobs and fetchExecutionConfigsAndFilterJobs.       *)

\* The early returns of pollJobLogic: the goroutine waits for the next tick.
EndPoll ==
    /\ pc' = "idle"
    /\ todo' = {} /\ active' = {} /\ picked' = {}
    /\ config' = NoConfigs

LoadActive ==
    /\ pc = "loadActive"
    /\ \/ /\ ActiveJobs # {}
          /\ pc' = "fetch"
          /\ active' = ActiveJobs
          /\ todo' = ActiveJobs
          /\ UNCHANGED <<config, picked>>
       \/ (ActiveJobs = {} \/ MayFail("db")) /\ EndPoll
    /\ UNCHANGED <<cacheVars, storeVars, chainVars, executorVars, cancelled,
                   group, seen, cur>>

\* GetExecutionConfigsBatch: one eth_call per job, not under js.ctx; the first
\* error, an unsupported chain among them, discards the whole batch.
FetchConfig ==
    /\ pc = "fetch"
    /\ \E j \in todo :
         \/ /\ HasClient(ChainOf[j])
            /\ \E read \in ReadableLogs(j) : config' = [config EXCEPT ![j] = read]
            /\ todo' = todo \ {j}
            /\ UNCHANGED <<pc, active, picked>>
         \/ (~HasClient(ChainOf[j]) \/ MayFail("rpc")) /\ EndPoll
    /\ UNCHANGED <<cacheVars, storeVars, chainVars, executorVars, cancelled,
                   group, seen, cur>>

FetchDone ==
    /\ pc = "fetch" /\ todo = {}
    /\ pc' = "filter"
    /\ todo' = active
    /\ active' = {}
    /\ UNCHANGED <<cacheVars, storeVars, chainVars, executorVars, cancelled,
                   group, seen, config, picked, cur>>

\* isJobInCache: what the GET may say. Any error counts as "not in cache".
Wrong_NeverInCache(j) == {FALSE}
Wrong_AlwaysInCache(j) == {TRUE}
IsJobInCache(j) ==
    {found \in BOOLEAN : \/ RedisUp /\ found = IsCached(j)
                         \/ (cancelled \/ MayFail("get")) /\ ~found}

\* One iteration of the filter loop, up to the SET of a completed job.
FilterJob ==
    /\ pc = "filter"
    /\ \E j \in todo :
         /\ todo' = todo \ {j}
         /\ \/ TRUE \in IsJobInCache(j) /\ UNCHANGED <<pc, picked, cur>>
            \/ /\ FALSE \in IsJobInCache(j)
               /\ AllExecuted(config[j])
               /\ pc' = "complete" /\ cur' = j
               /\ UNCHANGED picked
            \/ /\ FALSE \in IsJobInCache(j)
               /\ ~AllExecuted(config[j])
               /\ picked' = picked \cup {i \in {j} : IsTimeToExecute(config[i], now)}
               /\ UNCHANGED <<pc, cur>>
    /\ UNCHANGED <<cacheVars, storeVars, chainVars, executorVars, cancelled,
                   group, seen, active, config>>

MarkCompleted ==
    /\ pc = "complete"
    /\ \/ RedisUp /\ SetJobStatus(cur, "completed", "none")
       \/ RedisFails /\ UNCHANGED cache
    /\ pc' = "filter"
    /\ cur' = NoJob
    /\ UNCHANGED <<queue, storeVars, chainVars, executorVars, cancelled,
                   todo, group, seen, active, config, picked>>

FilterDone ==
    /\ pc = "filter" /\ todo = {}
    /\ IF picked = {}
         THEN EndPoll
         ELSE /\ pc' = "enqueue"
              /\ todo' = picked /\ picked' = {}
              /\ config' = NoConfigs
              /\ UNCHANGED active
    /\ UNCHANGED <<cacheVars, storeVars, chainVars, executorVars, cancelled,
                   group, seen, cur>>

--------------------------------------------------------------------------------
(* Stage 5: the enqueue loop, the record before the queue entry.               *)

AddToCache ==
    /\ pc = "enqueue"
    /\ \E j \in todo :
         /\ todo' = todo \ {j}
         /\ \/ RedisUp /\ AddJobCache(j) /\ pc' = "push" /\ cur' = j
            \/ ReplyLost /\ AddJobCache(j) /\ UNCHANGED <<pc, cur>>
            \/ RedisFails /\ UNCHANGED <<cache, pc, cur>>
    /\ UNCHANGED <<queue, storeVars, chainVars, executorVars, cancelled,
                   group, seen, active, config, picked>>

Push ==
    /\ pc = "push"
    /\ \/ RedisUp /\ EnqueueJob(cur) /\ pc' = "enqueue" /\ cur' = NoJob
       \/ ReplyLost /\ EnqueueJob(cur) /\ pc' = "cleanup" /\ UNCHANGED cur
       \/ RedisFails /\ pc' = "cleanup" /\ UNCHANGED <<queue, cur>>
    /\ UNCHANGED <<cache, storeVars, chainVars, executorVars, cancelled,
                   todo, group, seen, active, config, picked>>

\* "If enqueue fails, remove from cache to maintain consistency".
Cleanup ==
    /\ pc = "cleanup"
    /\ \/ RedisUp /\ DeleteJobCache(cur)
       \/ RedisFails /\ UNCHANGED cache
    /\ pc' = "enqueue"
    /\ cur' = NoJob
    /\ UNCHANGED <<queue, storeVars, chainVars, executorVars, cancelled,
                   todo, group, seen, active, config, picked>>

EnqueueDone ==
    /\ pc = "enqueue" /\ todo = {}
    /\ EndPoll
    /\ UNCHANGED <<cacheVars, storeVars, chainVars, executorVars, cancelled,
                   group, seen, cur>>

PollerStep ==
    \/ ReadPending \/ CheckChain \/ CheckReceipt \/ ReceiptsDone
    \/ \E status \in {"failed", "completed"} :
         ReadForSync(status) \/ SyncRow(status) \/ SyncDelete(status) \/ SyncDone(status)
    \/ LoadActive \/ FetchConfig \/ FetchDone
    \/ FilterJob \/ MarkCompleted \/ FilterDone
    \/ AddToCache \/ Push \/ Cleanup \/ EnqueueDone

--------------------------------------------------------------------------------
(* The executor: processJobs and executeJobLogic.                              *)

\* BRPOP; a timeout or an error leaves the loop where it is. A lost reply loses
\* the element.
Dequeue ==
    /\ epc = "idle" /\ ~cancelled
    /\ \E j \in Jobs :
         /\ DequeueJob(j)
         /\ \/ epc' = "exec" /\ ejob' = j
            \/ MayFail("lostreply") /\ UNCHANGED <<epc, ejob>>
    /\ UNCHANGED <<cache, storeVars, chainVars, pollerVars, cancelled, ehash>>

\* ExecuteJob: a chain of checks and RPC calls that change nothing, each of
\* which may end it with an error, and at its end the operation is sent. A
\* cancelled context makes the RPC calls fail, and may abort the last one after
\* the bundler has accepted the operation.
Executable(j) ==
    HasBundlerClient(ChainOf[j]) /\ HasClient(ChainOf[j]) /\ WellFormed(j)

ExecuteFails ==
    /\ epc = "exec"
    /\ ~Executable(ejob) \/ cancelled \/ MayFail("exec")
    /\ epc' = "report"
    /\ UNCHANGED <<cacheVars, storeVars, chainVars, pollerVars, cancelled, ejob, ehash>>

ExecuteSends ==
    /\ epc = "exec"
    /\ Executable(ejob)
    /\ SendUserOperation(ejob)
    /\ epc' = "report"
    /\ \/ ~cancelled /\ ehash' = Len(ops[ejob]) + 1
       \/ (cancelled \/ MayFail("lostreply")) /\ UNCHANGED ehash
    /\ UNCHANGED <<cacheVars, storeVars, log, now, pollerVars, cancelled, ejob>>

\* executeJobLogic, after ExecuteJob: the record becomes failed, or gets the
\* hash. A missing record is an error of UpdateJobCacheUserOpHash, only logged.
Report ==
    /\ epc = "report"
    /\ \/ RedisUp /\ ehash = ZeroHash /\ SetJobStatusFailed(ejob, "exec")
       \/ RedisUp /\ ehash # ZeroHash /\ UpdateJobCacheUserOpHash(ejob, ehash)
       \/ (RedisFails \/ (ehash # ZeroHash /\ ~IsCached(ejob))) /\ UNCHANGED cache
    /\ epc' = "idle" /\ ejob' = NoJob /\ ehash' = ZeroHash
    /\ UNCHANGED <<queue, storeVars, chainVars, pollerVars, cancelled>>

ExecutorStep == Dequeue \/ ExecuteFails \/ ExecuteSends \/ Report

--------------------------------------------------------------------------------
(* The users, the chain, Redis' clock and the process.                         *)

Register ==
    /\ \E j \in Jobs :
         /\ log[j] # UnsetConfig \/ MayFail("early")
         /\ CreateJob(j)
    /\ UNCHANGED <<cacheVars, chainVars, pollerVars, executorVars, cancelled>>

ChainStep ==
    /\ \/ Tick
       \/ \E j \in Jobs :
            \/ ConfigureOnChain(j) \/ SwitchJob(j)
            \/ dbStatus[j] # "unregistered" /\ Executable(j) /\ ExecuteBeside(j)
            \/ \E k \in 1 .. MaxOps : IncludeOp(j, k) \/ RevertOp(j, k) \/ DropOp(j, k)
    /\ UNCHANGED <<cacheVars, storeVars, pollerVars, executorVars, cancelled>>

Expire ==
    /\ MayFail("expiry")
    /\ \E j \in Jobs : ExpireRecord(j)
    /\ UNCHANGED <<queue, storeVars, chainVars, pollerVars, executorVars, cancelled>>

\* SIGTERM: rootCancel, and RunPollingWorker calls Stop.
Cancel ==
    /\ MayFail("shutdown") /\ ~cancelled
    /\ cancelled' = TRUE
    /\ UNCHANGED <<cacheVars, storeVars, chainVars, pollerVars, executorVars>>

\* The goroutines of a new process: Start, with nothing but Redis, Postgres and
\* the chain left of the old one.
FreshProcess ==
    /\ pc' = "idle" /\ todo' = {} /\ group' = {} /\ seen' = NoSnapshot
    /\ active' = {} /\ config' = NoConfigs /\ picked' = {} /\ cur' = NoJob
    /\ epc' = "idle" /\ ejob' = NoJob /\ ehash' = ZeroHash
    /\ cancelled' = FALSE

\* Both goroutines have seen js.ctx done and returned; the service starts again.
Restart ==
    /\ cancelled /\ pc = "idle" /\ epc = "idle"
    /\ FreshProcess
    /\ UNCHANGED <<cacheVars, storeVars, chainVars>>

\* The process dies anywhere, as main also does 15 s after the signal.
Crash ==
    /\ MayFail("crash")
    /\ FreshProcess
    /\ UNCHANGED <<cacheVars, storeVars, chainVars>>

Init ==
    /\ cache = NoSnapshot /\ queue = <<>>
    /\ dbStatus = [j \in Jobs |-> "unregistered"]
    /\ dbReason = [j \in Jobs |-> "none"]
    /\ log = NoConfigs /\ now = 1 /\ ops = [j \in Jobs |-> <<>>]
    /\ pc = "idle" /\ todo = {} /\ group = {} /\ seen = NoSnapshot
    /\ active = {} /\ config = NoConfigs /\ picked = {} /\ cur = NoJob
    /\ epc = "idle" /\ ejob = NoJob /\ ehash = ZeroHash
    /\ cancelled = FALSE

Next ==
    \/ PollerStep
    \/ ExecutorStep
    \/ Register \/ ChainStep \/ Expire
    \/ Cancel \/ Restart \/ Crash

Spec == Init /\ [][Next]_vars

\* The Go scheduler runs both goroutines, every call they make returns in the end,
\* the ticker fires again after every poll, a stopped service is started again,
\* time passes, and the bundler gets an accepted operation mined. Nothing is
\* assumed of the users. That calls return is an assumption about the nodes: the
\* contexts have no deadline (ExecutionService and Application do without it).
Fairness ==
    /\ WF_vars(PollerStep)
    /\ WF_vars(ExecutorStep)
    /\ WF_vars(Restart)
    /\ WF_vars(ChainStep /\ Tick)
    /\ \A j \in Jobs : \A k \in 1 .. MaxOps : WF_vars(ChainStep /\ IncludeOp(j, k))

FairSpec == Spec /\ Fairness
================================================================================
