----------------------------- MODULE JobPlanProofs -----------------------------
(* Machine-checked proofs that the scheduler keeps to the owner's plan: a       *)
(* completed row has had all its executions, an operation is sent only when the *)
(* plan has one left and its time has come, and not once its job is off.        *)
EXTENDS JobOutcomeProofs, JobSwitch

--------------------------------------------------------------------------------
(* What single steps do to the on-chain logs and to the jobs of the service.    *)

\* Switching a job changes isEnabled and nothing else of its log.
LEMMA SwitchedKeeps ==
    ASSUME NEW c \in ExecutionConfigs
    PROVE  /\ SwitchedLog(c).interval = c.interval /\ SwitchedLog(c).total = c.total
           /\ SwitchedLog(c).completed = c.completed /\ SwitchedLog(c).start = c.start
           /\ SwitchedLog(c).last = c.last
           /\ SwitchedLog(SwitchedLog(c)) = c
<1>1. c.enabled \in BOOLEAN
  BY DEF ExecutionConfigs
<1>2. SwitchedLog(SwitchedLog(c)) = [c EXCEPT !.enabled = ~~c.enabled]
  BY DEF SwitchedLog, ExecutionConfigs
<1>3. ~~c.enabled = c.enabled
  BY <1>1
<1>4. [c EXCEPT !.enabled = c.enabled] = c
  BY DEF ExecutionConfigs
<1> QED BY <1>2, <1>3, <1>4 DEF SwitchedLog, ExecutionConfigs

\* A step stores the plan of a job that has none, switches one that has, counts an
\* execution of it (of an operation of the scheduler, or beside it), or leaves its
\* log alone.
LEMMA LogStep ==
    ASSUME TypeOK, [Next]_vars, NEW j \in Jobs
    PROVE  \/ log'[j] = log[j]
           \/ log[j] = UnsetConfig /\ log'[j] = Plan[j] /\ UNCHANGED <<ops, now>>
           \/ log[j] # UnsetConfig /\ log'[j] = SwitchedLog(log[j]) /\ UNCHANGED <<ops, now>>
           \/ /\ log'[j] = Executed(log[j]) /\ now' = now /\ Len(ops'[j]) = Len(ops[j])
              /\ \/ MayFail("manual") /\ log[j] # UnsetConfig
                 \/ ops[j] # <<>> /\ \E k \in 1 .. Len(ops[j]) : ops[j][k] = "pending"
<1> USE DEF TypeOK
<1>1. CASE ChainStep
  <2>1. CASE Tick
    BY <2>1 DEF Tick
  <2>2. ASSUME NEW i \in Jobs, ConfigureOnChain(i)
        PROVE  log'[j] = log[j] \/ (log[j] = UnsetConfig /\ log'[j] = Plan[j] /\ UNCHANGED <<ops, now>>)
    BY <2>2 DEF ConfigureOnChain
  <2>3. ASSUME NEW i \in Jobs, NEW k \in 1 .. MaxOps, IncludeOp(i, k)
        PROVE  \/ log'[j] = log[j]
               \/ /\ ops[j] # <<>> /\ log'[j] = Executed(log[j]) /\ now' = now
                  /\ Len(ops'[j]) = Len(ops[j])
                  /\ \E l \in 1 .. Len(ops[j]) : ops[j][l] = "pending"
    <3>1. CASE i # j
      BY <2>3, <3>1 DEF IncludeOp
    <3>2. CASE i = j
      <4>1. /\ k \in 1 .. Len(ops[j]) /\ ops[j][k] = "pending" /\ now' = now
            /\ ops'[j] = [ops[j] EXCEPT ![k] = "success"] /\ log'[j] = Executed(log[j])
        BY <2>3, <3>2 DEF IncludeOp
      <4>2. ops[j] # <<>> /\ Len(ops'[j]) = Len(ops[j])
        BY <4>1
      <4> QED BY <4>1, <4>2
    <3> QED BY <3>1, <3>2
  <2>4. ASSUME NEW i \in Jobs, NEW k \in 1 .. MaxOps, RevertOp(i, k) \/ DropOp(i, k)
        PROVE  log'[j] = log[j]
    BY <2>4 DEF RevertOp, DropOp
  <2>5. ASSUME NEW i \in Jobs, SwitchJob(i)
        PROVE  \/ log'[j] = log[j]
               \/ log[j] # UnsetConfig /\ log'[j] = SwitchedLog(log[j]) /\ UNCHANGED <<ops, now>>
    BY <2>5 DEF SwitchJob
  <2>6. ASSUME NEW i \in Jobs, ExecuteBeside(i)
        PROVE  \/ log'[j] = log[j]
               \/ /\ MayFail("manual") /\ log[j] # UnsetConfig /\ log'[j] = Executed(log[j])
                  /\ now' = now /\ Len(ops'[j]) = Len(ops[j])
    <3>1. CASE i # j
      BY <2>6, <3>1 DEF ExecuteBeside
    <3>2. CASE i = j
      <4>1. ops[j] \in Seq(OpStatuses) /\ ops'[j] = WithoutPending(ops[j])
        BY <2>6, <3>2 DEF ExecuteBeside
      <4> QED BY <2>6, <3>2, <4>1, WithoutPendingType DEF ExecuteBeside
    <3> QED BY <3>1, <3>2
  <2> QED BY <1>1, <2>1, <2>2, <2>3, <2>4, <2>5, <2>6 DEF ChainStep
<1>2. CASE ~ChainStep
  <2>1. UNCHANGED log
    BY <1>2, PollerOnly
       DEF Next, ExecutorStep, Dequeue, ExecuteFails, ExecuteSends, Report, Register, Expire,
           Cancel, Restart, Crash, vars, chainVars
  <2> QED BY <2>1
<1> QED BY <1>1, <1>2

\* A contract read never claims more executions than there were.
LEMMA ReadableCounts ==
    ASSUME NEW j \in Jobs, log[j] \in ExecutionConfigs, NEW read \in ReadableLogs(j)
    PROVE  read.total = log[j].total /\ read.completed <= log[j].completed
<1>1. log[j].completed \in Nat /\ log[j].completed - 1 <= log[j].completed
      /\ log[j].completed <= log[j].completed
  BY DEF ExecutionConfigs
<1>2. CASE read = log[j]
  BY <1>1, <1>2
<1>3. ASSUME NEW t \in 0 .. now, read = LogBefore(log[j], t)
      PROVE  read.total = log[j].total /\ read.completed <= log[j].completed
  <2>1. read.total = log[j].total /\ read.completed = log[j].completed - 1
    BY <1>3 DEF LogBefore, ExecutionConfigs
  <2> QED BY <1>1, <2>1
<1>4. CASE read = SwitchedLog(log[j])
  BY <1>1, <1>4, SwitchedKeeps
<1> QED BY <1>2, <1>3, <1>4 DEF ReadableLogs

\* A configured log stays configured and never loses an execution.
LEMMA LogGrows ==
    ASSUME TypeOK, [Next]_vars, NEW j \in Jobs, Configured(j)
    PROVE  Configured(j)' /\ log'[j].completed >= log[j].completed
<1>1. log[j] \in ExecutionConfigs /\ Plan[j].total > 0 /\ UnsetConfig.total = 0
      /\ Plan \in [Jobs -> ExecutionConfigs]
  BY PlanAssumption DEF TypeOK, UnsetConfig
<1>2. Executed(log[j]).total = log[j].total /\ Executed(log[j]).completed = log[j].completed + 1
  BY <1>1 DEF Executed, ExecutionConfigs
<1>3. CASE log'[j] = Executed(log[j])
  BY <1>1, <1>2, <1>3 DEF Configured, ExecutionConfigs
<1>4. CASE log'[j] = log[j]
  BY <1>1, <1>4 DEF Configured, ExecutionConfigs
<1>5. log[j] # UnsetConfig
  BY <1>1 DEF Configured, ExecutionConfigs
<1>6. CASE log'[j] = SwitchedLog(log[j])
  BY <1>1, <1>6, SwitchedKeeps DEF Configured, ExecutionConfigs
<1> QED BY <1>3, <1>4, <1>5, <1>6, LogStep

\* The service gets to know a job by its registration alone, which comes after
\* its configuration.
LEMMA KnownStep ==
    ASSUME RegisteredLate, TypeOK, [Next]_vars, NEW j \in Jobs, Known(j)'
    PROVE  Known(j) \/ log[j] # UnsetConfig
<1> USE DEF pollerVars, executorVars, cacheVars, storeVars, chainVars
<1>types. /\ todo \subseteq Jobs /\ active \subseteq Jobs /\ picked \subseteq Jobs
          /\ (pc \in CurStages => cur \in Jobs) /\ (epc # "idle" => ejob \in Jobs)
          /\ CurStages = {"delFailed", "delCompleted", "complete", "push", "cleanup"}
          /\ DispatchStages = {"fetch", "filter", "complete", "enqueue", "push", "cleanup"}
          /\ dbStatus \in [Jobs -> DBStatuses]
  BY DEF TypeOK, CurStages, DispatchStages
<1>1. Held(j)' => Known(j)
  BY HeldByPush DEF Known
<1>2. ops'[j] # <<>> => Known(j)
  <2>1. CASE ops'[j] = ops[j]
    BY <2>1 DEF Known
  <2>2. CASE ExecuteSends /\ j = ejob
    BY <2>2 DEF ExecuteSends, Known, Held
  <2>3. CASE Decided(j)
    <3>1. ops[j] \in Seq(OpStatuses) /\ ops'[j] \in Seq(OpStatuses) /\ Len(ops'[j]) = Len(ops[j])
      BY <2>3, TypeNext DEF Decided, TypeOK
    <3> QED BY <3>1 DEF Known
  <2> QED BY OpsStep, <2>1, <2>2, <2>3
<1>3. dbStatus'[j] = "queuing" => Known(j) \/ log[j] # UnsetConfig
  <2>1. CASE Register
    BY <2>1 DEF Register, CreateJob, RegisteredLate, MayFail, Known
  <2>2. CASE ~Register
    <3>1. dbStatus'[j] = dbStatus[j] \/ dbStatus'[j] \in {"failed", "completed"}
      BY <2>2, <1>types
         DEF Next, PollerStep, ReadPending, CheckChain, CheckReceipt, ReceiptsDone, ReadForSync,
             SyncRow, UpdateJobStatus, ConvertCacheStatusToDBStatus, SyncDelete, SyncDone,
             LoadActive, FetchConfig, FetchDone, FilterJob, MarkCompleted, FilterDone,
             AddToCache, Push, Cleanup, EnqueueDone, ExecutorStep, Dequeue, ExecuteFails,
             ExecuteSends, Report, ChainStep, Expire, Cancel, Restart, Crash, vars
    <3> QED BY <3>1 DEF Known
  <2> QED BY <2>1, <2>2
<1>4. ASSUME \/ j \in active' \cup picked'
             \/ pc' \in DispatchStages /\ j \in todo'
             \/ pc' \in {"complete", "push", "cleanup"} /\ j = cur'
      PROVE  Known(j)
  <2>1. CASE PollerStep
    BY <1>4, <1>types, <2>1
       DEF PollerStep, ReadPending, CheckChain, CheckReceipt, ReceiptsDone, ReadForSync,
           SyncRow, SyncDelete, SyncDone, LoadActive, FetchConfig, FetchDone, FilterJob,
           MarkCompleted, FilterDone, AddToCache, Push, Cleanup, EnqueueDone, EndPoll,
           ReadStage, SyncStage, DeleteStage, AfterSync, ActiveJobs, Known
  <2>2. CASE ~PollerStep
    BY <1>4, <1>types, <2>2
       DEF Next, ExecutorStep, Dequeue, ExecuteFails, ExecuteSends, Report, Register,
           ChainStep, Expire, Cancel, Restart, Crash, FreshProcess, vars, Known
  <2> QED BY <2>1, <2>2
<1> QED BY <1>1, <1>2, <1>3, <1>4 DEF Known

--------------------------------------------------------------------------------
(* Completion is earned.                                                        *)

\* Nothing is completed at the start.
LEMMA EarnedInit == Init => EarnedInv
BY DEF Init, EarnedInv, Known, Held, Queued, NoSnapshot, NoRecord, NoConfigs

\* Every step keeps completion earned, whatever fails.
LEMMA EarnedNext ==
    ASSUME RegisteredLate, TypeOK, EarnedInv, [Next]_vars
    PROVE  EarnedInv'
<1> USE DEF pollerVars, executorVars, cacheVars, storeVars, chainVars
<1>types. /\ todo \subseteq Jobs /\ active \subseteq Jobs /\ picked \subseteq Jobs
          /\ cache \in [Jobs -> JobCaches] /\ config \in [Jobs -> ExecutionConfigs]
          /\ dbStatus \in [Jobs -> DBStatuses]
          /\ log \in [Jobs -> ExecutionConfigs] /\ log' \in [Jobs -> ExecutionConfigs]
          /\ (pc \in CurStages => cur \in Jobs)
          /\ CurStages = {"delFailed", "delCompleted", "complete", "push", "cleanup"}
          /\ DispatchStages = {"fetch", "filter", "complete", "enqueue", "push", "cleanup"}
          /\ todo' \subseteq Jobs /\ active' \subseteq Jobs
  BY TypeNext DEF TypeOK, CurStages, DispatchStages
<1>plan. \A j \in Jobs : Plan[j] \in ExecutionConfigs /\ Plan[j].total \in Nat
  BY PlanAssumption DEF ExecutionConfigs
<1>counts. \A c \in ExecutionConfigs : c.completed \in Nat /\ c.total \in Nat
  BY DEF ExecutionConfigs
<1>grows. \A j \in Jobs : Configured(j) => Configured(j)' /\ log'[j].completed >= log[j].completed
  BY LogGrows
<1>earned. \A j \in Jobs : Earned(j) => Earned(j)'
  BY <1>types, <1>plan, <1>counts, <1>grows DEF Earned
<1>1. \A j \in Jobs : log'[j] = UnsetConfig \/ Configured(j)'
  <2> SUFFICES ASSUME NEW j \in Jobs PROVE log'[j] = UnsetConfig \/ Configured(j)'  OBVIOUS
  <2>1. CASE log'[j] = log[j]
    BY <2>1, <1>grows DEF EarnedInv
  <2>2. CASE log'[j] = Plan[j]
    BY <2>2 DEF Configured
  <2>3. CASE ops[j] # <<>> \/ log[j] # UnsetConfig
    BY <2>3, <1>grows DEF EarnedInv, Known
  <2> QED BY LogStep, <2>1, <2>2, <2>3
<1>2. \A j \in Jobs : Known(j)' => Configured(j)'
  BY KnownStep, <1>grows DEF EarnedInv
<1>3. \A j \in Jobs : cache'[j].status = "completed" => Earned(j)'
  <2>1. \A j \in Jobs :
          cache'[j].status # "completed" \/ cache'[j].status = cache[j].status
            \/ (pc = "complete" /\ j = cur)
    <3>1. CASE CheckReceipt
      BY <3>1, <1>types
         DEF CheckReceipt, Verdict, SetJobStatusFailed, SetJobStatus, DeleteJobCache, NoRecord
    <3>2. CASE Report
      BY <3>2, ReportWrites
    <3>3. CASE Expire
      BY <3>3, <1>types DEF Expire, ExpireRecord, NoRecord
    <3>4. CASE PollerStep /\ ~CheckReceipt
      <4>1. \/ UNCHANGED cache
            \/ pc = "complete" /\ SetJobStatus(cur, "completed", "none")
            \/ \E i \in Jobs : AddJobCache(i) \/ DeleteJobCache(i)
        BY <3>4, <1>types
           DEF PollerStep, ReadPending, CheckChain, ReceiptsDone, ReadForSync, SyncRow, SyncDelete,
               SyncDone, LoadActive, FetchConfig, FetchDone, FilterJob, MarkCompleted, FilterDone,
               AddToCache, Push, Cleanup, EnqueueDone, DeleteStage
      <4> QED BY <1>types, <4>1 DEF SetJobStatus, DeleteJobCache, AddJobCache, NoRecord
    <3>5. CASE Dequeue \/ ExecuteFails \/ ExecuteSends \/ Register \/ ChainStep \/ Cancel
               \/ Restart \/ Crash \/ UNCHANGED vars
      BY <3>5 DEF Dequeue, ExecuteFails, ExecuteSends, Register, ChainStep, Cancel, Restart,
                  Crash, vars
    <3> QED BY <3>1, <3>2, <3>3, <3>4, <3>5 DEF Next, ExecutorStep
  <2> QED BY <2>1, <1>earned DEF EarnedInv
<1>4. \A j \in Jobs : dbStatus'[j] = "completed" => Earned(j)'
  <2>1. \A j \in Jobs :
          dbStatus'[j] # "completed" \/ dbStatus'[j] = dbStatus[j]
            \/ (pc = "syncCompleted" /\ j \in todo)
    BY <1>types
       DEF Next, PollerStep, ReadPending, CheckChain, CheckReceipt, ReceiptsDone, ReadForSync,
           SyncRow, UpdateJobStatus, ConvertCacheStatusToDBStatus, SyncStage, SyncDelete, SyncDone,
           LoadActive, FetchConfig, FetchDone, FilterJob, MarkCompleted, FilterDone,
           AddToCache, Push, Cleanup, EnqueueDone, ExecutorStep, Dequeue, ExecuteFails,
           ExecuteSends, Report, Register, CreateJob, ChainStep, Expire, Cancel, Restart, Crash, vars
  <2> QED BY <2>1, <1>earned DEF EarnedInv
<1> DEFINE FetchedBelow == pc' \in {"fetch", "filter", "complete"} =>
                     \A j \in (active' \cup todo') \ (IF pc' = "fetch" THEN todo' ELSE {}) :
                       config'[j].total = Plan[j].total /\ config'[j].completed <= log'[j].completed
           Marked  == \A j \in Jobs : pc' = "complete" /\ j = cur' => Earned(j)'
           Read    == pc' \in {"syncCompleted", "delCompleted"} =>
             \A j \in todo' : Earned(j)'
<1>5. ASSUME PollerStep PROVE FetchedBelow /\ Marked /\ Read
  <2>log. log' = log
    BY <1>5, PollerOnly
  <2>1. CASE FetchConfig
    <3>1. Marked /\ Read
      BY <2>1 DEF FetchConfig, EndPoll
    <3>2. ASSUME pc' = "fetch", NEW j \in active' \ todo'
          PROVE  config'[j].total = Plan[j].total /\ config'[j].completed <= log'[j].completed
      <4>1. PICK i \in todo :
              /\ \E read \in ReadableLogs(i) : config' = [config EXCEPT ![i] = read]
              /\ todo' = todo \ {i} /\ active' = active /\ pc = "fetch"
        BY <2>1, <3>2 DEF FetchConfig, EndPoll
      <4>2. PICK read \in ReadableLogs(i) : config' = [config EXCEPT ![i] = read]
        BY <4>1
      <4>3. CASE j = i
        <5>1. log[i] \in ExecutionConfigs /\ Configured(i)
          BY <1>types, <4>1 DEF EarnedInv, Known
        <5>2. read.total = log[i].total /\ read.completed <= log[i].completed
          BY <1>types, <4>1, <4>2, <5>1, ReadableCounts
        <5> QED BY <1>types, <2>log, <4>1, <4>2, <4>3, <5>1, <5>2 DEF Configured
      <4>4. CASE j # i
        BY <1>types, <2>log, <3>2, <4>1, <4>2, <4>4 DEF EarnedInv
      <4> QED BY <4>3, <4>4
    <3>3. pc' \in {"fetch", "idle"}
      BY <2>1 DEF FetchConfig, EndPoll
    <3> QED BY <3>1, <3>2, <3>3
  <2>2. CASE LoadActive \/ FetchDone \/ MarkCompleted
    <3>1. Marked /\ Read
      BY <2>2 DEF LoadActive, FetchDone, MarkCompleted, EndPoll
    <3>2. FetchedBelow
      BY <1>types, <2>2, <2>log DEF LoadActive, FetchDone, MarkCompleted, EndPoll, EarnedInv
    <3> QED BY <3>1, <3>2
  <2>3. CASE FilterJob
    <3>1. FetchedBelow /\ Read
      BY <1>types, <2>3, <2>log DEF FilterJob, EarnedInv
    <3>2. Marked
      <4> SUFFICES ASSUME NEW j \in Jobs, pc' = "complete", j = cur' PROVE Earned(j)'  OBVIOUS
      <4>1. j \in todo /\ pc = "filter" /\ AllExecuted(config[j])
        BY <2>3 DEF FilterJob
      <4>2. config[j].total = Plan[j].total /\ config[j].completed <= log[j].completed
            /\ Configured(j)
        BY <1>types, <4>1 DEF EarnedInv, Known
      <4>3. log[j].completed >= Plan[j].total
        BY <1>types, <1>plan, <1>counts, <4>1, <4>2 DEF AllExecuted
      <4> QED BY <1>earned, <4>2, <4>3 DEF Earned
    <3> QED BY <3>1, <3>2
  <2>4. ASSUME NEW status \in {"failed", "completed"},
               ReadForSync(status) \/ SyncRow(status) \/ SyncDelete(status) \/ SyncDone(status)
        PROVE  FetchedBelow /\ Marked /\ Read
    <3>1. pc' \notin {"fetch", "filter", "complete"}
      BY <2>4 DEF ReadForSync, SyncRow, SyncDelete, SyncDone, SyncStage, DeleteStage, AfterSync
    <3>2. Read
      BY <1>types, <1>earned, <2>4
         DEF ReadForSync, SyncRow, SyncDelete, SyncDone, ReadStage, SyncStage, DeleteStage,
             AfterSync, JobCachesByStatus, EarnedInv
    <3> QED BY <3>1, <3>2
  <2>5. CASE \/ ReadPending \/ CheckChain \/ CheckReceipt \/ ReceiptsDone \/ FilterDone
             \/ AddToCache \/ Push \/ Cleanup \/ EnqueueDone
    BY <2>5 DEF ReadPending, CheckChain, CheckReceipt, ReceiptsDone, FilterDone, AddToCache,
                Push, Cleanup, EnqueueDone, EndPoll
  <2> QED BY <1>5, <2>1, <2>2, <2>3, <2>4, <2>5 DEF PollerStep
<1>6. ASSUME ~PollerStep PROVE FetchedBelow /\ Marked /\ Read
  <2>1. UNCHANGED pollerVars \/ pc' = "idle"
    BY <1>6
       DEF Next, ExecutorStep, Dequeue, ExecuteFails, ExecuteSends, Report, Register,
           ChainStep, Expire, Cancel, Restart, Crash, FreshProcess, vars
  <2>2. CASE UNCHANGED pollerVars
    <3>1. FetchedBelow
      <4> SUFFICES ASSUME pc \in {"fetch", "filter", "complete"},
                          NEW j \in (active \cup todo) \ (IF pc = "fetch" THEN todo ELSE {})
                   PROVE  config[j].total = Plan[j].total /\ config[j].completed <= log'[j].completed
        BY <2>2
      <4>1. j \in Jobs /\ Known(j)
        BY <1>types DEF Known
      <4>2. log'[j].completed >= log[j].completed
        BY <4>1, <1>grows DEF EarnedInv
      <4> QED BY <1>types, <1>counts, <4>1, <4>2 DEF EarnedInv
    <3>2. Marked /\ Read
      BY <1>types, <1>earned, <2>2 DEF EarnedInv
    <3> QED BY <3>1, <3>2
  <2> QED BY <2>1, <2>2
<1>7. pc' = "complete" => cur' \in Jobs
  BY TypeNext DEF TypeOK, CurStages
<1> QED BY <1>types, <1>1, <1>2, <1>3, <1>4, <1>5, <1>6, <1>7 DEF EarnedInv, Earned, Configured

\* A completed row means that all executions the owner planned have happened, when
\* jobs are registered only after their configuration is on chain; every other
\* failure of the environment is allowed.
THEOREM CompletedIsEarnedHolds ==
    ASSUME RegisteredLate
    PROVE  Spec => []CompletedIsEarned
<1>1. TypeOK /\ EarnedInv /\ [Next]_vars => (TypeOK /\ EarnedInv)'
  BY TypeNext, EarnedNext
<1>2. TypeOK /\ EarnedInv => CompletedIsEarned
  <2> SUFFICES ASSUME TypeOK, EarnedInv, NEW j \in Jobs, dbStatus[j] = "completed"
               PROVE  log[j] # UnsetConfig /\ log[j].completed >= Plan[j].total
    BY DEF CompletedIsEarned
  <2>1. log[j].total = Plan[j].total /\ log[j].completed >= Plan[j].total
    BY DEF EarnedInv, Earned, Configured
  <2> QED BY <2>1, PlanAssumption DEF UnsetConfig, ExecutionConfigs
<1> QED BY TypeInit, EarnedInit, <1>1, <1>2, PTL DEF Spec

--------------------------------------------------------------------------------
(* Operations are sent only when due.                                           *)

\* Nothing is due at the start.
LEMMA PlanInit == Init => PlanInv
BY DEF Init, PlanInv, LogInv, ReadConfigs, Fetched, PickedIsDue, Waiting, Queued, NoConfigs

\* The clock does not go back.
LEMMA ClockStep ==
    ASSUME TypeOK, [Next]_vars
    PROVE  now' \in Nat /\ now' >= now
<1>1. CASE ChainStep
  BY <1>1 DEF TypeOK, ChainStep, Tick, ConfigureOnChain, SwitchJob, ExecuteBeside, IncludeOp,
              RevertOp, DropOp
<1>2. CASE ~ChainStep
  <2>1. UNCHANGED now
    BY <1>2, PollerOnly
       DEF Next, ExecutorStep, Dequeue, ExecuteFails, ExecuteSends, Report, Register, Expire,
           Cancel, Restart, Crash, vars, chainVars
  <2> QED BY <2>1 DEF TypeOK
<1> QED BY <1>1, <1>2

\* The unset configuration follows no plan, and calls for nothing, on or off.
LEMMA UnsetIsNoPlan ==
    /\ UnsetConfig \in ExecutionConfigs
    /\ \A j \in Jobs : log[j] = UnsetConfig => ~FollowsPlan(j)
    /\ AllExecuted(UnsetConfig)
BY PlanAssumption DEF FollowsPlan, UnsetConfig, AllExecuted, ExecutionConfigs

\* A stored plan is followed, and switching it or counting an execution of the
\* scheduler keeps to it.
LEMMA LogKept ==
    ASSUME NobodyBeside, TypeOK, LogInv, [Next]_vars, NEW j \in Jobs
    PROVE  /\ FollowsPlan(j) => FollowsPlan(j)'
           /\ log'[j] = UnsetConfig \/ FollowsPlan(j)'
<1>1. /\ Plan[j] \in ExecutionConfigs /\ Plan[j].completed = 0 /\ Plan[j].last = 0
      /\ log[j] \in ExecutionConfigs /\ now \in Nat /\ now > 0
      /\ ~MayFail("manual")
  BY PlanAssumption DEF TypeOK, LogInv, NobodyBeside, MayFail
<1>2. CASE log'[j] = log[j]
  BY <1>2 DEF LogInv, FollowsPlan
<1>3. CASE log[j] = UnsetConfig /\ log'[j] = Plan[j]
  BY <1>1, <1>3, UnsetIsNoPlan DEF FollowsPlan, ExecutionConfigs
<1>4. CASE ops[j] # <<>> /\ log'[j] = Executed(log[j])
  <2>1. FollowsPlan(j) /\ now >= Plan[j].start
    BY <1>4 DEF LogInv
  <2>2. /\ log'[j].completed = log[j].completed + 1 /\ log'[j].last = now
        /\ log'[j].interval = log[j].interval /\ log'[j].total = log[j].total
        /\ log'[j].start = log[j].start
    BY <1>1, <1>4 DEF Executed, ExecutionConfigs
  <2>3. log[j].completed + 1 # 0
    BY <1>1 DEF ExecutionConfigs
  <2> QED BY <1>1, <2>1, <2>2, <2>3 DEF FollowsPlan
<1>5. CASE log[j] # UnsetConfig /\ log'[j] = SwitchedLog(log[j])
  BY <1>1, <1>5, SwitchedKeeps DEF LogInv, FollowsPlan
<1> QED BY <1>1, LogStep, <1>2, <1>3, <1>4, <1>5

\* A due job of which nothing is undecided on the chain stays due, also when its
\* owner switches it.
LEMMA DueStays ==
    ASSUME NobodyBeside, TypeOK, LogInv, [Next]_vars, NEW j \in Jobs, AllOpsSucceeded(j), Due(j)
    PROVE  Due(j)'
<1>1. log'[j] = log[j] \/ log'[j] = SwitchedLog(log[j])
  BY LogStep, UnsetIsNoPlan DEF AllOpsSucceeded, Due, NobodyBeside, MayFail
<1>2. now \in Nat /\ now' \in Nat /\ now' >= now /\ log[j] \in ExecutionConfigs
  BY ClockStep DEF TypeOK
<1>3. /\ log'[j].interval = log[j].interval /\ log'[j].total = log[j].total
      /\ log'[j].completed = log[j].completed /\ log'[j].start = log[j].start
      /\ log'[j].last = log[j].last
  BY <1>1, <1>2, SwitchedKeeps
<1>4. TimeHasCome(log[j])'
  BY <1>2, <1>3 DEF Due, TimeHasCome, ExecutionConfigs
<1> QED BY <1>3, <1>4 DEF Due, FollowsPlan, AllExecuted

\* While the poller fetches and filters, no record is deleted.
LEMMA RecordsStay ==
    ASSUME ReliableCache, TypeOK, [Next]_vars, pc \in {"fetch", "filter", "complete"},
           NEW j \in Jobs, IsCached(j), pc' # "idle"
    PROVE  IsCached(j)'
<1> USE DEF pollerVars, executorVars, cacheVars, storeVars, chainVars
<1>types. cache \in [Jobs -> JobCaches] /\ ~MayFail("expiry")
  BY DEF TypeOK, ReliableCache, MayFail
<1>1. CASE PollerStep
  <2>1. CASE MarkCompleted
    BY <1>types, <2>1 DEF MarkCompleted, SetJobStatus, IsCached
  <2>2. CASE FetchConfig \/ FetchDone \/ FilterJob \/ FilterDone
    BY <2>2 DEF FetchConfig, FetchDone, FilterJob, FilterDone, IsCached
  <2>3. ASSUME NEW status \in {"failed", "completed"}
        PROVE  ~(ReadForSync(status) \/ SyncRow(status) \/ SyncDelete(status) \/ SyncDone(status))
    BY DEF ReadForSync, SyncRow, SyncDelete, SyncDone, ReadStage, SyncStage, DeleteStage
  <2> QED
    BY <1>1, <2>1, <2>2, <2>3
       DEF PollerStep, ReadPending, CheckChain, CheckReceipt, ReceiptsDone, LoadActive,
           AddToCache, Push, Cleanup, EnqueueDone
<1>2. CASE Report
  BY <1>2, ReportWrites DEF IsCached
<1>3. CASE Dequeue \/ ExecuteFails \/ ExecuteSends \/ Register \/ ChainStep \/ Expire \/ Cancel
           \/ Restart \/ Crash \/ UNCHANGED vars
  BY <1>3, <1>types
     DEF Dequeue, ExecuteFails, ExecuteSends, Register, ChainStep, Expire, Cancel, Restart,
         Crash, vars, IsCached
<1> QED BY <1>1, <1>2, <1>3 DEF Next, ExecutorStep

\* A configuration the poll has read was read before this step, or is read by it.
LEMMA FetchedStep ==
    ASSUME ReliableCache, TypeOK, [Next]_vars, NEW j \in Jobs, Fetched(j)', ~IsCached(j)'
    PROVE  /\ ~IsCached(j)
           /\ \/ Fetched(j) /\ config'[j] = config[j]
              \/ FetchConfig /\ j \in todo /\ pc = "fetch" /\ UNCHANGED <<log, ops>>
                 /\ config'[j] \in ReadableLogs(j)
<1> USE DEF pollerVars, executorVars, cacheVars, storeVars, chainVars
<1>types. /\ todo \subseteq Jobs /\ active \subseteq Jobs
          /\ config \in [Jobs -> ExecutionConfigs]
  BY DEF TypeOK
<1>1. CASE FetchConfig
  <2>1. PICK i \in todo :
          /\ \E read \in ReadableLogs(i) : config' = [config EXCEPT ![i] = read]
          /\ todo' = todo \ {i} /\ active' = active /\ pc = "fetch" /\ pc' = "fetch"
          /\ UNCHANGED <<cache, log, ops>>
    BY <1>1 DEF FetchConfig, EndPoll, Fetched
  <2>2. j = i \/ Fetched(j)
    BY <2>1 DEF Fetched
  <2> QED BY <1>1, <1>types, <2>1, <2>2 DEF IsCached
<1>2. CASE FetchDone \/ FilterJob \/ MarkCompleted \/ UNCHANGED pollerVars
  <2>1. Fetched(j) /\ config' = config
    BY <1>2, <1>types DEF FetchDone, FilterJob, MarkCompleted, Fetched
  <2>2. pc \in {"fetch", "filter", "complete"} /\ pc' # "idle"
    BY <2>1 DEF Fetched
  <2> QED BY <2>1, <2>2, RecordsStay
<1>3. ASSUME PollerStep, ~(FetchConfig \/ FetchDone \/ FilterJob \/ MarkCompleted) PROVE FALSE
  <2>1. ASSUME NEW status \in {"failed", "completed"}
        PROVE  ~(ReadForSync(status) \/ SyncRow(status) \/ SyncDelete(status) \/ SyncDone(status))
    BY DEF ReadForSync, SyncRow, SyncDelete, SyncDone, SyncStage, DeleteStage, AfterSync, Fetched
  <2> QED
    BY <1>3, <2>1
       DEF PollerStep, ReadPending, CheckChain, CheckReceipt, ReceiptsDone, LoadActive,
           FilterDone, AddToCache, Push, Cleanup, EnqueueDone, EndPoll, Fetched
<1>4. ASSUME ~PollerStep PROVE UNCHANGED pollerVars
  <2>1. UNCHANGED pollerVars \/ pc' = "idle"
    BY <1>4 DEF Next, ExecutorStep, Dequeue, ExecuteFails, ExecuteSends, Report, Register,
         ChainStep, Expire, Cancel, Restart, Crash, FreshProcess, vars
  <2> QED BY <2>1 DEF Fetched
<1> QED BY <1>1, <1>2, <1>3, <1>4

\* Nothing is sent for a job of the poll that has no record, and nothing of it is
\* undecided.
LEMMA UncachedIsQuiet ==
    ASSUME OutcomeInv, [Next]_vars, NEW j \in Jobs, ~IsCached(j),
           Fetched(j) \/ (pc = "fetch" /\ j \in todo)
    PROVE  AllOpsSucceeded(j) /\ ops'[j] = ops[j]
<1>1. TypeOK /\ dbStatus[j] = "queuing"
  BY DEF OutcomeInv, DispatchInv, PolledIsActive, DispatchStages, Fetched
<1>2. AllOpsSucceeded(j) /\ ~Held(j)
  BY <1>1 DEF OutcomeInv, DispatchInv, SettledInv, DispatchableIsSettled, UncachedActiveIsFree
<1>3. ~(ExecuteSends /\ j = ejob)
  BY <1>2 DEF ExecuteSends, Held
<1> QED BY <1>1, <1>2, <1>3, SettledStays

\* What the filter finds due is due.
LEMMA FoundDue ==
    ASSUME ReliableCache, TypeOK, PlanInv, FilterJob, ~cancelled, NEW j \in picked' \ picked
    PROVE  Due(j)
<1>1. /\ j \in todo /\ pc = "filter" /\ FALSE \in IsJobInCache(j)
      /\ ~AllExecuted(config[j]) /\ IsTimeToExecute(config[j], now)
  BY DEF FilterJob
<1>2. j \in Jobs /\ ~IsCached(j) /\ Fetched(j) /\ log[j] \in ExecutionConfigs
  BY <1>1 DEF TypeOK, IsJobInCache, ReliableCache, MayFail, Fetched
<1>3. log[j] # UnsetConfig /\ config[j] \in {log[j], SwitchedLog(log[j])}
  BY <1>1, <1>2, UnsetIsNoPlan DEF PlanInv, ReadConfigs
<1>4. /\ config[j].interval = log[j].interval /\ config[j].total = log[j].total
      /\ config[j].completed = log[j].completed /\ config[j].start = log[j].start
      /\ config[j].last = log[j].last
  BY <1>2, <1>3, SwitchedKeeps
<1>5. ~AllExecuted(log[j]) /\ TimeHasCome(log[j])
  BY <1>1, <1>4 DEF AllExecuted, IsTimeToExecute, TimeHasCome
<1> QED BY <1>2, <1>3, <1>5 DEF PlanInv, LogInv, Due

\* A due job has executions left, its start date and a full interval have passed.
LEMMA DueIsPlanned ==
    ASSUME TypeOK, NEW j \in Jobs, Due(j)
    PROVE  /\ log[j].completed < Plan[j].total /\ now >= Plan[j].start
           /\ log[j].completed > 0 => now >= log[j].last + Plan[j].interval
<1>1. log[j] \in ExecutionConfigs /\ Plan[j] \in ExecutionConfigs /\ now \in Nat
  BY PlanAssumption DEF TypeOK
<1>2. FollowsPlan(j) /\ ~AllExecuted(log[j]) /\ TimeHasCome(log[j])
  BY DEF Due
<1>3. log[j].completed < Plan[j].total
  BY <1>1, <1>2 DEF FollowsPlan, AllExecuted, ExecutionConfigs
<1>4. CASE log[j].last = 0
  BY <1>1, <1>2, <1>3, <1>4 DEF FollowsPlan, TimeHasCome, ExecutionConfigs
<1>5. CASE log[j].last # 0
  BY <1>1, <1>2, <1>3, <1>5 DEF FollowsPlan, TimeHasCome, ExecutionConfigs
<1> QED BY <1>4, <1>5

\* How the jobs on their way into the queue come there: what holds of those the
\* filter finds, and is kept of each job that is settled, holds of all of them.
LEMMA PickedStep ==
    ASSUME TypeOK, [Next]_vars, PollerStep
    PROVE  /\ ~FilterJob => picked' \subseteq picked
           /\ pc' \in {"enqueue", "push", "cleanup"} =>
                \/ pc \in {"enqueue", "push", "cleanup"} /\ todo' \subseteq todo
                \/ todo' = picked
           /\ pc' = "push" => pc = "enqueue" /\ cur' \in todo /\ ~cancelled
<1>1. ~FilterJob => picked' \subseteq picked
  BY DEF PollerStep, ReadPending, CheckChain, CheckReceipt, ReceiptsDone, ReadForSync,
         SyncRow, SyncDelete, SyncDone, LoadActive, FetchConfig, FetchDone,
         MarkCompleted, FilterDone, AddToCache, Push, Cleanup, EnqueueDone, EndPoll
<1>2. pc' \in {"enqueue", "push", "cleanup"} =>
        \/ pc \in {"enqueue", "push", "cleanup"} /\ todo' \subseteq todo
        \/ todo' = picked
  BY DEF PollerStep, ReadPending, CheckChain, CheckReceipt, ReceiptsDone, ReadForSync,
         SyncRow, SyncDelete, SyncDone, LoadActive, FetchConfig, FetchDone, FilterJob,
         MarkCompleted, FilterDone, AddToCache, Push, Cleanup, EnqueueDone, EndPoll,
         SyncStage, DeleteStage, AfterSync
<1>3. pc' = "push" => pc = "enqueue" /\ cur' \in todo /\ ~cancelled
  BY DEF PollerStep, ReadPending, CheckChain, CheckReceipt, ReceiptsDone, ReadForSync,
         SyncRow, SyncDelete, SyncDone, LoadActive, FetchConfig, FetchDone, FilterJob,
         MarkCompleted, FilterDone, AddToCache, Push, Cleanup, EnqueueDone, EndPoll,
         SyncStage, DeleteStage, AfterSync, RedisUp, ReplyLost
<1> QED BY <1>1, <1>2, <1>3

\* The other steps leave the poll as it is, or end it with its process.
LEMMA NoPollerStep ==
    ASSUME [Next]_vars, ~PollerStep
    PROVE  \/ UNCHANGED pollerVars /\ (~cancelled' => ~cancelled)
           \/ pc' = "idle" /\ picked' = {} /\ todo' = {} /\ config' = NoConfigs
BY DEF Next, ExecutorStep, Dequeue, ExecuteFails, ExecuteSends, Report, Register,
       ChainStep, Expire, Cancel, Restart, Crash, FreshProcess, vars, pollerVars,
       executorVars, cacheVars, storeVars, chainVars

\* Every step keeps to the plan.
LEMMA PlanNext ==
    ASSUME ReliableCache, UpToDateReads, NobodyBeside, OutcomeInv, PlanInv, [Next]_vars
    PROVE  PlanInv'
<1> USE DEF pollerVars, executorVars, cacheVars, storeVars, chainVars
<1>types. /\ todo \subseteq Jobs /\ active \subseteq Jobs /\ picked \subseteq Jobs
          /\ config \in [Jobs -> ExecutionConfigs]
          /\ (pc \in CurStages => cur \in Jobs) /\ (epc # "idle" => ejob \in Jobs)
          /\ CurStages = {"delFailed", "delCompleted", "complete", "push", "cleanup"}
          /\ todo' \subseteq Jobs /\ active' \subseteq Jobs /\ picked' \subseteq Jobs
          /\ TypeOK /\ LogInv
  BY TypeNext DEF OutcomeInv, DispatchInv, TypeOK, PlanInv, CurStages
<1>settled. WaitingIsSettled /\ PickedIsSettled
  BY DEF OutcomeInv, SettledInv
<1>due. \A j \in Jobs : AllOpsSucceeded(j) /\ Due(j) => Due(j)'
  BY <1>types, DueStays
<1>1. LogInv'
  <2>1. now' > 0
    BY <1>types, ClockStep DEF LogInv, TypeOK
  <2>2. \A j \in Jobs : log'[j] = UnsetConfig \/ FollowsPlan(j)'
    BY <1>types, LogKept
  <2>3. ASSUME NEW j \in Jobs, ops'[j] # <<>>
        PROVE  FollowsPlan(j)' /\ now' >= Plan[j].start
    <3>1. FollowsPlan(j) /\ now >= Plan[j].start
      <4>1. CASE ops[j] # <<>>
        BY <4>1 DEF PlanInv, LogInv
      <4>2. CASE ExecuteSends /\ j = ejob
        <5>1. Due(j)
          BY <1>settled, <4>2 DEF ExecuteSends, Waiting, PlanInv
        <5> QED BY <1>types, <5>1, DueIsPlanned DEF Due
      <4>3. CASE Decided(j)
        <5>1. ops[j] \in Seq(OpStatuses) /\ ops'[j] \in Seq(OpStatuses)
          BY <1>types, TypeNext DEF TypeOK
        <5>2. ops[j] # <<>>
          BY <2>3, <4>3, <5>1 DEF Decided
        <5> QED BY <4>1, <5>2
      <4>4. CASE ops'[j] = ops[j]
        BY <2>3, <4>1, <4>4
      <4> QED BY <1>types, <4>2, <4>3, <4>4, OpsStep
    <3>2. Plan[j].start \in Nat
      BY PlanAssumption DEF ExecutionConfigs
    <3> QED BY <1>types, <3>1, <3>2, LogKept, ClockStep DEF TypeOK
  <2> QED BY <2>1, <2>2, <2>3 DEF LogInv
<1>2. \A j \in Jobs : Waiting(j)' => Due(j)'
  <2> SUFFICES ASSUME NEW j \in Jobs, Waiting(j)' PROVE Due(j)'  OBVIOUS
  <2>1. CASE Waiting(j)
    BY <1>settled, <1>due, <2>1 DEF PlanInv, WaitingIsSettled
  <2>2. CASE pc = "push" /\ j = cur
    BY <1>settled, <1>due, <2>2 DEF PlanInv, PickedIsDue, PickedIsSettled
  <2> QED BY <1>types, <2>1, <2>2, WaitsByPush
<1>3. ReadConfigs'
  <2> SUFFICES ASSUME NEW j \in Jobs, Fetched(j)', ~IsCached(j)'
               PROVE  \/ config'[j] = UnsetConfig
                      \/ log'[j] # UnsetConfig /\ config'[j] \in {log'[j], SwitchedLog(log'[j])}
    BY DEF ReadConfigs
  <2>1. CASE FetchConfig /\ UNCHANGED log /\ config'[j] \in ReadableLogs(j)
    BY <2>1 DEF ReadableLogs, UpToDateReads, MayFail
  <2>2. CASE ~IsCached(j) /\ Fetched(j) /\ config'[j] = config[j]
    <3>1. \/ config[j] = UnsetConfig
          \/ log[j] # UnsetConfig /\ config[j] \in {log[j], SwitchedLog(log[j])}
      BY <2>2 DEF PlanInv, ReadConfigs
    <3>2. AllOpsSucceeded(j)
      BY <2>2, UncachedIsQuiet
    <3>3. ASSUME log[j] # UnsetConfig
          PROVE  /\ log'[j] = log[j] \/ log'[j] = SwitchedLog(log[j])
                 /\ log'[j] # UnsetConfig
      <4>1. log'[j] = log[j] \/ log'[j] = SwitchedLog(log[j])
        BY <1>types, <3>2, <3>3, LogStep DEF AllOpsSucceeded, NobodyBeside, MayFail
      <4>2. FollowsPlan(j)'
        BY <1>types, <3>3, LogKept DEF LogInv
      <4>3. ~(log'[j] = UnsetConfig)
        BY <4>2, PlanAssumption DEF FollowsPlan, UnsetConfig, ExecutionConfigs
      <4> QED BY <4>1, <4>3
    <3>4. log[j] \in ExecutionConfigs
      BY <1>types DEF TypeOK
    <3> QED BY <2>2, <3>1, <3>3, <3>4, SwitchedKeeps
  <2> QED BY <1>types, <2>1, <2>2, FetchedStep
<1>4. PickedIsDue'
  <2>1. CASE PollerStep
    <3>1. UNCHANGED <<log, now, cancelled>> /\ \A j \in Jobs : Due(j)' <=> Due(j)
      BY <2>1, PollerOnly DEF Due, FollowsPlan, TimeHasCome
    <3>2. ~cancelled' => \A j \in picked' : Due(j)'
      <4>1. CASE FilterJob
        BY <1>types, <3>1, <4>1, FoundDue DEF PlanInv, PickedIsDue
      <4>2. CASE ~FilterJob
        BY <1>types, <2>1, <3>1, <4>2, PickedStep DEF PlanInv, PickedIsDue
      <4> QED BY <4>1, <4>2
    <3>3. ~cancelled' /\ pc' \in {"enqueue", "push", "cleanup"} => \A j \in todo' : Due(j)'
      BY <1>types, <2>1, <3>1, PickedStep DEF PlanInv, PickedIsDue
    <3>4. pc' = "push" => Due(cur)'
      <4> SUFFICES ASSUME pc' = "push", NEW j \in Jobs, j = cur' PROVE Due(j)'
        BY TypeNext, <1>types DEF TypeOK, CurStages, Due, FollowsPlan, TimeHasCome
      <4> QED BY <1>types, <2>1, <3>1, PickedStep DEF PlanInv, PickedIsDue
    <3> QED BY <3>2, <3>3, <3>4 DEF PickedIsDue
  <2>2. CASE ~PollerStep
    <3>1. CASE UNCHANGED pollerVars /\ (~cancelled' => ~cancelled)
      <4>1. /\ ~cancelled' => \A j \in picked' : Due(j)'
            /\ ~cancelled' /\ pc' \in {"enqueue", "push", "cleanup"} => \A j \in todo' : Due(j)'
        BY <1>types, <1>settled, <1>due, <3>1 DEF PlanInv, PickedIsDue, PickedIsSettled
      <4>2. ASSUME pc' = "push", NEW j \in Jobs, j = cur PROVE Due(j)'
        BY <1>settled, <1>due, <3>1, <4>2 DEF PlanInv, PickedIsDue, PickedIsSettled
      <4>3. pc' = "push" => Due(cur)'
        BY <1>types, <3>1, <4>2 DEF Due, FollowsPlan, TimeHasCome
      <4> QED BY <4>1, <4>3 DEF PickedIsDue
    <3>2. CASE pc' = "idle" /\ picked' = {}
      BY <3>2 DEF PickedIsDue
    <3> QED BY <2>2, <3>1, <3>2, NoPollerStep
  <2> QED BY <2>1, <2>2
<1> QED BY <1>1, <1>2, <1>3, <1>4 DEF PlanInv

\* An operation is sent for the job in the executor's hands.
LEMMA SentByExecutor ==
    ASSUME TypeOK, [Next]_vars, NEW j \in Jobs, Len(ops'[j]) > Len(ops[j])
    PROVE  ExecuteSends /\ j = ejob
<1>1. Len(ops[j]) \in Nat
  BY DEF TypeOK
<1>2. ~Decided(j) /\ ops'[j] # ops[j]
  BY <1>1 DEF Decided
<1> QED BY <1>1, <1>2, OpsStep

\* A user operation is sent only while its job's plan has executions left and after
\* its start date and a full interval since the last execution, however long the
\* job has waited in the queue, whatever crashed and whatever its owner switched
\* meanwhile: when contract reads do not lag behind, replies, cache reads and
\* records are reliable, and cmd/executeJob does not execute the job as well.
THEOREM SendsOnTimeHolds ==
    ASSUME ReliableCache, UpToDateReads, NobodyBeside
    PROVE  Spec => SendsOnTime
<1> DEFINE Planned == \A j \in Jobs : Len(ops'[j]) > Len(ops[j])
                        => /\ log[j].completed < Plan[j].total /\ now >= Plan[j].start
                           /\ log[j].completed > 0 => now >= log[j].last + Plan[j].interval
<1>1. OutcomeInv /\ PlanInv /\ [Next]_vars => PlanInv'
  BY PlanNext
<1>2. OutcomeInv /\ PlanInv /\ [Next]_vars => [Planned]_vars
  <2> SUFFICES ASSUME OutcomeInv, PlanInv, [Next]_vars,
                      NEW j \in Jobs, Len(ops'[j]) > Len(ops[j])
               PROVE  /\ log[j].completed < Plan[j].total /\ now >= Plan[j].start
                      /\ log[j].completed > 0 => now >= log[j].last + Plan[j].interval
    OBVIOUS
  <2>1. ExecuteSends /\ j = ejob
    BY SentByExecutor DEF OutcomeInv, DispatchInv
  <2>2. Due(j) /\ TypeOK
    BY <2>1 DEF ExecuteSends, Waiting, PlanInv, OutcomeInv, DispatchInv
  <2> QED BY <2>2, DueIsPlanned
<1> QED BY PlanInit, OutcomeAlways, <1>1, <1>2, PTL DEF Spec, SendsOnTime
--------------------------------------------------------------------------------
(* No more operations than executions planned.                                  *)

\* Nothing has been sent at the start.
LEMMA CountInit == Init => CountInv
<1> SUFFICES ASSUME Init PROVE CountInv  OBVIOUS
<1>1. \A j \in Jobs : ops[j] = <<>> /\ Len(ops[j]) = 0 /\ log[j] = UnsetConfig
  BY DEF Init, NoConfigs
<1>2. \A j \in Jobs : Plan[j].total \in Nat /\ UnsetConfig.completed = 0
  BY PlanAssumption DEF ExecutionConfigs, UnsetConfig
<1>3. SendsWithinPlan /\ CountedOps
  BY <1>1, <1>2 DEF SendsWithinPlan, CountedOps
<1>4. ReadCounts /\ RoomForPicked /\ \A j \in Jobs : ~Waiting(j)
  BY DEF Init, ReadCounts, Fetched, RoomForPicked, Waiting, Queued
<1> QED BY <1>1, <1>3, <1>4 DEF CountInv

\* An operation succeeds only together with its execution being counted.
LEMMA SuccessIsCounted ==
    ASSUME TypeOK, [Next]_vars, ~ExecuteSends, NEW j \in Jobs, AllOpsSucceeded(j)'
    PROVE  AllOpsSucceeded(j) \/ log'[j] = Executed(log[j])
<1> USE DEF TypeOK
<1>1. CASE ChainStep
  <2>1. CASE Tick \/ \E i \in Jobs : ConfigureOnChain(i) \/ SwitchJob(i)
    BY <2>1 DEF Tick, ConfigureOnChain, SwitchJob, AllOpsSucceeded
  <2>2. ASSUME NEW i \in Jobs, NEW k \in 1 .. MaxOps, IncludeOp(i, k)
        PROVE  AllOpsSucceeded(j) \/ log'[j] = Executed(log[j])
    BY <2>2 DEF IncludeOp, AllOpsSucceeded
  <2>3. ASSUME NEW i \in Jobs, NEW k \in 1 .. MaxOps, RevertOp(i, k) \/ DropOp(i, k)
        PROVE  AllOpsSucceeded(j)
    <3>1. PICK outcome \in {"reverted", "dropped"} :
            ops' = [ops EXCEPT ![i] = [ops[i] EXCEPT ![k] = outcome]]
      BY <2>3 DEF RevertOp, DropOp
    <3>2. k \in 1 .. Len(ops[i])
      BY <2>3 DEF RevertOp, DropOp
    <3>3. CASE i = j
      <4>1. ops'[j] = [ops[j] EXCEPT ![k] = outcome]
        BY <3>1, <3>3
      <4>2. ops'[j][k] = outcome /\ Len(ops'[j]) = Len(ops[j])
        BY <3>2, <3>3, <4>1
      <4> QED BY <3>2, <3>3, <4>2 DEF AllOpsSucceeded
    <3>4. CASE i # j
      BY <3>1, <3>4 DEF AllOpsSucceeded
    <3> QED BY <3>3, <3>4
  <2>4. ASSUME NEW i \in Jobs, ExecuteBeside(i)
        PROVE  AllOpsSucceeded(j) \/ log'[j] = Executed(log[j])
    BY <2>4 DEF ExecuteBeside, AllOpsSucceeded
  <2> QED BY <1>1, <2>1, <2>2, <2>3, <2>4 DEF ChainStep
<1>2. CASE ~ChainStep
  <2>1. UNCHANGED ops
    BY <1>2, PollerOnly
       DEF Next, ExecutorStep, Dequeue, ExecuteFails, Report, Register, Expire, Cancel,
           Restart, Crash, vars, chainVars
  <2> QED BY <2>1 DEF AllOpsSucceeded
<1> QED BY <1>1, <1>2

\* The count of the contract keeps up with the operations.
LEMMA CountsKept ==
    ASSUME OutcomeInv, CountInv, [Next]_vars
    PROVE  CountedOps'
<1>inv. /\ TypeOK /\ EarlierOpsSucceeded /\ WaitingIsSettled
        /\ log' \in [Jobs -> ExecutionConfigs] /\ ops' \in [Jobs -> Seq(OpStatuses)]
  BY TypeNext DEF OutcomeInv, DispatchInv, SettledInv, TypeOK
<1> SUFFICES ASSUME NEW j \in Jobs
             PROVE  /\ Len(ops'[j]) <= log'[j].completed + 1
                    /\ AllOpsSucceeded(j)' => Len(ops'[j]) <= log'[j].completed
                    /\ ops'[j] # <<>> => Configured(j)'
  BY DEF CountedOps
<1>types. /\ log[j] \in ExecutionConfigs /\ log[j].completed \in Nat
          /\ log'[j] \in ExecutionConfigs /\ log'[j].completed \in Nat
          /\ ops[j] \in Seq(OpStatuses) /\ ops'[j] \in Seq(OpStatuses)
          /\ Len(ops[j]) \in Nat /\ Len(ops'[j]) \in Nat
  BY <1>inv DEF TypeOK, ExecutionConfigs
<1>before. /\ Len(ops[j]) <= log[j].completed + 1
           /\ AllOpsSucceeded(j) => Len(ops[j]) <= log[j].completed
           /\ ops[j] # <<>> => Configured(j)
  BY DEF CountInv, CountedOps
<1>grows. Configured(j) => Configured(j)'
  BY <1>inv, LogGrows
<1>1. CASE ExecuteSends /\ j = ejob
  <2>1. /\ log' = log /\ Waiting(j) /\ ops'[j] = Append(ops[j], "pending")
    BY <1>1, <1>inv DEF ExecuteSends, SendUserOperation, Waiting, TypeOK
  <2>2. Len(ops[j]) <= log[j].completed /\ Configured(j)
    BY <1>before, <1>inv, <2>1 DEF WaitingIsSettled, CountInv, RoomFor
  <2>3. Len(ops'[j]) = Len(ops[j]) + 1 /\ ops'[j][Len(ops[j]) + 1] = "pending"
    BY <1>types, <2>1
  <2>4. ~AllOpsSucceeded(j)'
    BY <1>types, <2>3 DEF AllOpsSucceeded
  <2> QED BY <1>types, <1>grows, <2>1, <2>2, <2>3, <2>4
<1>2. CASE ~(ExecuteSends /\ j = ejob)
  <2>1. /\ Len(ops'[j]) = Len(ops[j])
        /\ AllOpsSucceeded(j)' => AllOpsSucceeded(j) \/ log'[j] = Executed(log[j])
    <3>1. CASE ExecuteSends
      <4>1. ops'[j] = ops[j]
        BY <1>2, <1>inv, <3>1 DEF ExecuteSends, SendUserOperation, TypeOK
      <4> QED BY <4>1 DEF AllOpsSucceeded
    <3>2. CASE ~ExecuteSends
      BY <1>inv, <3>2, QuietOps, SuccessIsCounted
    <3> QED BY <3>1, <3>2
  <2>2. ops'[j] # <<>> => Configured(j)'
    BY <1>types, <1>before, <1>grows, <2>1
  <2>3. CASE log'[j] = log[j]
    <3>1. Executed(log[j]).completed = log[j].completed + 1
      BY <1>types DEF Executed, ExecutionConfigs
    <3> QED BY <1>types, <1>before, <2>1, <2>2, <2>3, <3>1
  <2>4. CASE log[j] = UnsetConfig /\ log'[j] = Plan[j] /\ UNCHANGED <<ops, now>>
    <3>1. log'[j].completed = log[j].completed
      BY <2>4, PlanAssumption DEF UnsetConfig
    <3> QED BY <1>before, <2>2, <2>4, <3>1 DEF AllOpsSucceeded
  <2>5. CASE log'[j] = SwitchedLog(log[j]) /\ UNCHANGED <<ops, now>>
    <3>1. log'[j].completed = log[j].completed
      BY <1>types, <2>5, SwitchedKeeps
    <3> QED BY <1>before, <2>2, <2>5, <3>1 DEF AllOpsSucceeded
  <2>6. CASE log'[j] = Executed(log[j])
    <3>1. log'[j].completed = log[j].completed + 1
      BY <1>types, <2>6 DEF Executed, ExecutionConfigs
    <3> QED BY <1>types, <1>before, <2>1, <2>2, <3>1
  <2> QED BY <1>inv, LogStep, <2>3, <2>4, <2>5, <2>6
<1> QED BY <1>1, <1>2

\* What the filter finds due has room in its plan.
LEMMA FoundRoom ==
    ASSUME ReliableCache, TypeOK, CountInv, FilterJob, ~cancelled, NEW j \in picked' \ picked
    PROVE  RoomFor(j)
<1>1. /\ j \in todo /\ pc = "filter" /\ FALSE \in IsJobInCache(j) /\ ~AllExecuted(config[j])
  BY DEF FilterJob
<1>2. /\ j \in Jobs /\ ~IsCached(j) /\ Fetched(j) /\ config[j] \in ExecutionConfigs
      /\ Len(ops[j]) \in Nat /\ Plan[j].total \in Nat
  <2>1. j \in Jobs /\ ~IsCached(j) /\ Fetched(j)
    BY <1>1 DEF TypeOK, IsJobInCache, ReliableCache, MayFail, Fetched
  <2>2. config[j] \in ExecutionConfigs /\ Len(ops[j]) \in Nat
    BY <2>1 DEF TypeOK
  <2> QED BY <2>1, <2>2, PlanAssumption DEF ExecutionConfigs
<1>3. /\ Configured(j) /\ config[j].total = Plan[j].total /\ Len(ops[j]) <= config[j].completed
  BY <1>1, <1>2, UnsetIsNoPlan DEF CountInv, ReadCounts
<1>4. config[j].completed < config[j].total /\ config[j].completed \in Nat
  BY <1>1, <1>2 DEF AllExecuted, ExecutionConfigs
<1> QED BY <1>2, <1>3, <1>4 DEF RoomFor

\* Every step keeps the operations within the plan.
LEMMA CountNext ==
    ASSUME ReliableCache, UpToDateReads, OutcomeInv, CountInv, [Next]_vars
    PROVE  CountInv'
<1> USE DEF pollerVars, executorVars, cacheVars, storeVars, chainVars
<1>types. /\ todo \subseteq Jobs /\ picked \subseteq Jobs
          /\ (pc \in CurStages => cur \in Jobs) /\ (epc # "idle" => ejob \in Jobs)
          /\ CurStages = {"delFailed", "delCompleted", "complete", "push", "cleanup"}
          /\ todo' \subseteq Jobs /\ picked' \subseteq Jobs
          /\ TypeOK /\ \A j \in Jobs : Plan[j].total \in Nat
  BY TypeNext, PlanAssumption DEF OutcomeInv, DispatchInv, TypeOK, CurStages, ExecutionConfigs
<1>grows. \A j \in Jobs : Configured(j) => Configured(j)'
  BY <1>types, LogGrows
<1>lens. \A j \in Jobs : \/ Len(ops'[j]) = Len(ops[j])
                         \/ /\ ExecuteSends /\ j = ejob /\ Waiting(j)
                            /\ Len(ops'[j]) = Len(ops[j]) + 1
  <2> SUFFICES ASSUME NEW j \in Jobs
               PROVE  \/ Len(ops'[j]) = Len(ops[j])
                      \/ /\ ExecuteSends /\ j = ejob /\ Waiting(j)
                         /\ Len(ops'[j]) = Len(ops[j]) + 1
    OBVIOUS
  <2>1. ops[j] \in Seq(OpStatuses)
    BY <1>types DEF TypeOK
  <2>2. Len(Append(ops[j], "pending")) = Len(ops[j]) + 1
    BY <2>1
  <2>3. ExecuteSends /\ j = ejob => Waiting(j)
    BY DEF ExecuteSends, Waiting
  <2> QED BY <1>types, <2>2, <2>3, OpsStep DEF Decided
<1>room. \A j \in Jobs : RoomFor(j) /\ ~(ExecuteSends /\ j = ejob) => RoomFor(j)'
  BY <1>grows, <1>lens DEF RoomFor
<1>1. SendsWithinPlan'
  <2> SUFFICES ASSUME NEW j \in Jobs PROVE Len(ops'[j]) <= Plan[j].total
    BY DEF SendsWithinPlan
  <2>1. Len(ops[j]) \in Nat /\ Len(ops[j]) <= Plan[j].total
    BY <1>types DEF TypeOK, CountInv, SendsWithinPlan
  <2>2. Waiting(j) => Len(ops[j]) < Plan[j].total
    BY DEF CountInv, RoomFor
  <2> QED BY <1>types, <1>lens, <2>1, <2>2
<1>2. CountedOps'
  BY CountsKept
<1>3. ReadCounts'
  <2> SUFFICES ASSUME NEW j \in Jobs, Fetched(j)', ~IsCached(j)'
               PROVE  \/ config'[j] = UnsetConfig
                      \/ /\ Configured(j)' /\ config'[j].total = Plan[j].total
                         /\ Len(ops'[j]) <= config'[j].completed
    BY DEF ReadCounts
  <2>1. CASE ~IsCached(j) /\ Fetched(j) /\ config'[j] = config[j]
    BY <1>grows, <2>1, UncachedIsQuiet DEF CountInv, ReadCounts
  <2>2. CASE /\ ~IsCached(j) /\ pc = "fetch" /\ j \in todo /\ UNCHANGED <<log, ops>>
             /\ config'[j] \in ReadableLogs(j)
    <3>1. config'[j] = log[j]
      BY <2>2 DEF ReadableLogs, UpToDateReads, MayFail
    <3>2. Len(ops[j]) <= log[j].completed
      BY <2>2, UncachedIsQuiet DEF CountInv, CountedOps
    <3> QED BY <2>2, <3>1, <3>2 DEF CountInv, Configured
  <2> QED BY <1>types, <2>1, <2>2, FetchedStep
<1>4. RoomForPicked'
  <2>1. CASE PollerStep
    <3>1. UNCHANGED <<log, ops, cancelled>> /\ \A j \in Jobs : RoomFor(j)' <=> RoomFor(j)
      BY <2>1, PollerOnly DEF RoomFor, Configured
    <3>2. ~cancelled' => \A j \in picked' : RoomFor(j)'
      <4>1. CASE FilterJob
        BY <1>types, <3>1, <4>1, FoundRoom DEF CountInv, RoomForPicked
      <4>2. CASE ~FilterJob
        BY <1>types, <2>1, <3>1, <4>2, PickedStep DEF CountInv, RoomForPicked
      <4> QED BY <4>1, <4>2
    <3>3. ~cancelled' /\ pc' \in {"enqueue", "push", "cleanup"} => \A j \in todo' : RoomFor(j)'
      BY <1>types, <2>1, <3>1, PickedStep DEF CountInv, RoomForPicked
    <3>4. pc' = "push" => RoomFor(cur)'
      <4> SUFFICES ASSUME pc' = "push", NEW j \in Jobs, j = cur' PROVE RoomFor(j)'
        BY TypeNext, <1>types DEF TypeOK, CurStages, RoomFor, Configured
      <4> QED BY <1>types, <2>1, <3>1, PickedStep DEF CountInv, RoomForPicked
    <3> QED BY <3>2, <3>3, <3>4 DEF RoomForPicked
  <2>2. CASE ~PollerStep
    <3>1. CASE UNCHANGED pollerVars /\ (~cancelled' => ~cancelled)
      <4>1. \A j \in Jobs : ~Held(j) /\ RoomFor(j) => RoomFor(j)'
        BY <1>room DEF Held, ExecuteSends
      <4>2. /\ ~cancelled' => \A j \in picked' : RoomFor(j)'
            /\ ~cancelled' /\ pc' \in {"enqueue", "push", "cleanup"} => \A j \in todo' : RoomFor(j)'
        BY <1>types, <3>1, <4>1
           DEF CountInv, RoomForPicked, OutcomeInv, DispatchInv, PickedIsFree
      <4>3. ASSUME pc' = "push", NEW j \in Jobs, j = cur PROVE RoomFor(j)'
        BY <3>1, <4>1, <4>3 DEF CountInv, RoomForPicked, OutcomeInv, DispatchInv, PushedIsFree
      <4>4. pc' = "push" => RoomFor(cur)'
        BY <1>types, <3>1, <4>3 DEF RoomFor, Configured
      <4> QED BY <4>2, <4>4 DEF RoomForPicked
    <3>2. CASE pc' = "idle" /\ picked' = {}
      BY <3>2 DEF RoomForPicked
    <3> QED BY <2>2, <3>1, <3>2, NoPollerStep
  <2> QED BY <2>1, <2>2
<1>5. ASSUME NEW j \in Jobs, Waiting(j)' PROVE RoomFor(j)'
  <2>1. ~(ExecuteSends /\ j = ejob)
    <3> SUFFICES ASSUME ExecuteSends, j = ejob PROVE FALSE  OBVIOUS
    <3>1. ~Queued(j)
      BY DEF ExecuteSends, OutcomeInv, DispatchInv, NoDuplicateDispatch
    <3>2. ~Queued(j)' /\ epc' = "report"
      BY <3>1 DEF ExecuteSends, Queued
    <3> QED BY <1>5, <3>2 DEF Waiting
  <2>2. Waiting(j) \/ (pc = "push" /\ j = cur)
    BY <1>types, <1>5, WaitsByPush
  <2>3. RoomFor(j)
    BY <2>2 DEF CountInv, RoomForPicked
  <2> QED BY <1>room, <2>1, <2>3
<1>6. ASSUME NEW j \in Jobs PROVE log'[j] = UnsetConfig \/ Configured(j)'
  <2>1. CASE log[j] # UnsetConfig \/ ops[j] # <<>>
    BY <1>grows, <2>1 DEF CountInv, CountedOps
  <2>2. CASE log'[j] = log[j] \/ log'[j] = Plan[j]
    BY <1>grows, <2>2 DEF CountInv, Configured
  <2> QED BY <1>types, <2>1, <2>2, LogStep
<1> QED BY <1>1, <1>2, <1>3, <1>4, <1>5, <1>6 DEF CountInv

\* The scheduler sends no more operations for a job than its owner planned
\* executions, also when cmd/executeJob executes it beside the scheduler and its
\* owner switches it off and on: when contract reads do not lag behind, and
\* replies, cache reads and records are reliable.
THEOREM SendsWithinPlanHolds ==
    ASSUME ReliableCache, UpToDateReads
    PROVE  Spec => []SendsWithinPlan
<1>1. OutcomeInv /\ CountInv /\ [Next]_vars => CountInv'
  BY CountNext
<1>2. CountInv => SendsWithinPlan
  BY DEF CountInv
<1> QED BY CountInit, OutcomeAlways, <1>1, <1>2, PTL DEF Spec
--------------------------------------------------------------------------------
(* Off is off.                                                                  *)

\* Nothing is on its way at the start.
LEMMA SwitchInvInit == SwitchInit => SwitchInv
BY DEF SwitchInit, Init, SwitchInv, OutOfReach, AtRest, Held, Queued, NoConfigs, UnsetConfig

\* A contract read that misses an execution still shows the switch.
LEMMA ReadableSwitch ==
    ASSUME UpToDateSwitches, TypeOK, NEW j \in Jobs, NEW read \in ReadableLogs(j)
    PROVE  read.enabled = log[j].enabled
<1>1. log[j] \in ExecutionConfigs
  BY DEF TypeOK
<1>2. read = log[j] \/ \E t \in 0 .. now : read = LogBefore(log[j], t)
  BY DEF ReadableLogs, UpToDateSwitches, MayFail
<1>3. ASSUME NEW t \in 0 .. now, read = LogBefore(log[j], t)
      PROVE  read.enabled = log[j].enabled
  BY <1>1, <1>3 DEF LogBefore, ExecutionConfigs
<1> QED BY <1>2, <1>3

\* Nobody's step brings a job that is off back into the scheduler's reach.
LEMMA OutOfReachNext ==
    ASSUME UpToDateSwitches, TypeOK, [Next]_vars, NEW j \in Jobs, OutOfReach(j), ~log'[j].enabled
    PROVE  OutOfReach(j)'
<1> USE DEF pollerVars, executorVars, cacheVars, storeVars, chainVars
<1>types. /\ todo \subseteq Jobs /\ config \in [Jobs -> ExecutionConfigs]
          /\ (pc \in CurStages => cur \in Jobs)
          /\ CurStages = {"delFailed", "delCompleted", "complete", "push", "cleanup"}
          /\ config' \in [Jobs -> ExecutionConfigs]
  BY TypeNext DEF TypeOK, CurStages
<1>1. /\ ~log[j].enabled /\ ~config[j].enabled /\ ~Held(j) /\ j \notin picked
      /\ pc \in {"enqueue", "push", "cleanup"} => j \notin todo
      /\ pc = "push" => j # cur
  BY DEF OutOfReach, Held
<1> SUFFICES /\ ~config'[j].enabled /\ ~Held(j)' /\ j \notin picked'
             /\ pc' \in {"enqueue", "push", "cleanup"} => j \notin todo'
             /\ pc' = "push" => j # cur'
  BY DEF OutOfReach, Held, Queued
<1>2. ~Held(j)'
  BY <1>1, HeldByPush
<1>3. CASE PollerStep
  <2>1. ~config'[j].enabled
    <3>1. CASE FetchConfig
      <4>1. CASE config' = NoConfigs
        BY <4>1 DEF NoConfigs, UnsetConfig
      <4>2. ASSUME NEW i \in todo, NEW read \in ReadableLogs(i),
                   config' = [config EXCEPT ![i] = read]
            PROVE  ~config'[j].enabled
        <5>1. CASE i = j
          BY <1>types, <1>1, <4>2, <5>1, ReadableSwitch
        <5>2. CASE i # j
          BY <1>types, <1>1, <4>2, <5>2
        <5> QED BY <5>1, <5>2
      <4> QED BY <3>1, <4>1, <4>2 DEF FetchConfig, EndPoll
    <3>2. CASE ~FetchConfig
      <4>1. config' = config \/ config' = NoConfigs
        BY <1>3, <3>2
           DEF PollerStep, ReadPending, CheckChain, CheckReceipt, ReceiptsDone, ReadForSync,
               SyncRow, SyncDelete, SyncDone, LoadActive, FetchDone, FilterJob,
               MarkCompleted, FilterDone, AddToCache, Push, Cleanup, EnqueueDone, EndPoll
      <4> QED BY <1>1, <4>1 DEF NoConfigs, UnsetConfig
    <3> QED BY <3>1, <3>2
  <2>2. j \notin picked'
    <3>1. CASE FilterJob
      BY <1>1, <3>1 DEF FilterJob, IsTimeToExecute
    <3>2. CASE ~FilterJob
      BY <1>1, <1>3, <3>2, PickedStep
    <3> QED BY <3>1, <3>2
  <2>3. /\ pc' \in {"enqueue", "push", "cleanup"} => j \notin todo'
        /\ pc' = "push" => j # cur'
    BY <1>1, <1>3, PickedStep
  <2> QED BY <1>2, <2>1, <2>2, <2>3
<1>4. CASE ~PollerStep
  BY <1>1, <1>2, <1>4, NoPollerStep DEF NoConfigs, UnsetConfig
<1> QED BY <1>3, <1>4

\* A job that is off and out of reach stays so until its owner switches it on, under
\* every fault of the cache, of the calls and of the process, when contract reads
\* show the switch.
THEOREM OffStaysOutHolds ==
    ASSUME UpToDateSwitches
    PROVE  Spec => OffStaysOut
<1> DEFINE StaysOut == \A j \in Jobs : OutOfReach(j) => OutOfReach(j)' \/ log'[j].enabled
<1>1. TypeOK /\ [Next]_vars => [StaysOut]_vars
  BY OutOfReachNext
<1> QED BY TypeCorrect, <1>1, PTL DEF Spec, OffStaysOut

\* A job that is off, and was at rest since, is not picked up again.
LEMMA SwitchInvNext ==
    ASSUME UpToDateSwitches, TypeOK, SwitchInv, [SwitchNext]_switchVars
    PROVE  SwitchInv'
<1> USE DEF pollerVars, executorVars, cacheVars, storeVars, chainVars
<1>next. [Next]_vars
  BY DEF SwitchNext, switchVars
<1>1. pc' \notin {"fetch", "filter", "complete"} => config' = NoConfigs /\ picked' = {}
  <2>1. CASE PollerStep
    BY <2>1
       DEF PollerStep, ReadPending, CheckChain, CheckReceipt, ReceiptsDone, ReadForSync,
           SyncRow, SyncDelete, SyncDone, LoadActive, FetchConfig, FetchDone, FilterJob,
           MarkCompleted, FilterDone, AddToCache, Push, Cleanup, EnqueueDone, EndPoll,
           ReadStage, SyncStage, DeleteStage, AfterSync, SwitchInv
  <2>2. CASE ~PollerStep
    BY <1>next, <2>2, NoPollerStep DEF SwitchInv
  <2> QED BY <2>1, <2>2
<1>2. ASSUME NEW j \in Jobs, off'[j] PROVE OutOfReach(j)'
  <2>1. CASE UNCHANGED switchVars
    BY <1>2, <2>1 DEF switchVars, vars, SwitchInv, OutOfReach, Queued
  <2>2. CASE SwitchNext /\ AtRest(j)'
    <3>1. ~log'[j].enabled /\ ~Held(j)' /\ pc' \notin DispatchStages
      BY <1>2, <2>2 DEF SwitchNext, AtRest
    <3>2. config' = NoConfigs /\ picked' = {}
      BY <1>1, <3>1 DEF DispatchStages
    <3> QED
      BY <3>1, <3>2 DEF NoConfigs, UnsetConfig, DispatchStages, OutOfReach, Held, Queued
  <2>3. CASE SwitchNext /\ off[j]
    <3>1. OutOfReach(j)
      BY <2>3 DEF SwitchInv
    <3>2. ~log'[j].enabled
      BY <1>2, <2>3 DEF SwitchNext
    <3> QED BY <1>next, <3>1, <3>2, OutOfReachNext
  <2>4. SwitchNext => off[j] \/ AtRest(j)'
    BY <1>2 DEF SwitchNext
  <2> QED BY <2>1, <2>2, <2>3, <2>4
<1> QED BY <1>1, <1>2 DEF SwitchInv

\* A job that its owner has switched off, and that was at rest at some moment since,
\* is not sent until it is switched on again, whatever else fails or lags behind: when
\* contract reads show the switch.
THEOREM SwitchedOffIsUnsentHolds ==
    ASSUME UpToDateSwitches
    PROVE  SwitchSpec => SwitchedOffIsUnsent
<1> DEFINE Unsent == \A j \in Jobs : Len(ops'[j]) > Len(ops[j]) => ~off[j]
<1>1. SwitchInit => TypeOK /\ SwitchInv
  BY TypeInit, SwitchInvInit DEF SwitchInit
<1>2. [SwitchNext]_switchVars => [Next]_vars
  BY DEF SwitchNext, switchVars
<1>3. TypeOK /\ SwitchInv /\ [SwitchNext]_switchVars => (TypeOK /\ SwitchInv)'
  BY <1>2, TypeNext, SwitchInvNext
<1>4. TypeOK /\ SwitchInv /\ [SwitchNext]_switchVars => [Unsent]_switchVars
  <2> SUFFICES ASSUME TypeOK, SwitchInv, [Next]_vars, NEW j \in Jobs, Len(ops'[j]) > Len(ops[j])
               PROVE  ~off[j]
    BY <1>2
  <2>1. ExecuteSends /\ j = ejob
    BY SentByExecutor
  <2> QED BY <2>1 DEF ExecuteSends, SwitchInv, OutOfReach
<1> QED BY <1>1, <1>3, <1>4, PTL DEF SwitchSpec, SwitchedOffIsUnsent
================================================================================
