--------------------------- MODULE JobOutcomeProofs ----------------------------
(* Machine-checked proofs about what becomes of a job: its verdicts, its        *)
(* operations and the life JobLifecycle promises, for every instance whose      *)
(* replies, cache reads and records are reliable.                               *)
EXTENDS JobSchedulerProofs

--------------------------------------------------------------------------------
(* What single steps do to the queue, the executor and the operations.          *)

\* Only a push puts a job into the hands of the queue or the executor.
LEMMA HeldByPush ==
    ASSUME TypeOK, [Next]_vars, NEW j \in Jobs, Held(j)'
    PROVE  Held(j) \/ (pc = "push" /\ pc' # "push" /\ j = cur)
<1> USE DEF TypeOK
<1>1. CASE PollerStep /\ ~Push
  <2>1. UNCHANGED <<queue, epc, ejob>>
    BY <1>1 DEF PollerStep, ReadPending, CheckChain, CheckReceipt, ReceiptsDone, ReadForSync,
         SyncRow, SyncDelete, SyncDone, LoadActive, FetchConfig, FetchDone, FilterJob,
         MarkCompleted, FilterDone, AddToCache, Cleanup, EnqueueDone, executorVars, cacheVars
  <2> QED BY <2>1, SameHolds
<1>2. CASE Push
  <2>1. UNCHANGED <<epc, ejob>> /\ (EnqueueJob(cur) \/ queue' = queue)
    BY <1>2 DEF Push, executorVars
  <2>2. cur \in Jobs
    BY <1>2 DEF Push, CurStages
  <2>5. pc = "push" /\ pc' # "push"
    BY <1>2 DEF Push
  <2>3. CASE queue' = queue
    BY <2>1, <2>3, SameHolds
  <2>4. CASE EnqueueJob(cur)
    BY <2>1, <2>2, <2>4, <2>5, PushQueue DEF Held
  <2> QED BY <2>1, <2>3, <2>4
<1>3. CASE Dequeue
  <2>1. PICK i \in Jobs : DequeueJob(i) /\ (UNCHANGED <<epc, ejob>> \/ ejob' = i) /\ epc = "idle"
    BY <1>3 DEF Dequeue
  <2> QED BY <2>1, PopQueue DEF Held
<1>4. CASE ExecuteFails \/ ExecuteSends \/ Report
  BY <1>4 DEF ExecuteFails, ExecuteSends, Report, Held, Queued, cacheVars
<1>5. CASE Register \/ ChainStep \/ Expire \/ Cancel \/ UNCHANGED vars
  BY <1>5, SameHolds DEF Register, ChainStep, Expire, Cancel, vars, executorVars, cacheVars
<1>6. CASE Restart \/ Crash
  BY <1>6 DEF Restart, Crash, FreshProcess, Held, Queued, cacheVars
<1> QED
  BY <1>1, <1>2, <1>3, <1>4, <1>5, <1>6 DEF Next, ExecutorStep

\* A report fails the record of its job, or stores the hash in it, or does nothing.
LEMMA ReportWrites ==
    ASSUME TypeOK, Report, NEW j \in Jobs
    PROVE  \/ cache'[j] = cache[j]
           \/ /\ j = ejob /\ RedisUp
              /\ cache'[j].status = "failed" /\ cache'[j].reason = "exec" /\ ehash = ZeroHash
           \/ /\ j = ejob /\ RedisUp /\ cache[j].status # "absent"
              /\ cache'[j].status = cache[j].status /\ cache'[j].reason = cache[j].reason
              /\ cache'[j].hash = ehash /\ ehash # ZeroHash
<1>1. ejob \in Jobs /\ cache \in [Jobs -> JobCaches]
  BY DEF Report, TypeOK
<1>2. CASE RedisUp /\ ehash = ZeroHash /\ SetJobStatusFailed(ejob, "exec")
  BY <1>1, <1>2 DEF SetJobStatusFailed, SetJobStatus
<1>3. CASE RedisUp /\ ehash # ZeroHash /\ UpdateJobCacheUserOpHash(ejob, ehash)
  BY <1>1, <1>3 DEF UpdateJobCacheUserOpHash, IsCached, JobCaches
<1> QED BY <1>2, <1>3 DEF Report

--------------------------------------------------------------------------------
(* A verdict is final.                                                          *)

\* Nothing has a record in the beginning.
LEMMA VerdictInit == Init => VerdictInv
BY DEF Init, VerdictInv, RecordFitsRow, HeldIsIncomplete, ReadRecords, CurRecord,
       Held, Queued, IsCached, NoSnapshot, NoRecord

\* A step that leaves the records, the rows and the poller alone keeps the layer.
LEMMA SameVerdicts ==
    ASSUME VerdictInv, DispatchInv, \A j \in Jobs : Held(j)' => Held(j),
           UNCHANGED <<cache, dbStatus, pollerVars>>, ~cancelled' => ~cancelled
    PROVE  VerdictInv'
<1>1. pc = "complete" => cur \in Jobs
  BY DEF DispatchInv, TypeOK, CurStages
<1> QED
  BY <1>1 DEF VerdictInv, RecordFitsRow, HeldIsIncomplete, ReadRecords, CurRecord, IsCached, pollerVars

\* Every step keeps the records in accord with the rows.
LEMMA VerdictNext ==
    ASSUME ReliableCache, DispatchInv, VerdictInv, [Next]_vars
    PROVE  VerdictInv'
<1> USE DEF VerdictInv, pollerVars, executorVars, cacheVars, storeVars, chainVars
<1>facts. ~MayFail("lostreply") /\ ~MayFail("get") /\ ~MayFail("expiry")
  BY DEF ReliableCache, MayFail
<1>types. /\ cache \in [Jobs -> JobCaches] /\ dbStatus \in [Jobs -> DBStatuses]
          /\ todo \subseteq Jobs /\ group \subseteq Jobs /\ active \subseteq Jobs
          /\ (pc \in CurStages => cur \in Jobs) /\ (epc # "idle" => ejob \in Jobs)
          /\ CurStages = {"delFailed", "delCompleted", "complete", "push", "cleanup"}
          /\ TypeOK
  BY DEF DispatchInv, TypeOK, CurStages
<1>held. \A j \in Jobs : Held(j)' => Held(j) \/ (pc = "push" /\ pc' # "push" /\ j = cur)
  BY <1>types, HeldByPush
<1>inv. /\ UncachedActiveIsFree /\ HeldIsRegistered /\ HashedIsFree /\ StageSets
        /\ PolledIsActive /\ PickedIsFree /\ PushedIsFree
  BY DEF DispatchInv
<1>1. CASE ReadPending
  BY <1>1, <1>facts, <1>types, <1>inv, <1>held
     DEF ReadPending, JobCachesByStatus, RecordFitsRow, HeldIsIncomplete, ReadRecords, CurRecord, IsCached, StageSets
<1>2. CASE CheckChain \/ ReceiptsDone
  BY <1>2, <1>facts, <1>types, <1>inv, <1>held
     DEF CheckChain, ReceiptsDone, RecordFitsRow, HeldIsIncomplete, ReadRecords, CurRecord, IsCached
<1>3. CASE CheckReceipt
  BY <1>3, <1>facts, <1>types, <1>inv, <1>held
     DEF CheckReceipt, Verdict, SetJobStatusFailed, SetJobStatus, DeleteJobCache, NoRecord, RecordFitsRow, HeldIsIncomplete, ReadRecords, CurRecord, IsCached, HashedIsFree, UncachedActiveIsFree
<1>4. ASSUME NEW status \in {"failed", "completed"},
             ReadForSync(status) \/ SyncRow(status) \/ SyncDelete(status) \/ SyncDone(status)
      PROVE  VerdictInv'
  <2> USE DEF ReadStage, SyncStage, DeleteStage, AfterSync
  <2>1. CASE ReadForSync(status)
    BY <2>1, <1>facts, <1>types, <1>inv, <1>held
       DEF ReadForSync, JobCachesByStatus, RecordFitsRow, HeldIsIncomplete, ReadRecords, CurRecord, IsCached, PolledIsActive
  <2>2. CASE SyncRow(status)
    BY <2>2, <1>facts, <1>types, <1>inv, <1>held
       DEF SyncRow, UpdateJobStatus, ConvertCacheStatusToDBStatus, RecordFitsRow, HeldIsIncomplete, ReadRecords, CurRecord, IsCached, PolledIsActive
  <2>3. CASE SyncDelete(status)
    BY <2>3, <1>facts, <1>types, <1>inv, <1>held
       DEF SyncDelete, DeleteJobCache, NoRecord, RecordFitsRow, HeldIsIncomplete, ReadRecords, CurRecord, IsCached, PolledIsActive
  <2>4. CASE SyncDone(status)
    BY <2>4, <1>facts, <1>types, <1>inv, <1>held
       DEF SyncDone, RecordFitsRow, HeldIsIncomplete, ReadRecords, CurRecord, IsCached, PolledIsActive
  <2> QED BY <1>4, <2>1, <2>2, <2>3, <2>4
<1>5. CASE LoadActive \/ FetchConfig \/ FetchDone \/ FilterDone \/ EnqueueDone
  BY <1>5, <1>facts, <1>types, <1>inv, <1>held
     DEF LoadActive, FetchConfig, FetchDone, FilterDone, EnqueueDone, EndPoll, RecordFitsRow, HeldIsIncomplete, ReadRecords, CurRecord, IsCached
<1>6. CASE FilterJob
  BY <1>6, <1>facts, <1>types, <1>inv, <1>held
     DEF FilterJob, IsJobInCache, RedisUp, RecordFitsRow, HeldIsIncomplete, ReadRecords, CurRecord, IsCached, PolledIsActive, UncachedActiveIsFree, DispatchStages
<1>7. CASE MarkCompleted
  BY <1>7, <1>facts, <1>types, <1>inv, <1>held
     DEF MarkCompleted, SetJobStatus, RedisUp, RecordFitsRow, HeldIsIncomplete, ReadRecords, CurRecord, IsCached, PolledIsActive
<1>8. CASE AddToCache
  BY <1>8, <1>facts, <1>types, <1>inv, <1>held
     DEF AddToCache, AddJobCache, ReplyLost, RecordFitsRow, HeldIsIncomplete, ReadRecords, CurRecord, IsCached, PolledIsActive, DispatchStages
<1>9. CASE Push
  BY <1>9, <1>facts, <1>types, <1>inv, <1>held
     DEF Push, RecordFitsRow, HeldIsIncomplete, ReadRecords, CurRecord, IsCached, PolledIsActive, DispatchStages
<1>10. CASE Cleanup
  BY <1>10, <1>facts, <1>types, <1>inv, <1>held
     DEF Cleanup, DeleteJobCache, NoRecord, RecordFitsRow, HeldIsIncomplete, ReadRecords, CurRecord, IsCached
<1>11. CASE Report
  <2>1. /\ UNCHANGED <<dbStatus, pc, todo, group, cur, cancelled>>
        /\ \A j \in Jobs : cache'[j].status = cache[j].status \/ (j = ejob /\ cache'[j].status = "failed")
    BY <1>11, <1>types, ReportWrites DEF Report
  <2>2. /\ Held(ejob) /\ ejob \in Jobs /\ dbStatus[ejob] \in {"queuing", "failed"}
        /\ cache[ejob].status # "completed"
    BY <1>11, <1>types, <1>inv DEF Report, Held, HeldIsIncomplete, HeldIsRegistered, DBStatuses
  <2>3. \A j \in Jobs : Held(j)' => Held(j)
    BY <1>held, <2>1
  <2>4. RecordFitsRow'
    BY <2>1, <2>2 DEF RecordFitsRow, IsCached
  <2>5. HeldIsIncomplete'
    BY <2>1, <2>2, <2>3 DEF HeldIsIncomplete
  <2>6. ReadRecords'
    BY <1>types, <2>1, <2>2 DEF ReadRecords
  <2>7. CurRecord'
    BY <1>types, <1>inv, <2>1, <2>2, <2>3 DEF CurRecord, IsCached, PushedIsFree
  <2> QED BY <2>4, <2>5, <2>6, <2>7
<1>12. CASE Dequeue \/ ExecuteFails \/ ExecuteSends \/ ChainStep \/ Cancel \/ UNCHANGED vars
  <2>1. UNCHANGED <<cache, dbStatus, pollerVars>> /\ (~cancelled' => ~cancelled)
    BY <1>12 DEF Dequeue, ExecuteFails, ExecuteSends, ChainStep, Cancel, vars
  <2> QED BY <2>1, <1>held, SameVerdicts
<1>13. CASE Register
  BY <1>13, <1>facts, <1>types, <1>inv, <1>held
     DEF Register, CreateJob, RecordFitsRow, HeldIsIncomplete, ReadRecords, CurRecord, IsCached
<1>14. CASE Restart \/ Crash
  BY <1>14, <1>types, <1>held
     DEF Restart, Crash, FreshProcess, RecordFitsRow, HeldIsIncomplete, ReadRecords, CurRecord, IsCached
<1>15. CASE Expire
  BY <1>15, <1>facts DEF Expire
<1> QED
  BY <1>1, <1>2, <1>3, <1>4, <1>5, <1>6, <1>7, <1>8, <1>9, <1>10, <1>11, <1>12, <1>13,
     <1>14, <1>15 DEF Next, PollerStep, ExecutorStep

--------------------------------------------------------------------------------
(* Operations are sent one after the other.                                     *)

\* A poller step touches neither the executor nor the chain.
LEMMA PollerOnly ==
    ASSUME PollerStep
    PROVE  UNCHANGED <<log, now, ops, epc, ejob, ehash, cancelled>>
BY DEF PollerStep, ReadPending, CheckChain, CheckReceipt, ReceiptsDone, ReadForSync,
       SyncRow, SyncDelete, SyncDone, LoadActive, FetchConfig, FetchDone, FilterJob,
       MarkCompleted, FilterDone, AddToCache, Push, Cleanup, EnqueueDone,
       executorVars, chainVars

\* Only a push makes a job wait.
LEMMA WaitsByPush ==
    ASSUME TypeOK, [Next]_vars, NEW j \in Jobs, Waiting(j)'
    PROVE  Waiting(j) \/ (pc = "push" /\ pc' # "push" /\ j = cur)
<1> USE DEF TypeOK, Waiting
<1>1. CASE epc' = "exec" /\ ejob' = j /\ ~Queued(j)'
  <2>1. CASE Dequeue
    <3>1. PICK i \in Jobs : DequeueJob(i) /\ (UNCHANGED <<epc, ejob>> \/ ejob' = i) /\ epc = "idle"
      BY <2>1 DEF Dequeue
    <3> QED BY <1>1, <3>1, PopQueue
  <2>2. CASE ~Dequeue
    <3>1. UNCHANGED <<epc, ejob>> \/ epc' # "exec"
      BY <2>2, PollerOnly
         DEF Next, ExecutorStep, ExecuteFails, ExecuteSends, Report, Register, ChainStep, Expire,
             Cancel, Restart, Crash, FreshProcess, vars, executorVars
    <3> QED BY <1>1, <3>1
  <2> QED BY <2>1, <2>2
<1>2. CASE Queued(j)'
  <2>1. CASE Push
    <3>1. cur \in Jobs /\ pc = "push" /\ pc' # "push" /\ (EnqueueJob(cur) \/ queue' = queue)
      BY <2>1 DEF Push, CurStages
    <3> QED BY <1>2, <3>1, PushQueue DEF Queued
  <2>2. CASE Dequeue
    BY <1>2, <2>2, PopQueue DEF Dequeue
  <2>3. CASE ~Push /\ ~Dequeue
    <3>1. UNCHANGED queue
      BY <2>3
         DEF Next, PollerStep, ReadPending, CheckChain, CheckReceipt, ReceiptsDone, ReadForSync,
             SyncRow, SyncDelete, SyncDone, LoadActive, FetchConfig, FetchDone, FilterJob,
             MarkCompleted, FilterDone, AddToCache, Cleanup, EnqueueDone,
             ExecutorStep, ExecuteFails, ExecuteSends, Report, Register, ChainStep, Expire,
             Cancel, Restart, Crash, vars, cacheVars
    <3> QED BY <1>2, <3>1 DEF Queued
  <2> QED BY <2>1, <2>2, <2>3
<1> QED BY <1>1, <1>2

\* What a step may do to the operations of a job: the executor sends one, or the
\* chain decides about some that are pending.
Decided(j) ==
    /\ Len(ops'[j]) = Len(ops[j])
    /\ \A k \in 1 .. Len(ops[j]) :
         ops'[j][k] = ops[j][k] \/ (ops[j][k] = "pending" /\ ops'[j][k] # "pending")

LEMMA OpsStep ==
    ASSUME TypeOK, [Next]_vars, NEW j \in Jobs
    PROVE  \/ ops'[j] = ops[j]
           \/ ExecuteSends /\ j = ejob /\ ops'[j] = Append(ops[j], "pending")
           \/ ChainStep /\ Decided(j)
<1> USE DEF TypeOK
<1>1. CASE ExecuteSends
  BY <1>1 DEF ExecuteSends, SendUserOperation
<1>2. CASE ChainStep
  <2>1. CASE Tick \/ \E i \in Jobs : ConfigureOnChain(i) \/ SwitchJob(i)
    BY <2>1 DEF Tick, ConfigureOnChain, SwitchJob
  <2>2. ASSUME NEW i \in Jobs, NEW k \in 1 .. MaxOps, IncludeOp(i, k) \/ RevertOp(i, k) \/ DropOp(i, k)
        PROVE  ops'[j] = ops[j] \/ Decided(j)
    <3>1. /\ k \in 1 .. Len(ops[i]) /\ ops[i][k] = "pending"
          /\ \E outcome \in {"success", "reverted", "dropped"} :
               ops' = [ops EXCEPT ![i] = [ops[i] EXCEPT ![k] = outcome]]
      BY <2>2 DEF IncludeOp, RevertOp, DropOp
    <3>2. PICK outcome \in {"success", "reverted", "dropped"} :
            ops' = [ops EXCEPT ![i] = [ops[i] EXCEPT ![k] = outcome]]
      BY <3>1
    <3>3. CASE i = j
      <4>1. ops'[j] = [ops[j] EXCEPT ![k] = outcome]
        BY <3>2, <3>3
      <4> QED BY <3>1, <3>3, <4>1 DEF Decided
    <3>4. CASE i # j
      BY <3>2, <3>4
    <3> QED BY <3>3, <3>4
  <2>3. ASSUME NEW i \in Jobs, ExecuteBeside(i)
        PROVE  ops'[j] = ops[j] \/ Decided(j)
    <3>1. CASE i = j
      <4>1. ops'[j] = WithoutPending(ops[j]) /\ ops[j] \in Seq(OpStatuses)
        BY <2>3, <3>1 DEF ExecuteBeside
      <4> QED BY <4>1, WithoutPendingType DEF Decided
    <3>2. CASE i # j
      BY <2>3, <3>2 DEF ExecuteBeside
    <3> QED BY <3>1, <3>2
  <2> QED BY <1>2, <2>1, <2>2, <2>3 DEF ChainStep
<1>3. CASE ~ExecuteSends /\ ~ChainStep
  <2>1. UNCHANGED ops
    BY <1>3, PollerOnly
       DEF Next, ExecutorStep, Dequeue, ExecuteFails, Report, Register, Expire, Cancel,
           Restart, Crash, vars, chainVars
  <2> QED BY <2>1
<1> QED BY <1>1, <1>2, <1>3

\* A job whose operations have all succeeded stays settled until the executor
\* sends the next one.
LEMMA SettledStays ==
    ASSUME TypeOK, [Next]_vars, NEW j \in Jobs, AllOpsSucceeded(j)
    PROVE  /\ ops'[j] = ops[j] \/ (ExecuteSends /\ j = ejob)
           /\ AllOpsSucceeded(j)' \/ (ExecuteSends /\ j = ejob)
<1>1. ops[j] \in Seq(OpStatuses) /\ ops'[j] \in Seq(OpStatuses)
  BY TypeNext DEF TypeOK
<1>2. CASE Decided(j)
  <2>1. Len(ops'[j]) = Len(ops[j]) /\ \A k \in 1 .. Len(ops[j]) : ops'[j][k] = ops[j][k]
    BY <1>2 DEF Decided, AllOpsSucceeded
  <2>2. ops'[j] = ops[j]
    BY <1>1, <2>1
  <2> QED BY <2>2 DEF AllOpsSucceeded
<1> QED BY <1>2, OpsStep DEF AllOpsSucceeded

\* Whatever is not a send changes at most the outcome of the last operation, and
\* that only while it is pending.
LEMMA QuietOps ==
    ASSUME TypeOK, EarlierOpsSucceeded, [Next]_vars, ~ExecuteSends, NEW j \in Jobs
    PROVE  /\ Len(ops'[j]) = Len(ops[j])
           /\ \A k \in 1 .. Len(ops[j]) : ops'[j][k] = ops[j][k]
                \/ (k = Len(ops[j]) /\ ops[j][k] = "pending")
           /\ AllOpsSucceeded(j) => AllOpsSucceeded(j)'
           /\ ops[j] = <<>> => ops'[j] = <<>>
<1>1. ops[j] \in Seq(OpStatuses) /\ ops'[j] \in Seq(OpStatuses)
  BY TypeNext DEF TypeOK
<1>2. CASE ops'[j] = ops[j]
  BY <1>2 DEF AllOpsSucceeded
<1>3. CASE Decided(j)
  <2>1. \A k \in 1 .. Len(ops[j]) : ops[j][k] = "pending" => k = Len(ops[j])
    BY <1>1 DEF EarlierOpsSucceeded
  <2> QED BY <1>1, <1>3, <2>1 DEF Decided, AllOpsSucceeded
<1> QED BY <1>2, <1>3, OpsStep

\* What the verdict on a receipt writes.
LEMMA VerdictEffect ==
    ASSUME TypeOK, NEW i \in Jobs, NEW j \in Jobs, Verdict(i)
    PROVE  \/ cache'[j] = cache[j]
           \/ j = i /\ cache'[j].status = "failed" /\ cache'[j].reason # "onchain"
           \/ /\ j = i /\ cache'[j].status = "failed" /\ seen[i].hash # ZeroHash
              /\ ops[i][seen[i].hash] = "reverted"
           \/ /\ j = i /\ cache'[j] = NoRecord /\ seen[i].hash # ZeroHash
              /\ ops[i][seen[i].hash] = "success"
<1>1. cache \in [Jobs -> JobCaches]
  BY DEF TypeOK
<1> QED
  BY <1>1 DEF Verdict, SetJobStatusFailed, SetJobStatus, DeleteJobCache, Receipt

\* Hashes stay those of the last operations while nothing is sent and records are
\* only written without a hash.
LEMMA HashesStay ==
    ASSUME HashIsLast, UNCHANGED <<ops, epc, ejob, ehash>>,
           \A j \in Jobs : cache'[j].status = "pending"
             => cache'[j] = cache[j] \/ cache'[j].hash = ZeroHash,
           pc' = "receipts" =>
             pc = "receipts" /\ todo' \cup group' \subseteq todo \cup group /\ seen' = seen
    PROVE  HashIsLast'
<1>1. (\A j \in Jobs : cache[j].status = "pending" /\ cache[j].hash # ZeroHash
         => cache[j].hash = Len(ops[j]))'
  BY DEF HashIsLast
<1>2. (ehash # ZeroHash => epc = "report" /\ ehash = Len(ops[ejob]))'
  BY DEF HashIsLast
<1>3. (pc = "receipts" =>
        \A j \in todo \cup group : seen[j].hash # ZeroHash => seen[j].hash = Len(ops[j]))'
  BY DEF HashIsLast
<1> QED BY <1>1, <1>2, <1>3 DEF HashIsLast

\* Nothing is sent in the beginning.
LEMMA SettledInit == Init => SettledInv
BY DEF Init, SettledInv, EarlierOpsSucceeded, DispatchableIsSettled, WaitingIsSettled,
       CompletedIsSettled, PickedIsSettled, HashIsLast, UnregisteredIsUnsent,
       AllOpsSucceeded, Waiting, Queued, NoSnapshot, NoRecord

\* A step keeps the operations settled where they have to be.
LEMMA SettledNext ==
    ASSUME ReliableCache, DispatchInv, VerdictInv, SettledInv, [Next]_vars
    PROVE  SettledInv'
<1> USE DEF SettledInv, pollerVars, executorVars, cacheVars, storeVars, chainVars
<1>facts. /\ ~MayFail("lostreply") /\ ~MayFail("get") /\ ~MayFail("expiry") /\ ZeroHash = 0
  BY DEF ReliableCache, MayFail, ZeroHash
<1>types. /\ cache \in [Jobs -> JobCaches] /\ dbStatus \in [Jobs -> DBStatuses]
          /\ todo \subseteq Jobs /\ group \subseteq Jobs /\ active \subseteq Jobs
          /\ picked \subseteq Jobs /\ seen \in [Jobs -> JobCaches]
          /\ (pc \in CurStages => cur \in Jobs) /\ (epc # "idle" => ejob \in Jobs)
          /\ CurStages = {"delFailed", "delCompleted", "complete", "push", "cleanup"}
          /\ ops \in [Jobs -> Seq(OpStatuses)] /\ ehash \in Nat
          /\ TypeOK
  BY DEF DispatchInv, TypeOK, CurStages
<1>inv. /\ UncachedActiveIsFree /\ HeldIsRegistered /\ HashedIsFree /\ StageSets
        /\ PolledIsActive /\ PickedIsFree /\ PushedIsFree /\ NoDuplicateDispatch
        /\ RecordFitsRow /\ HeldIsIncomplete /\ ReadRecords /\ CurRecord
  BY DEF DispatchInv, VerdictInv
<1>waits. \A j \in Jobs : Waiting(j)' => Waiting(j) \/ (pc = "push" /\ pc' # "push" /\ j = cur)
  BY <1>types, WaitsByPush
<1>poller. PollerStep =>
             /\ UNCHANGED <<ops, epc, ejob, ehash, cancelled>>
             /\ EarlierOpsSucceeded'
             /\ \A j \in Jobs : AllOpsSucceeded(j)' <=> AllOpsSucceeded(j)
  BY PollerOnly DEF EarlierOpsSucceeded, AllOpsSucceeded
<1>1. CASE ReadPending
  <2>1. PollerStep
    BY <1>1 DEF PollerStep
  <2> QED
    BY <1>1, <2>1, <1>facts, <1>types, <1>inv, <1>poller, <1>waits
       DEF ReadPending, JobCachesByStatus, Snapshot, DispatchableIsSettled, WaitingIsSettled, CompletedIsSettled, PickedIsSettled, HashIsLast, UnregisteredIsUnsent, IsCached, StageSets
<1>2. CASE CheckChain \/ ReceiptsDone
  <2>1. PollerStep
    BY <1>2 DEF PollerStep
  <2> QED
    BY <1>2, <2>1, <1>facts, <1>types, <1>inv, <1>poller, <1>waits
       DEF CheckChain, ReceiptsDone, DispatchableIsSettled, WaitingIsSettled, CompletedIsSettled, PickedIsSettled, HashIsLast, UnregisteredIsUnsent, IsCached
<1>3. CASE CheckReceipt
  <2>1. PollerStep
    BY <1>3 DEF PollerStep
  <2>2. PICK i \in group : group' = group \ {i} /\ (Verdict(i) \/ UNCHANGED cache)
    BY <1>3 DEF CheckReceipt
  <2>3. UNCHANGED <<dbStatus, pc, todo, seen, active, picked, cur>> /\ pc = "receipts"
    BY <1>3 DEF CheckReceipt
  <2>4. \A j \in Jobs :
          \/ cache'[j] = cache[j]
          \/ j = i /\ cache'[j].status = "failed"
          \/ j = i /\ AllOpsSucceeded(i) /\ cache'[j] = NoRecord
    <3>1. CASE Verdict(i)
      <4>1. i \in Jobs /\ (seen[i].hash # ZeroHash => seen[i].hash = Len(ops[i]))
        BY <1>types, <2>3 DEF HashIsLast
      <4>2. ops[i][Len(ops[i])] = "success" => AllOpsSucceeded(i)
        BY <1>types, <4>1 DEF EarlierOpsSucceeded, AllOpsSucceeded
      <4> QED BY <1>types, <3>1, <4>1, <4>2, VerdictEffect
    <3> QED BY <2>2, <3>1
  <2>5. DispatchableIsSettled'
    BY <1>poller, <2>1, <2>3, <2>4 DEF DispatchableIsSettled, IsCached
  <2>6. WaitingIsSettled'
    BY <1>poller, <1>waits, <2>1, <2>3 DEF WaitingIsSettled
  <2>7. CompletedIsSettled'
    BY <1>poller, <2>1, <2>4 DEF CompletedIsSettled, NoRecord
  <2>8. PickedIsSettled'
    BY <1>types, <1>poller, <2>1, <2>3 DEF PickedIsSettled
  <2>9. HashIsLast'
    <3>1. \A j \in Jobs : cache'[j].status = "pending" => cache'[j] = cache[j]
      BY <2>4 DEF NoRecord
    <3> QED BY <1>poller, <2>1, <2>2, <2>3, <3>1, HashesStay
  <2>10. UnregisteredIsUnsent'
    BY <1>poller, <2>1, <2>3 DEF UnregisteredIsUnsent
  <2> QED BY <1>poller, <2>1, <2>5, <2>6, <2>7, <2>8, <2>9, <2>10
<1>4. ASSUME NEW status \in {"failed", "completed"},
             ReadForSync(status) \/ SyncRow(status) \/ SyncDelete(status) \/ SyncDone(status)
      PROVE  SettledInv'
  <2> USE DEF ReadStage, SyncStage, DeleteStage, AfterSync
  <2>0. PollerStep
    BY <1>4 DEF PollerStep
  <2>1. CASE ReadForSync(status)
    BY <2>1, <2>0, <1>facts, <1>types, <1>inv, <1>poller, <1>waits
       DEF ReadForSync, JobCachesByStatus, DispatchableIsSettled, WaitingIsSettled, CompletedIsSettled, PickedIsSettled, HashIsLast, UnregisteredIsUnsent, IsCached, PolledIsActive
  <2>2. CASE SyncRow(status)
    BY <2>2, <2>0, <1>facts, <1>types, <1>inv, <1>poller, <1>waits
       DEF SyncRow, UpdateJobStatus, ConvertCacheStatusToDBStatus, DispatchableIsSettled, WaitingIsSettled, CompletedIsSettled, PickedIsSettled, HashIsLast, UnregisteredIsUnsent, IsCached, PolledIsActive
  <2>3. CASE SyncDelete(status)
    <3>1. /\ UNCHANGED <<dbStatus, group, seen, active, picked, todo>> /\ pc = DeleteStage(status)
          /\ cur \in Jobs /\ pc' = SyncStage(status)
      BY <2>3, <1>types DEF SyncDelete
    <3>2. \A j \in Jobs : cache'[j] = cache[j] \/ (j = cur /\ cache'[j].status = "absent")
      BY <2>3, <1>types DEF SyncDelete, DeleteJobCache, NoRecord
    <3>3. dbStatus[cur] # "queuing"
      BY <1>inv, <3>1 DEF PolledIsActive
    <3>4. DispatchableIsSettled'
      BY <1>poller, <2>0, <3>1, <3>2, <3>3 DEF DispatchableIsSettled, IsCached
    <3>5. WaitingIsSettled'
      BY <1>poller, <1>waits, <2>0, <3>1 DEF WaitingIsSettled
    <3>6. CompletedIsSettled'
      BY <1>poller, <2>0, <3>2 DEF CompletedIsSettled
    <3>7. PickedIsSettled'
      BY <1>types, <1>poller, <2>0, <3>1 DEF PickedIsSettled
    <3>8. HashIsLast'
      BY <1>poller, <2>0, <3>1, <3>2, HashesStay
    <3>9. UnregisteredIsUnsent'
      BY <1>poller, <2>0, <3>1 DEF UnregisteredIsUnsent
    <3> QED BY <1>poller, <2>0, <3>4, <3>5, <3>6, <3>7, <3>8, <3>9
  <2>4. CASE SyncDone(status)
    BY <2>4, <2>0, <1>facts, <1>types, <1>inv, <1>poller, <1>waits
       DEF SyncDone, DispatchableIsSettled, WaitingIsSettled, CompletedIsSettled, PickedIsSettled, HashIsLast, UnregisteredIsUnsent, IsCached, PolledIsActive
  <2> QED BY <1>4, <2>1, <2>2, <2>3, <2>4
<1>5. CASE LoadActive \/ FetchConfig \/ FetchDone \/ FilterDone \/ EnqueueDone
  <2>1. PollerStep
    BY <1>5 DEF PollerStep
  <2> QED
    BY <1>5, <2>1, <1>facts, <1>types, <1>inv, <1>poller, <1>waits
       DEF LoadActive, FetchConfig, FetchDone, FilterDone, EnqueueDone, EndPoll, DispatchableIsSettled, WaitingIsSettled, CompletedIsSettled, PickedIsSettled, HashIsLast, UnregisteredIsUnsent, IsCached
<1>6. CASE FilterJob
  <2>1. PollerStep
    BY <1>6 DEF PollerStep
  <2> QED
    BY <1>6, <2>1, <1>facts, <1>types, <1>inv, <1>poller, <1>waits
       DEF FilterJob, IsJobInCache, RedisUp, DispatchableIsSettled, WaitingIsSettled, CompletedIsSettled, PickedIsSettled, HashIsLast, UnregisteredIsUnsent, IsCached, PolledIsActive, DispatchStages
<1>7. CASE MarkCompleted
  <2>1. PollerStep
    BY <1>7 DEF PollerStep
  <2>2. /\ UNCHANGED <<dbStatus, group, seen, active, picked>> /\ pc = "complete"
        /\ cur \in Jobs /\ pc' # "receipts"
    BY <1>7, <1>types DEF MarkCompleted
  <2>3. \A j \in Jobs : cache'[j] = cache[j] \/ (j = cur /\ ~cancelled /\ cache'[j].status = "completed")
    BY <1>7, <1>types DEF MarkCompleted, SetJobStatus, RedisUp
  <2>4. DispatchableIsSettled'
    BY <1>poller, <2>1, <2>2, <2>3 DEF DispatchableIsSettled, PickedIsSettled, IsCached
  <2>5. WaitingIsSettled'
    BY <1>poller, <1>waits, <2>1, <2>2 DEF WaitingIsSettled
  <2>6. CompletedIsSettled'
    BY <1>poller, <2>1, <2>2, <2>3 DEF CompletedIsSettled, PickedIsSettled
  <2>7. PickedIsSettled'
    BY <1>7, <1>types, <1>inv, <1>poller, <2>1 DEF MarkCompleted, PickedIsSettled
  <2>8. HashIsLast'
    BY <1>poller, <2>1, <2>2, <2>3, HashesStay
  <2>9. UnregisteredIsUnsent'
    BY <1>poller, <2>1, <2>2 DEF UnregisteredIsUnsent
  <2> QED BY <1>poller, <2>1, <2>4, <2>5, <2>6, <2>7, <2>8, <2>9
<1>8. CASE AddToCache
  <2>1. PollerStep
    BY <1>8 DEF PollerStep
  <2>2. PICK i \in todo :
          /\ todo' = todo \ {i}
          /\ \/ AddJobCache(i) /\ ~cancelled /\ pc' = "push" /\ cur' = i
             \/ UNCHANGED <<cache, pc, cur>>
    BY <1>8, <1>facts DEF AddToCache, RedisUp, ReplyLost
  <2>3. /\ UNCHANGED <<dbStatus, group, seen, active, picked>> /\ pc = "enqueue"
        /\ i \in Jobs /\ pc' # "receipts"
    BY <1>8, <1>types, <2>2 DEF AddToCache
  <2>4. \A j \in Jobs : \/ cache'[j] = cache[j]
                        \/ cache'[j].status = "pending" /\ cache'[j].hash = ZeroHash
    BY <1>types, <2>2 DEF AddJobCache
  <2>5. DispatchableIsSettled'
    BY <1>poller, <2>1, <2>3, <2>4 DEF DispatchableIsSettled, IsCached
  <2>6. WaitingIsSettled'
    BY <1>poller, <1>waits, <2>1, <2>3 DEF WaitingIsSettled
  <2>7. CompletedIsSettled'
    BY <1>poller, <2>1, <2>4 DEF CompletedIsSettled
  <2>8. PickedIsSettled'
    BY <1>types, <1>poller, <2>1, <2>2, <2>3 DEF PickedIsSettled
  <2>9. HashIsLast'
    BY <1>poller, <2>1, <2>3, <2>4, HashesStay
  <2>10. UnregisteredIsUnsent'
    BY <1>poller, <2>1, <2>3 DEF UnregisteredIsUnsent
  <2> QED BY <1>poller, <2>1, <2>5, <2>6, <2>7, <2>8, <2>9, <2>10
<1>9. CASE Push
  <2>1. PollerStep
    BY <1>9 DEF PollerStep
  <2> QED
    BY <1>9, <2>1, <1>facts, <1>types, <1>inv, <1>poller, <1>waits
       DEF Push, RedisUp, DispatchableIsSettled, WaitingIsSettled, CompletedIsSettled, PickedIsSettled, HashIsLast, UnregisteredIsUnsent, IsCached, PolledIsActive, DispatchStages
<1>10. CASE Cleanup
  <2>1. PollerStep
    BY <1>10 DEF PollerStep
  <2>2. /\ UNCHANGED <<dbStatus, group, seen, active, picked>> /\ pc = "cleanup"
        /\ cur \in Jobs /\ pc' # "receipts"
    BY <1>10, <1>types DEF Cleanup
  <2>3. \A j \in Jobs : cache'[j] = cache[j] \/ (j = cur /\ ~cancelled /\ cache'[j].status = "absent")
    BY <1>10, <1>types DEF Cleanup, DeleteJobCache, NoRecord, RedisUp
  <2>4. DispatchableIsSettled'
    BY <1>poller, <2>1, <2>2, <2>3 DEF DispatchableIsSettled, PickedIsSettled, IsCached
  <2>5. WaitingIsSettled'
    BY <1>poller, <1>waits, <2>1, <2>2 DEF WaitingIsSettled
  <2>6. CompletedIsSettled'
    BY <1>poller, <2>1, <2>2, <2>3 DEF CompletedIsSettled, PickedIsSettled
  <2>7. PickedIsSettled'
    BY <1>10, <1>types, <1>inv, <1>poller, <2>1 DEF Cleanup, PickedIsSettled
  <2>8. HashIsLast'
    BY <1>poller, <2>1, <2>2, <2>3, HashesStay
  <2>9. UnregisteredIsUnsent'
    BY <1>poller, <2>1, <2>2 DEF UnregisteredIsUnsent
  <2> QED BY <1>poller, <2>1, <2>4, <2>5, <2>6, <2>7, <2>8, <2>9
<1>11. CASE Dequeue \/ ExecuteFails \/ ChainStep \/ Register \/ Cancel \/ UNCHANGED vars
  <2>1. /\ UNCHANGED <<cache, pollerVars>> /\ (~cancelled' => ~cancelled)
        /\ \A j \in Jobs : dbStatus'[j] = dbStatus[j]
                             \/ (dbStatus[j] = "unregistered" /\ dbStatus'[j] # "unregistered")
    BY <1>11, <1>types
       DEF Dequeue, ExecuteFails, ChainStep, Register, CreateJob, Cancel, vars
  <2>2. ehash' = ehash /\ (ehash # ZeroHash => epc' = epc /\ ejob' = ejob)
    BY <1>11, <1>types DEF Dequeue, ExecuteFails, ChainStep, Register, Cancel, vars, HashIsLast
  <2>3. ~ExecuteSends
    <3>1. CASE ExecuteFails /\ ExecuteSends
      <4>1. ejob \in Jobs /\ ops'[ejob] = ops[ejob] /\ ops'[ejob] = Append(ops[ejob], "pending")
        BY <1>types, <3>1 DEF ExecuteFails, ExecuteSends, SendUserOperation
      <4>2. Len(Append(ops[ejob], "pending")) = Len(ops[ejob]) + 1 /\ Len(ops[ejob]) \in Nat
        BY <1>types, <4>1
      <4> QED BY <4>1, <4>2
    <3> QED BY <1>11, <3>1 DEF Dequeue, ExecuteSends, ChainStep, Register, Cancel, vars
  <2>4. \A j \in Jobs :
          /\ Len(ops'[j]) = Len(ops[j])
          /\ \A k \in 1 .. Len(ops[j]) : ops'[j][k] = ops[j][k]
               \/ (k = Len(ops[j]) /\ ops[j][k] = "pending")
          /\ AllOpsSucceeded(j) => AllOpsSucceeded(j)'
          /\ ops[j] = <<>> => ops'[j] = <<>>
    BY <1>types, <2>3, QuietOps
  <2>5. EarlierOpsSucceeded'
    <3> SUFFICES ASSUME NEW j \in Jobs, NEW k \in 1 .. Len(ops'[j]) - 1
                 PROVE  ops'[j][k] = "success"
      BY DEF EarlierOpsSucceeded
    <3>1. Len(ops[j]) \in Nat
      BY <1>types
    <3>2. k \in 1 .. Len(ops[j]) /\ k # Len(ops[j]) /\ ops[j][k] = "success"
      BY <2>4, <3>1 DEF EarlierOpsSucceeded
    <3> QED BY <2>4, <3>2
  <2>6. DispatchableIsSettled'
    <3>1. \A j \in Jobs : ops[j] = <<>> => AllOpsSucceeded(j)
      BY DEF AllOpsSucceeded
    <3> QED BY <2>1, <2>4, <3>1 DEF DispatchableIsSettled, IsCached, UnregisteredIsUnsent
  <2>7. WaitingIsSettled'
    BY <1>waits, <2>1, <2>4 DEF WaitingIsSettled
  <2>8. CompletedIsSettled'
    BY <2>1, <2>4 DEF CompletedIsSettled
  <2>9. PickedIsSettled'
    BY <1>types, <2>1, <2>4 DEF PickedIsSettled
  <2>10. HashIsLast'
    BY <1>types, <2>1, <2>2, <2>4 DEF HashIsLast
  <2>11. UnregisteredIsUnsent'
    BY <2>1, <2>4 DEF UnregisteredIsUnsent
  <2> QED BY <2>5, <2>6, <2>7, <2>8, <2>9, <2>10, <2>11
<1>12. CASE ExecuteSends
  <2>1. /\ UNCHANGED <<cache, queue, dbStatus, pollerVars, cancelled, ejob>>
        /\ ejob \in Jobs /\ epc = "exec" /\ epc' = "report"
        /\ ops' = [ops EXCEPT ![ejob] = Append(ops[ejob], "pending")]
        /\ ehash' = ehash \/ ehash' = Len(ops[ejob]) + 1
    BY <1>12, <1>types DEF ExecuteSends, SendUserOperation
  <2>2. /\ Held(ejob) /\ Waiting(ejob) /\ AllOpsSucceeded(ejob) /\ ehash = ZeroHash
        /\ ~Queued(ejob)
    BY <1>inv, <1>types, <2>1
       DEF Held, Waiting, WaitingIsSettled, HashIsLast, NoDuplicateDispatch
  <2>3. /\ Len(ops'[ejob]) = Len(ops[ejob]) + 1 /\ Len(ops[ejob]) \in Nat
        /\ \A k \in 1 .. Len(ops[ejob]) : ops'[ejob][k] = ops[ejob][k]
        /\ \A j \in Jobs : j # ejob =>
             ops'[j] = ops[j] /\ (AllOpsSucceeded(j)' <=> AllOpsSucceeded(j))
    BY <1>types, <2>1 DEF AllOpsSucceeded
  <2>4. EarlierOpsSucceeded'
    BY <2>2, <2>3 DEF EarlierOpsSucceeded, AllOpsSucceeded
  <2>5. DispatchableIsSettled'
    BY <1>inv, <2>1, <2>2, <2>3 DEF DispatchableIsSettled, UncachedActiveIsFree, IsCached
  <2>6. WaitingIsSettled'
    BY <1>waits, <2>1, <2>2, <2>3 DEF WaitingIsSettled, Waiting, Queued
  <2>7. CompletedIsSettled'
    BY <1>inv, <2>1, <2>2, <2>3 DEF CompletedIsSettled, HeldIsIncomplete
  <2>8. PickedIsSettled'
    BY <1>inv, <1>types, <2>1, <2>2, <2>3
       DEF PickedIsSettled, PickedIsFree, PushedIsFree, CurRecord
  <2>9. HashIsLast'
    BY <1>inv, <1>types, <2>1, <2>2, <2>3 DEF HashIsLast, HashedIsFree
  <2>10. UnregisteredIsUnsent'
    BY <1>inv, <2>1, <2>2, <2>3 DEF UnregisteredIsUnsent, HeldIsRegistered
  <2> QED BY <2>4, <2>5, <2>6, <2>7, <2>8, <2>9, <2>10
<1>13. CASE Report
  <2>1. /\ UNCHANGED <<ops, dbStatus, pollerVars, cancelled>> /\ ehash' = ZeroHash
        /\ \A j \in Jobs : AllOpsSucceeded(j)' <=> AllOpsSucceeded(j)
        /\ epc = "report"
    BY <1>13 DEF Report, AllOpsSucceeded
  <2>2. \A j \in Jobs :
          \/ cache'[j] = cache[j]
          \/ cache'[j].status = "failed"
          \/ /\ cache'[j].status = cache[j].status /\ cache[j].status # "absent"
             /\ cache'[j].hash = Len(ops[j])
    BY <1>13, <1>types, ReportWrites DEF HashIsLast
  <2>3. EarlierOpsSucceeded'
    BY <2>1 DEF EarlierOpsSucceeded
  <2>4. DispatchableIsSettled'
    BY <2>1, <2>2 DEF DispatchableIsSettled, IsCached
  <2>5. WaitingIsSettled'
    BY <1>waits, <2>1 DEF WaitingIsSettled
  <2>6. CompletedIsSettled'
    BY <2>1, <2>2 DEF CompletedIsSettled
  <2>7. PickedIsSettled'
    BY <1>types, <2>1 DEF PickedIsSettled
  <2>8. HashIsLast'
    BY <2>1, <2>2 DEF HashIsLast
  <2>9. UnregisteredIsUnsent'
    BY <2>1 DEF UnregisteredIsUnsent
  <2> QED BY <2>3, <2>4, <2>5, <2>6, <2>7, <2>8, <2>9
<1>14. CASE Restart \/ Crash
  <2>1. /\ UNCHANGED <<cache, queue, dbStatus, ops>> /\ pc' = "idle" /\ picked' = {}
        /\ epc' = "idle" /\ ehash' = ZeroHash
        /\ \A j \in Jobs : AllOpsSucceeded(j)' <=> AllOpsSucceeded(j)
    BY <1>14 DEF Restart, Crash, FreshProcess, AllOpsSucceeded
  <2> QED
    BY <1>types, <2>1
       DEF EarlierOpsSucceeded, DispatchableIsSettled, WaitingIsSettled, CompletedIsSettled,
           PickedIsSettled, HashIsLast, UnregisteredIsUnsent, Waiting, Queued, IsCached
<1>15. CASE Expire
  BY <1>15, <1>facts DEF Expire
<1> QED
  BY <1>1, <1>2, <1>3, <1>4, <1>5, <1>6, <1>7, <1>8, <1>9, <1>10, <1>11, <1>12, <1>13,
     <1>14, <1>15 DEF Next, PollerStep, ExecutorStep

--------------------------------------------------------------------------------
(* Failures on chain are real.                                                  *)

\* Nothing has failed at the start.
LEMMA RevertInit == Init => RevertInv
BY DEF Init, RevertInv, NoSnapshot, NoRecord

\* A job whose last operation has reverted gets no other one.
LEMMA RevertedStays ==
    ASSUME TypeOK, SettledInv, [Next]_vars, NEW j \in Jobs, Reverted(j)
    PROVE  Reverted(j)'
<1>1. ops[j] \in Seq(OpStatuses) /\ Len(ops[j]) \in 1 .. Len(ops[j])
  BY DEF TypeOK, Reverted
<1>2. ~AllOpsSucceeded(j)
  BY <1>1 DEF Reverted, AllOpsSucceeded
<1>3. ~Held(j)'
  BY <1>2, HeldByPush DEF Reverted, SettledInv, PickedIsSettled
<1>4. CASE ExecuteSends
  BY <1>4, <1>1, <1>3, OpsStep DEF Reverted, ExecuteSends, ChainStep, Held, executorVars
<1>5. CASE ~ExecuteSends
  <2>1. /\ Len(ops'[j]) = Len(ops[j])
        /\ ops'[j][Len(ops[j])] = ops[j][Len(ops[j])]
    BY <1>1, <1>5, QuietOps DEF SettledInv, Reverted
  <2>2. ops'[j] # <<>>
    BY <1>1, <2>1
  <2> QED BY <1>3, <2>1, <2>2 DEF Reverted
<1> QED BY <1>4, <1>5

\* The verdict "onchain" is written by the receipt check alone, and then the
\* operation of the receipt is the last one and has reverted.
LEMMA OnChainRecords ==
    ASSUME DispatchInv, SettledInv, RevertInv, [Next]_vars, NEW j \in Jobs,
           cache'[j].status = "failed", cache'[j].reason = "onchain"
    PROVE  Reverted(j)
<1> USE DEF pollerVars, executorVars, cacheVars, storeVars, chainVars
<1>types. /\ cache \in [Jobs -> JobCaches] /\ group \subseteq Jobs
          /\ ops \in [Jobs -> Seq(OpStatuses)]
          /\ (pc \in CurStages => cur \in Jobs) /\ todo \subseteq Jobs
          /\ CurStages = {"delFailed", "delCompleted", "complete", "push", "cleanup"}
          /\ TypeOK
  BY DEF DispatchInv, TypeOK, CurStages
<1>same. ASSUME cache'[j] = cache[j] PROVE Reverted(j)
  BY <1>same DEF RevertInv
<1>1. CASE CheckReceipt
  <2>1. PICK i \in group : Verdict(i) \/ UNCHANGED cache
    BY <1>1 DEF CheckReceipt
  <2>2. CASE UNCHANGED cache
    BY <2>2, <1>same
  <2>3. CASE Verdict(i)
    <3>1. i \in Jobs /\ pc = "receipts"
      BY <1>1, <1>types DEF CheckReceipt
    <3>2. cache'[j] = cache[j]
            \/ (j = i /\ seen[i].hash # ZeroHash /\ ops[i][seen[i].hash] = "reverted")
      BY <1>types, <2>3, <3>1, VerdictEffect DEF NoRecord
    <3>3. CASE j = i /\ seen[i].hash # ZeroHash /\ ops[i][seen[i].hash] = "reverted"
      <4>1. seen[j].hash = Len(ops[j]) /\ ~Held(j)
        BY <3>1, <3>3 DEF DispatchInv, SettledInv, HashedIsFree, HashIsLast
      <4>2. ops[j] # <<>>
        BY <3>3, <4>1 DEF ZeroHash
      <4> QED BY <3>3, <4>1, <4>2 DEF Reverted
    <3> QED BY <3>2, <3>3, <1>same
  <2> QED BY <2>1, <2>2, <2>3
<1>2. CASE Report
  <2>1. \/ cache'[j] = cache[j]
        \/ cache'[j].status = cache[j].status /\ cache'[j].reason = cache[j].reason
    BY <1>2, <1>types, ReportWrites
  <2> QED BY <1>same, <2>1 DEF RevertInv
<1>3. CASE PollerStep /\ ~CheckReceipt
  <2>1. \/ cache'[j] = cache[j]
        \/ \E i \in Jobs : SetJobStatus(i, "completed", "none") \/ AddJobCache(i) \/ DeleteJobCache(i)
    BY <1>3, <1>types
       DEF PollerStep, ReadPending, CheckChain, ReceiptsDone, ReadForSync, SyncRow, SyncDelete,
           SyncDone, LoadActive, FetchConfig, FetchDone, FilterJob, MarkCompleted, FilterDone,
           AddToCache, Push, Cleanup, EnqueueDone, DeleteStage
  <2>2. cache'[j] = cache[j]
    BY <1>types, <2>1 DEF SetJobStatus, AddJobCache, DeleteJobCache, NoRecord
  <2> QED BY <2>2, <1>same
<1>4. CASE Expire
  <2>1. cache'[j] = cache[j]
    BY <1>4, <1>types DEF Expire, ExpireRecord, NoRecord
  <2> QED BY <2>1, <1>same
<1>5. CASE Dequeue \/ ExecuteFails \/ ExecuteSends \/ Register \/ ChainStep \/ Cancel
           \/ Restart \/ Crash \/ UNCHANGED vars
  <2>1. UNCHANGED cache
    BY <1>5 DEF Dequeue, ExecuteFails, ExecuteSends, Register, ChainStep, Cancel, Restart, Crash, vars
  <2> QED BY <2>1, <1>same
<1> QED BY <1>1, <1>2, <1>3, <1>4, <1>5 DEF Next, ExecutorStep

\* Every step keeps the verdicts true.
LEMMA RevertNext ==
    ASSUME DispatchInv, SettledInv, RevertInv, [Next]_vars
    PROVE  RevertInv'
<1> USE DEF pollerVars, executorVars, cacheVars, storeVars, chainVars
<1>types. /\ seen \in [Jobs -> JobCaches] /\ todo \subseteq Jobs /\ dbStatus \in [Jobs -> DBStatuses]
          /\ dbReason \in [Jobs -> Reasons] /\ TypeOK
  BY DEF DispatchInv, TypeOK
<1>stays. \A j \in Jobs : Reverted(j) => Reverted(j)'
  BY <1>types, RevertedStays
<1>1. \A j \in Jobs : cache'[j].status = "failed" /\ cache'[j].reason = "onchain" => Reverted(j)'
  BY <1>stays, OnChainRecords
<1> DEFINE Read  == pc' \in {"syncFailed", "delFailed"} =>
                      \A j \in todo' : seen'[j].reason = "onchain" => Reverted(j)
           Filed == \A j \in Jobs : dbStatus'[j] = "failed" /\ dbReason'[j] = "onchain"
                      => Reverted(j)
<1>2. Read /\ Filed
  <2>1. ASSUME NEW status \in {"failed", "completed"},
               ReadForSync(status) \/ SyncRow(status) \/ SyncDelete(status) \/ SyncDone(status)
        PROVE  Read /\ Filed
    <3> USE DEF ReadStage, SyncStage, DeleteStage, AfterSync, RevertInv
    <3>1. CASE ReadForSync(status)
      BY <3>1, <1>types DEF ReadForSync, JobCachesByStatus, Snapshot
    <3>2. CASE SyncRow(status)
      BY <3>2, <1>types DEF SyncRow, UpdateJobStatus, ConvertCacheStatusToDBStatus
    <3>3. CASE SyncDelete(status) \/ SyncDone(status)
      BY <3>3, <1>types DEF SyncDelete, SyncDone
    <3> QED BY <2>1, <3>1, <3>2, <3>3
  <2>2. CASE PollerStep /\ ~\E status \in {"failed", "completed"} :
               ReadForSync(status) \/ SyncRow(status) \/ SyncDelete(status) \/ SyncDone(status)
    <3>1. UNCHANGED storeVars /\ pc' \notin {"syncFailed", "delFailed"}
      BY <2>2 DEF PollerStep, ReadPending, CheckChain, CheckReceipt, ReceiptsDone, LoadActive,
            FetchConfig, FetchDone, FilterJob, MarkCompleted, FilterDone, AddToCache, Push,
            Cleanup, EnqueueDone, EndPoll
    <3> QED BY <3>1 DEF RevertInv
  <2>3. CASE ExecutorStep \/ ChainStep \/ Expire \/ Cancel \/ UNCHANGED vars
    <3>1. UNCHANGED <<storeVars, pc, todo, seen>>
      BY <2>3 DEF ExecutorStep, Dequeue, ExecuteFails, ExecuteSends, Report, ChainStep, Expire,
            Cancel, vars
    <3> QED BY <3>1 DEF RevertInv
  <2>4. CASE Register
    BY <2>4, <1>types DEF Register, CreateJob, RevertInv
  <2>5. CASE Restart \/ Crash
    BY <2>5 DEF Restart, Crash, FreshProcess, RevertInv
  <2> QED BY <2>1, <2>2, <2>3, <2>4, <2>5 DEF Next, PollerStep
<1>3. todo' \subseteq Jobs
  BY <1>types, TypeNext DEF TypeOK
<1> QED BY <1>1, <1>2, <1>3, <1>stays DEF RevertInv

--------------------------------------------------------------------------------
(* The layers together, and what they show.                                     *)

OutcomeInv == DispatchInv /\ VerdictInv /\ SettledInv /\ RevertInv

\* All layers hold in every reachable state.
LEMMA OutcomeAlways ==
    ASSUME ReliableCache
    PROVE  Spec => []OutcomeInv
<1>1. Init => OutcomeInv
  BY DispatchInit, VerdictInit, SettledInit, RevertInit DEF OutcomeInv
<1>2. OutcomeInv /\ [Next]_vars => OutcomeInv'
  BY DispatchNext, VerdictNext, SettledNext, RevertNext DEF OutcomeInv
<1> QED BY <1>1, <1>2, PTL DEF Spec

\* A user operation is sent only when all operations sent before for the job have
\* succeeded, whatever crashes, fails or shuts down while replies, cache reads
\* and records are reliable.
THEOREM EarlierOpsSucceededHolds ==
    ASSUME ReliableCache
    PROVE  Spec => []EarlierOpsSucceeded
<1>1. OutcomeInv => EarlierOpsSucceeded
  BY DEF OutcomeInv, SettledInv
<1> QED BY OutcomeAlways, <1>1, PTL

\* Under the same assumption a row failed with the on-chain reason belongs to a
\* job whose latest operation has reverted.
THEOREM OnChainFailureIsRealHolds ==
    ASSUME ReliableCache
    PROVE  Spec => []OnChainFailureIsReal
<1>1. OutcomeInv => OnChainFailureIsReal
  BY DEF OutcomeInv, RevertInv, Reverted, OnChainFailureIsReal
<1> QED BY OutcomeAlways, <1>1, PTL

\* Rows are written by Register and by the sync of a record alone, and a record
\* of a settled row repeats the verdict of the row.
LEMMA RowStep ==
    ASSUME DispatchInv, VerdictInv, [Next]_vars
    PROVE  \/ UNCHANGED dbStatus
           \/ Register
           \/ \E j \in Jobs :
                /\ dbStatus' = [dbStatus EXCEPT ![j] = cache[j].status]
                /\ cache[j].status \in {"failed", "completed"}
                /\ dbStatus[j] \in {"queuing", cache[j].status}
                /\ PollerStep
<1> USE DEF pollerVars, executorVars, cacheVars, storeVars, chainVars
<1>1. ASSUME NEW status \in {"failed", "completed"}, SyncRow(status)
      PROVE  \/ UNCHANGED dbStatus
             \/ \E j \in Jobs :
                  /\ dbStatus' = [dbStatus EXCEPT ![j] = cache[j].status]
                  /\ cache[j].status \in {"failed", "completed"}
                  /\ dbStatus[j] \in {"queuing", cache[j].status}
                  /\ PollerStep
  <2>1. CASE UNCHANGED dbStatus
    BY <2>1
  <2>2. CASE ~UNCHANGED dbStatus
    <3>1. PICK j \in todo : dbStatus' = [dbStatus EXCEPT ![j] = status]
      BY <1>1, <2>2 DEF SyncRow, UpdateJobStatus, ConvertCacheStatusToDBStatus
    <3>2. j \in Jobs /\ cache[j].status = status
      BY <1>1, <3>1 DEF SyncRow, SyncStage, VerdictInv, ReadRecords, DispatchInv, TypeOK
    <3>3. dbStatus[j] \in {"queuing", cache[j].status}
      BY <3>2 DEF VerdictInv, RecordFitsRow, IsCached
    <3>4. PollerStep
      BY <1>1 DEF PollerStep
    <3> QED BY <3>1, <3>2, <3>3, <3>4
  <2> QED BY <2>1, <2>2
<1>2. CASE PollerStep /\ ~\E status \in {"failed", "completed"} : SyncRow(status)
  BY <1>2 DEF PollerStep, ReadPending, CheckChain, CheckReceipt, ReceiptsDone, ReadForSync,
       SyncDelete, SyncDone, LoadActive, FetchConfig, FetchDone, FilterJob, MarkCompleted,
       FilterDone, AddToCache, Push, Cleanup, EnqueueDone
<1>3. CASE ExecutorStep \/ ChainStep \/ Expire \/ Cancel \/ Restart \/ Crash \/ UNCHANGED vars
  BY <1>3 DEF ExecutorStep, Dequeue, ExecuteFails, ExecuteSends, Report, ChainStep, Expire,
       Cancel, Restart, Crash, vars
<1> QED BY <1>1, <1>2, <1>3 DEF Next

\* A completed or failed row never changes again, under the same assumption.
THEOREM TerminalIsFinalHolds ==
    ASSUME ReliableCache
    PROVE  Spec => TerminalIsFinal
<1> DEFINE Final == \A j \in Jobs : dbStatus[j] \in {"completed", "failed"}
                      => dbStatus'[j] = dbStatus[j]
<1>1. OutcomeInv /\ [Next]_vars => [Final]_vars
  <2> SUFFICES ASSUME OutcomeInv, [Next]_vars PROVE Final  OBVIOUS
  <2>1. dbStatus \in [Jobs -> DBStatuses]
    BY DEF OutcomeInv, DispatchInv, TypeOK
  <2> QED BY <2>1, RowStep DEF OutcomeInv, Register, CreateJob
<1> QED BY OutcomeAlways, <1>1, PTL DEF Spec, TerminalIsFinal

================================================================================
