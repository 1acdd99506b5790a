-------------------------- MODULE JobSchedulerProofs ---------------------------
(* Machine-checked proofs about JobScheduler, for every set of jobs, plan,     *)
(* assignment of chains and bound.                                             *)
EXTENDS JobSchedulerInvariants, TLAPS

--------------------------------------------------------------------------------
(* Type correctness.                                                           *)

\* The absent record and the unset configuration are values of their types.
LEMMA ConstantTypes ==
    /\ NoRecord \in JobCaches /\ UnsetConfig \in ExecutionConfigs
    /\ NoSnapshot \in [Jobs -> JobCaches]
    /\ NoConfigs \in [Jobs -> ExecutionConfigs]
BY DEF NoRecord, JobCaches, UnsetConfig, ExecutionConfigs, NoSnapshot, NoConfigs,
       ZeroHash, Reasons

\* Every method of the cache that writes a record writes a well-typed one.
LEMMA CacheWrites ==
    ASSUME cache \in [Jobs -> JobCaches],
           NEW j, NEW status \in CacheStatuses, NEW reason \in Reasons, NEW hash \in Nat,
           \/ SetJobStatus(j, status, reason) \/ SetJobStatusFailed(j, reason)
           \/ DeleteJobCache(j) \/ (j \in Jobs /\ AddJobCache(j))
           \/ (j \in Jobs /\ UpdateJobCacheUserOpHash(j, hash))
           \/ UNCHANGED cache
    PROVE  cache' \in [Jobs -> JobCaches]
<1>1. CASE SetJobStatus(j, status, reason)
  BY <1>1 DEF SetJobStatus, JobCaches, ZeroHash
<1>2. CASE SetJobStatusFailed(j, reason)
  BY <1>2 DEF SetJobStatusFailed, SetJobStatus, JobCaches, CacheStatuses, ZeroHash
<1>3. CASE DeleteJobCache(j)
  BY <1>3, ConstantTypes DEF DeleteJobCache
<1>4. CASE j \in Jobs /\ AddJobCache(j)
  BY <1>4, ChainsAssumption DEF AddJobCache, JobCaches, CacheStatuses, Reasons, ZeroHash
<1>5. CASE j \in Jobs /\ UpdateJobCacheUserOpHash(j, hash)
  BY <1>5 DEF UpdateJobCacheUserOpHash, JobCaches
<1>6. CASE UNCHANGED cache
  BY <1>6
<1> QED BY <1>1, <1>2, <1>3, <1>4, <1>5, <1>6

\* The snapshot of the records with one status is well typed.
LEMMA SnapshotType ==
    ASSUME cache \in [Jobs -> JobCaches], NEW status
    PROVE  Snapshot(status) \in [Jobs -> JobCaches]
BY ConstantTypes DEF Snapshot

\* The initial state is well typed.
LEMMA TypeInit == Init => TypeOK
<1> SUFFICES ASSUME Init PROVE TypeOK  OBVIOUS
<1> USE ConstantTypes
<1>1. ops \in [Jobs -> Seq(OpStatuses)] /\ queue \in Seq(Jobs)
  BY DEF Init
<1> QED BY <1>1 DEF Init, TypeOK, DBStatuses, Reasons, Stages, CurStages, JobOrNone, ZeroHash

\* Counting an execution keeps a configuration well typed.
LEMMA ExecutedType ==
    ASSUME NEW c \in ExecutionConfigs, now \in Nat
    PROVE  Executed(c) \in ExecutionConfigs
<1> DEFINE counted == [c EXCEPT !.completed = c.completed + 1]
<1>1. counted \in ExecutionConfigs
  BY DEF ExecutionConfigs
<1>2. Executed(c) = [counted EXCEPT !.last = now]
  BY DEF Executed
<1> HIDE DEF counted
<1>3. [counted EXCEPT !.last = now] \in ExecutionConfigs
  BY <1>1 DEF ExecutionConfigs
<1> QED BY <1>2, <1>3

\* Appending an element of a set to a sequence over it.
LEMMA AppendType ==
    ASSUME NEW S, NEW q \in Seq(S), NEW e \in S
    PROVE  Append(q, e) \in Seq(S)
OBVIOUS

\* Switching a job off or on keeps its configuration one.
LEMMA SwitchedType ==
    ASSUME NEW c \in ExecutionConfigs
    PROVE  SwitchedLog(c) \in ExecutionConfigs
BY DEF SwitchedLog, ExecutionConfigs

\* An operation beside the scheduler's ends those that were pending.
LEMMA WithoutPendingType ==
    ASSUME NEW outcomes \in Seq(OpStatuses)
    PROVE  /\ WithoutPending(outcomes) \in Seq(OpStatuses)
           /\ Len(WithoutPending(outcomes)) = Len(outcomes)
           /\ \A k \in 1 .. Len(outcomes) :
                WithoutPending(outcomes)[k] = IF outcomes[k] = "pending" THEN "dropped" ELSE outcomes[k]
BY DEF WithoutPending, OpStatuses

\* The steps of the chain and the clock keep its variables well typed.
LEMMA ChainTypes ==
    ASSUME TypeOK, ChainStep
    PROVE  /\ log' \in [Jobs -> ExecutionConfigs]
           /\ now' \in Nat
           /\ ops' \in [Jobs -> Seq(OpStatuses)]
<1> USE DEF TypeOK
<1>1. CASE Tick
  BY <1>1 DEF Tick
<1>2. ASSUME NEW j \in Jobs, ConfigureOnChain(j)
      PROVE  log' \in [Jobs -> ExecutionConfigs] /\ now' \in Nat /\ ops' \in [Jobs -> Seq(OpStatuses)]
  BY <1>2, PlanAssumption DEF ConfigureOnChain
<1>3. ASSUME NEW j \in Jobs, NEW k \in 1 .. Len(ops[j]), NEW status \in OpStatuses
      PROVE  [ops EXCEPT ![j] = [@ EXCEPT ![k] = status]] \in [Jobs -> Seq(OpStatuses)]
  BY <1>3
<1>4. ASSUME NEW j \in Jobs
      PROVE  Executed(log[j]) \in ExecutionConfigs
  BY <1>4, ExecutedType
<1>5. ASSUME NEW j \in Jobs, NEW k \in 1 .. MaxOps,
             IncludeOp(j, k) \/ RevertOp(j, k) \/ DropOp(j, k)
      PROVE  log' \in [Jobs -> ExecutionConfigs] /\ now' \in Nat /\ ops' \in [Jobs -> Seq(OpStatuses)]
  <2>1. /\ k \in 1 .. Len(ops[j])
        /\ \E status \in OpStatuses : ops' = [ops EXCEPT ![j] = [@ EXCEPT ![k] = status]]
    BY <1>5 DEF IncludeOp, RevertOp, DropOp, OpStatuses
  <2>2. log' = log \/ log' = [log EXCEPT ![j] = Executed(log[j])]
    BY <1>5 DEF IncludeOp, RevertOp, DropOp
  <2>3. now' = now
    BY <1>5 DEF IncludeOp, RevertOp, DropOp
  <2>4. ops' \in [Jobs -> Seq(OpStatuses)]
    BY <2>1, <1>3
  <2>5. log' \in [Jobs -> ExecutionConfigs]
    BY <2>2, <1>4
  <2> QED BY <2>3, <2>4, <2>5
<1>6. ASSUME NEW j \in Jobs, SwitchJob(j)
      PROVE  log' \in [Jobs -> ExecutionConfigs] /\ now' \in Nat /\ ops' \in [Jobs -> Seq(OpStatuses)]
  BY <1>6, SwitchedType DEF SwitchJob
<1>7. ASSUME NEW j \in Jobs, ExecuteBeside(j)
      PROVE  log' \in [Jobs -> ExecutionConfigs] /\ now' \in Nat /\ ops' \in [Jobs -> Seq(OpStatuses)]
  BY <1>7, <1>4, WithoutPendingType DEF ExecuteBeside
<1> QED BY <1>1, <1>2, <1>5, <1>6, <1>7 DEF ChainStep

\* The cache writes of a receipt's verdict and of an execution's report.
LEMMA VerdictWrites ==
    ASSUME cache \in [Jobs -> JobCaches], NEW j, Verdict(j)
    PROVE  cache' \in [Jobs -> JobCaches]
BY CacheWrites DEF Verdict, SetJobStatusFailed, SetJobStatus, DeleteJobCache, CacheStatuses, Reasons

\* Every step keeps the state well typed: one step of the proof per action.
LEMMA TypeNext == TypeOK /\ [Next]_vars => TypeOK'
<1> SUFFICES ASSUME TypeOK, [Next]_vars PROVE TypeOK'  OBVIOUS
<1> USE DEF pollerVars, executorVars, cacheVars, storeVars, chainVars
<1>t. /\ cache \in [Jobs -> JobCaches] /\ cache' = cache' /\ CacheStatuses = {"pending", "failed", "completed"}
      /\ Reasons = {"none", "exec", "emptyhash", "onchain"} /\ ZeroHash = 0
  BY DEF TypeOK, CacheStatuses, Reasons, ZeroHash
<1>1. CASE ReadPending
  BY <1>1, SnapshotType DEF ReadPending, TypeOK, JobCachesByStatus, CurStages, Stages
<1>2. CASE CheckChain
  BY <1>2 DEF CheckChain, TypeOK
<1>3. CASE CheckReceipt
  BY <1>3, VerdictWrites DEF CheckReceipt, TypeOK
<1>4. CASE ReceiptsDone
  BY <1>4, ConstantTypes DEF ReceiptsDone, TypeOK, CurStages, Stages
<1>5. ASSUME NEW status \in {"failed", "completed"},
             ReadForSync(status) \/ SyncRow(status) \/ SyncDelete(status) \/ SyncDone(status)
      PROVE  TypeOK'
  <2>1. CASE ReadForSync(status)
    BY <2>1, SnapshotType
       DEF ReadForSync, TypeOK, JobCachesByStatus, CurStages, Stages, ReadStage, SyncStage, AfterSync
  <2>2. CASE SyncRow(status)
    <3>1. \A j \in Jobs : seen[j].reason \in Reasons
      BY DEF TypeOK, JobCaches
    <3>2. dbStatus' \in [Jobs -> DBStatuses] /\ dbReason' \in [Jobs -> Reasons]
      BY <2>2, <3>1 DEF SyncRow, TypeOK, UpdateJobStatus, ConvertCacheStatusToDBStatus, DBStatuses
    <3>3. /\ pc' \in Stages /\ todo' \subseteq Jobs
          /\ cur' \in JobOrNone /\ (pc' \in CurStages => cur' \in Jobs)
      BY <2>2 DEF SyncRow, TypeOK, JobOrNone, CurStages, Stages, SyncStage, DeleteStage
    <3> QED BY <2>2, <3>2, <3>3 DEF SyncRow, TypeOK
  <2>3. CASE SyncDelete(status)
    BY <2>3, <1>t, CacheWrites DEF SyncDelete, TypeOK, JobOrNone, CurStages, Stages, SyncStage
  <2>4. CASE SyncDone(status)
    BY <2>4, ConstantTypes DEF SyncDone, TypeOK, CurStages, Stages, AfterSync
  <2> QED BY <1>5, <2>1, <2>2, <2>3, <2>4
<1>6. CASE LoadActive
  BY <1>6, ConstantTypes DEF LoadActive, EndPoll, TypeOK, ActiveJobs, CurStages, Stages
<1>7. CASE FetchConfig
  <2>1. \A j \in Jobs : ReadableLogs(j) \subseteq ExecutionConfigs
    <3>1. ASSUME NEW j \in Jobs, NEW t \in 0 .. now, log[j].completed > 0
          PROVE  LogBefore(log[j], t) \in ExecutionConfigs
      <4>1. log[j] \in ExecutionConfigs /\ t \in Nat
        BY DEF TypeOK
      <4>2. log[j].completed - 1 \in Nat
        BY <3>1, <4>1 DEF ExecutionConfigs
      <4> QED
        BY <4>1, <4>2 DEF LogBefore, ExecutionConfigs
    <3>2. \A j \in Jobs : log[j] \in ExecutionConfigs /\ SwitchedLog(log[j]) \in ExecutionConfigs
      BY SwitchedType DEF TypeOK
    <3> QED BY <3>1, <3>2 DEF ReadableLogs
  <2> QED
    BY <1>7, <2>1, ConstantTypes DEF FetchConfig, EndPoll, TypeOK, CurStages, Stages
<1>8. CASE FetchDone
  BY <1>8 DEF FetchDone, TypeOK, CurStages, Stages
<1>9. CASE FilterJob
  BY <1>9 DEF FilterJob, TypeOK, JobOrNone, CurStages, Stages
<1>10. CASE MarkCompleted
  BY <1>10, <1>t, CacheWrites DEF MarkCompleted, TypeOK, JobOrNone, CurStages, Stages
<1>11. CASE FilterDone
  BY <1>11, ConstantTypes DEF FilterDone, EndPoll, TypeOK, CurStages, Stages
<1>12. CASE AddToCache
  BY <1>12, <1>t, CacheWrites DEF AddToCache, TypeOK, JobOrNone, CurStages, Stages
<1>13. CASE Push
  <2>1. cur \in Jobs
    BY <1>13 DEF Push, TypeOK, CurStages
  <2>2. queue' \in Seq(Jobs)
    <3>1. queue' = queue \/ queue' = Append(queue, cur)
      BY <1>13 DEF Push, EnqueueJob
    <3>2. queue \in Seq(Jobs)
      BY DEF TypeOK
    <3> QED BY <2>1, <3>1, <3>2, AppendType
  <2> QED BY <1>13, <2>1, <2>2 DEF Push, TypeOK, JobOrNone, CurStages, Stages
<1>14. CASE Cleanup
  BY <1>14, <1>t, CacheWrites DEF Cleanup, TypeOK, JobOrNone, CurStages, Stages
<1>15. CASE EnqueueDone
  BY <1>15, ConstantTypes DEF EnqueueDone, EndPoll, TypeOK, CurStages, Stages
<1>16. CASE Dequeue
  BY <1>16 DEF Dequeue, DequeueJob, TypeOK, JobOrNone
<1>17. CASE ExecuteFails
  BY <1>17 DEF ExecuteFails, TypeOK
<1>18. CASE ExecuteSends
  BY <1>18 DEF ExecuteSends, SendUserOperation, OpStatuses, TypeOK
<1>19. CASE Report
  <2>1. cache' \in [Jobs -> JobCaches]
    BY <1>19, <1>t, CacheWrites DEF Report, TypeOK
  <2> QED BY <1>19, <2>1 DEF Report, TypeOK, JobOrNone, ZeroHash
<1>20. CASE Register
  BY <1>20 DEF Register, CreateJob, TypeOK, DBStatuses
<1>21. CASE ChainStep
  BY <1>21, ChainTypes DEF ChainStep, TypeOK
<1>22. CASE Expire
  BY <1>22, <1>t, CacheWrites DEF Expire, ExpireRecord, DeleteJobCache, TypeOK
<1>23. CASE Cancel
  BY <1>23 DEF Cancel, TypeOK
<1>24. CASE Restart \/ Crash
  <2>1. FreshProcess /\ UNCHANGED <<cacheVars, storeVars, chainVars>>
    BY <1>24 DEF Restart, Crash
  <2>2. UNCHANGED <<cache, queue, dbStatus, dbReason, log, now, ops>>
    BY <2>1
  <2>3. /\ pc' \in Stages /\ (pc' \in CurStages => cur' \in Jobs) /\ cur' \in JobOrNone
        /\ epc' \in {"idle", "exec", "report"} /\ (epc' # "idle" => ejob' \in Jobs)
        /\ ejob' \in JobOrNone /\ ehash' \in Nat /\ cancelled' \in BOOLEAN
    BY <2>1 DEF FreshProcess, Stages, CurStages, JobOrNone, ZeroHash
  <2>4. /\ seen' \in [Jobs -> JobCaches] /\ config' \in [Jobs -> ExecutionConfigs]
        /\ todo' \subseteq Jobs /\ group' \subseteq Jobs
        /\ active' \subseteq Jobs /\ picked' \subseteq Jobs
    BY <2>1, ConstantTypes DEF FreshProcess
  <2> QED BY <2>2, <2>3, <2>4 DEF TypeOK
<1>25. CASE UNCHANGED vars
  BY <1>25 DEF vars, TypeOK
<1> QED
  BY <1>1, <1>2, <1>3, <1>4, <1>5, <1>6, <1>7, <1>8, <1>9, <1>10, <1>11, <1>12, <1>13,
     <1>14, <1>15, <1>16, <1>17, <1>18, <1>19, <1>20, <1>21, <1>22, <1>23, <1>24, <1>25
     DEF Next, PollerStep, ExecutorStep

\* Every reachable state is well typed.
THEOREM TypeCorrect == Spec => []TypeOK
BY TypeInit, TypeNext, PTL DEF Spec

--------------------------------------------------------------------------------
(* No duplicate dispatch.                                                      *)

Distinct == \A a, b \in 1 .. Len(queue) : queue[a] = queue[b] => a = b

\* What a push does to the queue.
LEMMA PushQueue ==
    ASSUME queue \in Seq(Jobs), NEW j \in Jobs, EnqueueJob(j)
    PROVE  /\ \A i \in Jobs : Queued(i)' => Queued(i) \/ i = j
           /\ Distinct /\ ~Queued(j) => Distinct'
<1>1. /\ Len(queue') = Len(queue) + 1 /\ Len(queue) \in Nat
      /\ queue'[Len(queue) + 1] = j
      /\ \A k \in 1 .. Len(queue) : queue'[k] = queue[k]
  BY DEF EnqueueJob
<1> QED BY <1>1 DEF Queued, Distinct

\* What a pop does to it.
LEMMA PopQueue ==
    ASSUME queue \in Seq(Jobs), NEW j \in Jobs, DequeueJob(j)
    PROVE  /\ Queued(j)
           /\ \A i \in Jobs : Queued(i)' => Queued(i)
           /\ Distinct => Distinct' /\ ~Queued(j)'
<1>1. /\ Len(queue) \in Nat /\ Len(queue) > 0 /\ Len(queue') = Len(queue) - 1
      /\ queue[1] = j
      /\ \A k \in 1 .. Len(queue') : queue'[k] = queue[k + 1]
  BY DEF DequeueJob
<1> QED BY <1>1 DEF Queued, Distinct

\* A step that leaves the queue and the executor alone changes no hold.
LEMMA SameHolds ==
    ASSUME UNCHANGED <<queue, epc, ejob>>
    PROVE  /\ \A j \in Jobs : Held(j)' <=> Held(j)
           /\ NoDuplicateDispatch => NoDuplicateDispatch'
BY DEF Held, Queued, NoDuplicateDispatch

\* The initial state satisfies the inductive invariant: nothing is held.
LEMMA DispatchInit == Init => DispatchInv
<1> SUFFICES ASSUME Init PROVE DispatchInv  OBVIOUS
<1>1. TypeOK
  BY TypeInit
<1>2. queue = <<>> /\ epc = "idle" /\ pc = "idle"
  BY DEF Init
<1>3. NoDuplicateDispatch /\ \A j \in Jobs : ~Held(j)
  BY <1>2 DEF NoDuplicateDispatch, Held, Queued
<1> QED
  BY <1>1, <1>2, <1>3 DEF Init, DispatchInv, StageSets, UncachedActiveIsFree, HeldIsRegistered, HashedIsFree,
     PolledIsActive, PickedIsFree, PushedIsFree, DispatchStages

\* A step that touches nothing the invariant speaks of, but that it may cancel the
\* context or let go of a job, keeps it.
LEMMA LooserHolds ==
    ASSUME DispatchInv, TypeOK', NoDuplicateDispatch',
           \A j \in Jobs : Held(j)' => Held(j),
           UNCHANGED <<cache, dbStatus, pc, todo, group, seen, active, picked, cur>>,
           ~cancelled' => ~cancelled
    PROVE  DispatchInv'
<1> USE DEF DispatchInv
<1>types. /\ todo \subseteq Jobs /\ group \subseteq Jobs /\ picked \subseteq Jobs
          /\ (pc \in {"push", "cleanup"} => cur \in Jobs)
  BY DEF TypeOK, CurStages
<1>1. UncachedActiveIsFree' /\ HeldIsRegistered'
  BY DEF UncachedActiveIsFree, HeldIsRegistered, IsCached
<1>2. HashedIsFree' /\ StageSets'
  BY <1>types DEF HashedIsFree, StageSets
<1>3. PolledIsActive'
  BY DEF PolledIsActive, DispatchStages
<1>4. PickedIsFree'
  BY <1>types DEF PickedIsFree
<1>5. PushedIsFree'
  BY <1>types DEF PushedIsFree, IsCached
<1> QED BY <1>1, <1>2, <1>3, <1>4, <1>5

\* In particular a step of the chain or the clock, a shutdown or a stutter does.
LEMMA SameDispatch ==
    ASSUME DispatchInv, TypeOK',
           UNCHANGED <<cache, dbStatus, queue, epc, ejob, pc, todo, group, seen, active, picked, cur>>,
           ~cancelled' => ~cancelled
    PROVE  DispatchInv'
BY SameHolds, LooserHolds DEF DispatchInv

\* Every step keeps the inductive invariant, when no reply is lost, no GET of the
\* filter fails and no record expires.
LEMMA DispatchNext ==
    ASSUME ReliableCache, DispatchInv, [Next]_vars
    PROVE  DispatchInv'
<1> USE DEF pollerVars, executorVars, cacheVars, storeVars, chainVars, DispatchInv
<1>facts. /\ ~MayFail("lostreply") /\ ~MayFail("get") /\ ~MayFail("expiry")
          /\ ZeroHash = 0
  BY DEF ReliableCache, MayFail, ZeroHash
<1>types. /\ cache \in [Jobs -> JobCaches] /\ dbStatus \in [Jobs -> DBStatuses]
          /\ todo \subseteq Jobs /\ group \subseteq Jobs /\ active \subseteq Jobs
          /\ picked \subseteq Jobs /\ cancelled \in BOOLEAN
          /\ queue \in Seq(Jobs) /\ (pc \in CurStages => cur \in Jobs)
          /\ seen \in [Jobs -> JobCaches] /\ (epc # "idle" => ejob \in Jobs)
  BY DEF TypeOK
<1>next. TypeOK'
  BY TypeNext
<1>1. CASE ReadPending
  <2>1. /\ UNCHANGED <<queue, epc, ejob, cache, dbStatus, group, active, picked, cur, cancelled>>
        /\ pc = "idle" /\ pc' \in {"receipts", "readFailed"}
        /\ pc' = "receipts" =>
             /\ todo' = {j \in Jobs : cache[j].status = "pending"}
             /\ \A j \in Jobs : cache[j].status = "pending" => seen'[j] = cache[j]
    BY <1>1 DEF ReadPending, JobCachesByStatus, Snapshot
  <2>2. (\A j \in Jobs : Held(j)' <=> Held(j)) /\ NoDuplicateDispatch'
    BY <2>1, SameHolds
  <2>3. UncachedActiveIsFree' /\ HeldIsRegistered'
    BY <2>1, <2>2 DEF UncachedActiveIsFree, HeldIsRegistered, IsCached
  <2>4. HashedIsFree' /\ StageSets'
    BY <2>1, <2>2 DEF HashedIsFree, StageSets
  <2>5. PolledIsActive' /\ PickedIsFree' /\ PushedIsFree'
    BY <2>1, <2>2, <1>types DEF PolledIsActive, PickedIsFree, PushedIsFree, DispatchStages
  <2> QED BY <1>next, <2>2, <2>3, <2>4, <2>5
<1>2. CASE CheckChain
  <2>1. UNCHANGED <<queue, epc, ejob>>
    BY <1>2 DEF CheckChain
  <2> QED
    BY <1>2, <1>facts, <1>types, <1>next, <2>1, SameHolds
       DEF CheckChain, StageSets, UncachedActiveIsFree, HeldIsRegistered, HashedIsFree, PolledIsActive,
          PickedIsFree, PushedIsFree, DispatchStages, IsCached
<1>3. CASE CheckReceipt
  <2>1. UNCHANGED <<queue, epc, ejob>>
    BY <1>3 DEF CheckReceipt
  <2> QED
    BY <1>3, <1>facts, <1>types, <1>next, <2>1, SameHolds
       DEF CheckReceipt, Verdict, SetJobStatusFailed, SetJobStatus, DeleteJobCache, NoRecord, StageSets, UncachedActiveIsFree, HeldIsRegistered, HashedIsFree, PolledIsActive,
          PickedIsFree, PushedIsFree, DispatchStages, IsCached
<1>4. CASE ReceiptsDone
  <2>1. UNCHANGED <<queue, epc, ejob>>
    BY <1>4 DEF ReceiptsDone
  <2> QED
    BY <1>4, <1>facts, <1>types, <1>next, <2>1, SameHolds
       DEF ReceiptsDone, StageSets, UncachedActiveIsFree, HeldIsRegistered, HashedIsFree, PolledIsActive,
          PickedIsFree, PushedIsFree, DispatchStages, IsCached
<1>5. ASSUME NEW status \in {"failed", "completed"},
             ReadForSync(status) \/ SyncRow(status) \/ SyncDelete(status) \/ SyncDone(status)
      PROVE  DispatchInv'
  <2>1. CASE ReadForSync(status)
    <3>1. UNCHANGED <<queue, epc, ejob>>
      BY <2>1 DEF ReadForSync
    <3> QED
      BY <2>1, <1>facts, <1>types, <1>next, <3>1, SameHolds
         DEF ReadForSync, JobCachesByStatus, Snapshot, ReadStage, SyncStage, DeleteStage, AfterSync,
             StageSets, UncachedActiveIsFree, HeldIsRegistered, HashedIsFree, PolledIsActive,
          PickedIsFree, PushedIsFree, DispatchStages, IsCached
  <2>2. CASE SyncRow(status)
    <3>1. UNCHANGED <<queue, epc, ejob>>
      BY <2>2 DEF SyncRow
    <3> QED
      BY <2>2, <1>facts, <1>types, <1>next, <3>1, SameHolds
         DEF SyncRow, UpdateJobStatus, ConvertCacheStatusToDBStatus, ReadStage, SyncStage, DeleteStage, AfterSync,
             StageSets, UncachedActiveIsFree, HeldIsRegistered, HashedIsFree, PolledIsActive,
          PickedIsFree, PushedIsFree, DispatchStages, IsCached
  <2>3. CASE SyncDelete(status)
    <3>1. UNCHANGED <<queue, epc, ejob>>
      BY <2>3 DEF SyncDelete
    <3> QED
      BY <2>3, <1>facts, <1>types, <1>next, <3>1, SameHolds
         DEF SyncDelete, DeleteJobCache, NoRecord, ReadStage, SyncStage, DeleteStage, AfterSync,
             StageSets, UncachedActiveIsFree, HeldIsRegistered, HashedIsFree, PolledIsActive,
          PickedIsFree, PushedIsFree, DispatchStages, IsCached
  <2>4. CASE SyncDone(status)
    <3>1. UNCHANGED <<queue, epc, ejob>>
      BY <2>4 DEF SyncDone
    <3> QED
      BY <2>4, <1>facts, <1>types, <1>next, <3>1, SameHolds
         DEF SyncDone, ReadStage, SyncStage, DeleteStage, AfterSync,
             StageSets, UncachedActiveIsFree, HeldIsRegistered, HashedIsFree, PolledIsActive,
          PickedIsFree, PushedIsFree, DispatchStages, IsCached
  <2> QED BY <1>5, <2>1, <2>2, <2>3, <2>4
<1>6. CASE LoadActive
  <2>1. /\ UNCHANGED <<queue, epc, ejob, cache, dbStatus, group, seen, cur, cancelled>>
        /\ pc = "loadActive" /\ pc' \in {"fetch", "idle"}
        /\ picked' \in {{}, picked}
        /\ pc' = "fetch" => \A j \in active' \cup todo' : dbStatus[j] = "queuing"
    BY <1>6 DEF LoadActive, EndPoll, ActiveJobs
  <2>2. (\A j \in Jobs : Held(j)' <=> Held(j)) /\ NoDuplicateDispatch'
    BY <2>1, SameHolds
  <2>3. UncachedActiveIsFree' /\ HeldIsRegistered'
    BY <2>1, <2>2 DEF UncachedActiveIsFree, HeldIsRegistered, IsCached
  <2>4. HashedIsFree' /\ StageSets'
    BY <2>1, <2>2 DEF HashedIsFree, StageSets
  <2>5. PolledIsActive' /\ PickedIsFree' /\ PushedIsFree'
    BY <2>1, <2>2, <1>types
       DEF PolledIsActive, PickedIsFree, PushedIsFree, DispatchStages, StageSets
  <2> QED BY <1>next, <2>2, <2>3, <2>4, <2>5
<1>7. CASE FetchConfig
  <2>1. UNCHANGED <<queue, epc, ejob>>
    BY <1>7 DEF FetchConfig
  <2> QED
    BY <1>7, <1>facts, <1>types, <1>next, <2>1, SameHolds
       DEF FetchConfig, EndPoll, StageSets, UncachedActiveIsFree, HeldIsRegistered, HashedIsFree, PolledIsActive,
          PickedIsFree, PushedIsFree, DispatchStages, IsCached
<1>8. CASE FetchDone
  <2>1. UNCHANGED <<queue, epc, ejob>>
    BY <1>8 DEF FetchDone
  <2> QED
    BY <1>8, <1>facts, <1>types, <1>next, <2>1, SameHolds
       DEF FetchDone, StageSets, UncachedActiveIsFree, HeldIsRegistered, HashedIsFree, PolledIsActive,
          PickedIsFree, PushedIsFree, DispatchStages, IsCached
<1>9. CASE FilterJob
  <2>1. UNCHANGED <<queue, epc, ejob>>
    BY <1>9 DEF FilterJob
  <2> QED
    BY <1>9, <1>facts, <1>types, <1>next, <2>1, SameHolds
       DEF FilterJob, IsJobInCache, RedisUp, StageSets, UncachedActiveIsFree, HeldIsRegistered, HashedIsFree, PolledIsActive,
          PickedIsFree, PushedIsFree, DispatchStages, IsCached
<1>10. CASE MarkCompleted
  <2>1. UNCHANGED <<queue, epc, ejob>>
    BY <1>10 DEF MarkCompleted
  <2> QED
    BY <1>10, <1>facts, <1>types, <1>next, <2>1, SameHolds
       DEF MarkCompleted, SetJobStatus, StageSets, UncachedActiveIsFree, HeldIsRegistered, HashedIsFree, PolledIsActive,
          PickedIsFree, PushedIsFree, DispatchStages, IsCached
<1>11. CASE FilterDone
  <2>1. UNCHANGED <<queue, epc, ejob>>
    BY <1>11 DEF FilterDone
  <2> QED
    BY <1>11, <1>facts, <1>types, <1>next, <2>1, SameHolds
       DEF FilterDone, EndPoll, StageSets, UncachedActiveIsFree, HeldIsRegistered, HashedIsFree, PolledIsActive,
          PickedIsFree, PushedIsFree, DispatchStages, IsCached
<1>12. CASE AddToCache
  <2>1. UNCHANGED <<queue, epc, ejob>>
    BY <1>12 DEF AddToCache
  <2> QED
    BY <1>12, <1>facts, <1>types, <1>next, <2>1, SameHolds
       DEF AddToCache, AddJobCache, RedisUp, ReplyLost, StageSets, UncachedActiveIsFree, HeldIsRegistered, HashedIsFree, PolledIsActive,
          PickedIsFree, PushedIsFree, DispatchStages, IsCached
<1>14. CASE Cleanup
  <2>1. UNCHANGED <<queue, epc, ejob>>
    BY <1>14 DEF Cleanup
  <2> QED
    BY <1>14, <1>facts, <1>types, <1>next, <2>1, SameHolds
       DEF Cleanup, DeleteJobCache, NoRecord, StageSets, UncachedActiveIsFree, HeldIsRegistered, HashedIsFree, PolledIsActive,
          PickedIsFree, PushedIsFree, DispatchStages, IsCached
<1>15. CASE EnqueueDone
  <2>1. UNCHANGED <<queue, epc, ejob>>
    BY <1>15 DEF EnqueueDone
  <2> QED
    BY <1>15, <1>facts, <1>types, <1>next, <2>1, SameHolds
       DEF EnqueueDone, EndPoll, StageSets, UncachedActiveIsFree, HeldIsRegistered, HashedIsFree, PolledIsActive,
          PickedIsFree, PushedIsFree, DispatchStages, IsCached
<1>20. CASE Register
  <2>1. PICK k \in Jobs :
          dbStatus[k] = "unregistered" /\ dbStatus' = [dbStatus EXCEPT ![k] = "queuing"]
    BY <1>20 DEF Register, CreateJob
  <2>2. UNCHANGED <<queue, epc, ejob, cache, pc, todo, group, seen, active, picked, cur, cancelled>>
    BY <1>20 DEF Register
  <2>3. (\A j \in Jobs : Held(j)' <=> Held(j)) /\ NoDuplicateDispatch'
    BY <2>2, SameHolds
  <2>4. UncachedActiveIsFree' /\ HeldIsRegistered'
    BY <1>types, <2>1, <2>2, <2>3 DEF UncachedActiveIsFree, HeldIsRegistered, IsCached
  <2>5. HashedIsFree' /\ StageSets'
    BY <1>types, <2>2, <2>3 DEF HashedIsFree, StageSets
  <2>6. PolledIsActive'
    BY <1>types, <2>1, <2>2 DEF PolledIsActive, CurStages, DispatchStages
  <2>7. PickedIsFree'
    BY <1>types, <2>2, <2>3 DEF PickedIsFree
  <2>8. PushedIsFree'
    BY <1>types, <2>2, <2>3 DEF PushedIsFree, CurStages, IsCached
  <2> QED BY <1>next, <2>3, <2>4, <2>5, <2>6, <2>7, <2>8
<1>21. CASE ChainStep
  BY <1>21, <1>next, SameDispatch DEF ChainStep
<1>23. CASE Cancel
  BY <1>23, <1>next, SameDispatch DEF Cancel
<1>25. CASE UNCHANGED vars
  BY <1>25, <1>next, SameDispatch DEF vars
<1>22. CASE Expire
  BY <1>22, <1>facts DEF Expire
<1>13. CASE Push
  <2>1. PICK j \in Jobs : j = cur
    BY <1>13, <1>types DEF Push, CurStages
  <2>2. /\ UNCHANGED <<cache, dbStatus, epc, ejob, group, seen, todo, active, picked, cancelled>>
        /\ pc = "push" /\ pc' \in {"enqueue", "cleanup"} /\ (pc' = "cleanup" => cur' = cur)
        /\ (EnqueueJob(j) /\ pc' = "enqueue") \/ queue' = queue
    BY <1>13, <1>facts, <2>1 DEF Push, ReplyLost
  <2>3. ~Held(j) /\ ~Queued(j) /\ ~(epc # "idle" /\ ejob = j) /\ j \notin todo
    BY <2>1, <2>2 DEF PushedIsFree, Held
  <2>4. /\ \A i \in Jobs : Held(i)' => Held(i) \/ (i = j /\ pc' = "enqueue")
        /\ NoDuplicateDispatch'
    <3>1. CASE EnqueueJob(j) /\ pc' = "enqueue"
      BY <2>2, <2>3, <3>1, <1>types, PushQueue DEF Held, Distinct, NoDuplicateDispatch
    <3>2. CASE queue' = queue
      BY <2>2, <3>2, SameHolds
    <3> QED BY <2>2, <3>1, <3>2
  <2>5. dbStatus[j] = "queuing" /\ IsCached(j) /\ cache[j].hash = ZeroHash
    BY <2>1, <2>2 DEF PolledIsActive, PushedIsFree
  <2>6. UncachedActiveIsFree' /\ HeldIsRegistered'
    BY <2>2, <2>4, <2>5 DEF UncachedActiveIsFree, HeldIsRegistered, IsCached
  <2>7. HashedIsFree' /\ StageSets'
    BY <2>2, <2>4, <2>5 DEF HashedIsFree, StageSets
  <2>8. PolledIsActive'
    BY <2>1, <2>2, <2>5 DEF PolledIsActive, DispatchStages
  <2>9. PickedIsFree'
    BY <1>types, <2>1, <2>2, <2>3, <2>4 DEF PickedIsFree, StageSets
  <2>10. PushedIsFree'
    BY <1>types, <2>1, <2>2, <2>3, <2>4 DEF PushedIsFree
  <2> QED BY <1>next, <2>4, <2>6, <2>7, <2>8, <2>9, <2>10
<1>16. CASE Dequeue
  <2>1. PICK j \in Jobs : DequeueJob(j) /\ epc' = "exec" /\ ejob' = j
    BY <1>16, <1>facts DEF Dequeue
  <2>2. UNCHANGED <<cache, dbStatus, pc, todo, group, seen, active, picked, cur, cancelled>>
    BY <1>16 DEF Dequeue
  <2>3. \A i \in Jobs : Held(i)' => Held(i)
    BY <2>1, <1>types, PopQueue DEF Held
  <2>4. NoDuplicateDispatch'
    BY <2>1, <1>types, PopQueue DEF Distinct, NoDuplicateDispatch
  <2> QED BY <1>next, <2>2, <2>3, <2>4, LooserHolds
<1>17. CASE ExecuteFails \/ ExecuteSends
  <2>1. UNCHANGED <<queue, ejob>> /\ epc = "exec" /\ epc' = "report"
    BY <1>17 DEF ExecuteFails, ExecuteSends
  <2>2. UNCHANGED <<cache, dbStatus, pc, todo, group, seen, active, picked, cur, cancelled>>
    BY <1>17 DEF ExecuteFails, ExecuteSends
  <2>3. \A i \in Jobs : Held(i)' => Held(i)
    BY <2>1 DEF Held, Queued
  <2>4. NoDuplicateDispatch'
    BY <2>1 DEF Queued, NoDuplicateDispatch
  <2> QED BY <1>next, <2>2, <2>3, <2>4, LooserHolds
<1>19. CASE Report
  <2>1. UNCHANGED queue /\ epc = "report" /\ epc' = "idle"
    BY <1>19 DEF Report
  <2>2. UNCHANGED <<dbStatus, pc, todo, group, seen, active, picked, cur, cancelled>>
    BY <1>19 DEF Report
  <2>3. PICK j \in Jobs : j = ejob
    BY <1>types, <2>1
  <2>4. \A i \in Jobs : Held(i)' => Held(i) /\ i # j
    BY <2>1, <2>3 DEF Held, Queued, NoDuplicateDispatch
  <2>5. Held(j)
    BY <2>1, <2>3 DEF Held
  <2>6. NoDuplicateDispatch'
    BY <2>1 DEF Queued, NoDuplicateDispatch
  <2>7. \A i \in Jobs : i # j => cache'[i] = cache[i]
    BY <1>19, <1>types, <2>3
       DEF Report, SetJobStatusFailed, SetJobStatus, UpdateJobCacheUserOpHash
  <2>8. UncachedActiveIsFree' /\ HeldIsRegistered'
    BY <2>2, <2>4, <2>7 DEF UncachedActiveIsFree, HeldIsRegistered, IsCached
  <2>9. HashedIsFree' /\ StageSets'
    BY <1>types, <2>2, <2>4, <2>7 DEF HashedIsFree, StageSets
  <2>10. PolledIsActive'
    BY <2>2 DEF PolledIsActive
  <2>11. PickedIsFree'
    BY <1>types, <2>2, <2>4 DEF PickedIsFree
  <2>12. PushedIsFree'
    <3>1. pc \in {"push", "cleanup"} => cur \in Jobs /\ cur # j
      BY <1>types, <2>5 DEF PushedIsFree, CurStages
    <3> QED BY <2>2, <2>4, <2>7, <3>1 DEF PushedIsFree, IsCached
  <2> QED BY <1>next, <2>6, <2>8, <2>9, <2>10, <2>11, <2>12
<1>24. CASE Restart \/ Crash
  <2>1. FreshProcess /\ UNCHANGED <<cache, queue, dbStatus>>
    BY <1>24 DEF Restart, Crash
  <2>2. \A i \in Jobs : Held(i)' => Held(i)
    BY <2>1 DEF FreshProcess, Held, Queued
  <2>3. NoDuplicateDispatch'
    BY <2>1 DEF FreshProcess, Queued, NoDuplicateDispatch
  <2> QED
    BY <1>next, <2>1, <2>2, <2>3
       DEF FreshProcess, StageSets, UncachedActiveIsFree, HeldIsRegistered, HashedIsFree, PolledIsActive,
           PickedIsFree, PushedIsFree, DispatchStages, IsCached
<1> QED
  BY <1>1, <1>2, <1>3, <1>4, <1>5, <1>6, <1>7, <1>8, <1>9, <1>10, <1>11, <1>12, <1>13,
     <1>14, <1>15, <1>16, <1>17, <1>19, <1>20, <1>21, <1>22, <1>23, <1>24, <1>25
     DEF Next, PollerStep, ExecutorStep

\* The inductive invariant holds throughout.
LEMMA DispatchAlways ==
    ASSUME ReliableCache
    PROVE  Spec => []DispatchInv
<1>1. DispatchInv /\ [Next]_vars => DispatchInv'
  BY DispatchNext
<1> QED BY DispatchInit, <1>1, PTL DEF Spec

\* With reliable replies and cache reads and within the records' lifetime, a job
\* is never dispatched twice at a time, whatever fails, crashes or shuts down.
THEOREM NoDuplicateDispatchHolds ==
    ASSUME ReliableCache
    PROVE  Spec => []NoDuplicateDispatch
<1>1. DispatchInv => NoDuplicateDispatch
  BY DEF DispatchInv
<1> QED BY DispatchAlways, <1>1, PTL
================================================================================
