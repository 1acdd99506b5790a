-------------------------- MODULE JobLifecycleProofs ---------------------------
(* The scheduler implements JobLifecycle: its initial states are states the     *)
(* abstract jobs may start in, and every step is a step of their lives or       *)
(* leaves them as they are.                                                     *)
EXTENDS JobOutcomeProofs

--------------------------------------------------------------------------------
(* Places.                                                                      *)

\* Where nothing is dispatched twice, a job is in the queue, with the executor,
\* or free.
LEMMA Places ==
    NoDuplicateDispatch =>
      \A j \in Jobs :
        /\ PlaceOf(j) = "queued" <=> Queued(j)
        /\ PlaceOf(j) = "executing" <=> InExecution(j)
        /\ PlaceOf(j) = "free" <=> ~Held(j)
        /\ PlaceOf(j) \in {"queued", "executing", "free"}
<1> SUFFICES ASSUME NoDuplicateDispatch, NEW j \in Jobs
             PROVE  /\ PlaceOf(j) = "queued" <=> Queued(j)
                    /\ PlaceOf(j) = "executing" <=> InExecution(j)
                    /\ PlaceOf(j) = "free" <=> ~Held(j)
                    /\ PlaceOf(j) \in {"queued", "executing", "free"}
  OBVIOUS
<1>1. ~QueuedTwice(j)
  BY DEF QueuedTwice, NoDuplicateDispatch
<1>2. ~(Queued(j) /\ InExecution(j))
  BY DEF NoDuplicateDispatch, InExecution
<1> QED BY <1>1, <1>2 DEF PlaceOf, Held, InExecution

\* A step that leaves the queue and the executor's hold alone moves no job.
LEMMA SamePlaces ==
    ASSUME UNCHANGED <<queue, ejob>>, epc' = epc \/ (epc # "idle" /\ epc' # "idle")
    PROVE  \A j \in Jobs : PlaceOf(j)' = PlaceOf(j)
BY DEF PlaceOf, Queued, QueuedTwice, InExecution

\* A push moves one job, a pop moves one job.
LEMMA QueueMoves ==
    ASSUME queue \in Seq(Jobs), NEW j \in Jobs, EnqueueJob(j) \/ DequeueJob(j),
           NoDuplicateDispatch, NEW i \in Jobs, i # j
    PROVE  Queued(i)' <=> Queued(i)
<1>1. CASE EnqueueJob(j)
  <2>1. /\ Len(queue') = Len(queue) + 1 /\ Len(queue) \in Nat
        /\ queue'[Len(queue) + 1] = j
        /\ \A k \in 1 .. Len(queue) : queue'[k] = queue[k]
    BY <1>1 DEF EnqueueJob
  <2> QED BY <2>1 DEF Queued
<1>2. CASE DequeueJob(j)
  <2>1. /\ Len(queue) \in Nat /\ Len(queue) > 0 /\ Len(queue') = Len(queue) - 1
        /\ queue[1] = j
        /\ \A k \in 1 .. Len(queue') : queue'[k] = queue[k + 1]
    BY <1>2 DEF DequeueJob
  <2>2. ASSUME Queued(i) PROVE Queued(i)'
    <3>1. PICK k \in 1 .. Len(queue) : queue[k] = i
      BY <2>2 DEF Queued
    <3>2. k - 1 \in 1 .. Len(queue') /\ (k - 1) + 1 = k
      BY <2>1, <3>1
    <3>3. queue'[k - 1] = i
      BY <2>1, <3>1, <3>2
    <3> QED BY <3>2, <3>3 DEF Queued
  <2> QED BY <1>2, <2>2, PopQueue
<1> QED BY <1>1, <1>2

\* What is pushed is queued.
LEMMA PushedIsQueued ==
    ASSUME queue \in Seq(Jobs), NEW j \in Jobs, EnqueueJob(j)
    PROVE  Queued(j)'
<1>1. /\ Len(queue') = Len(queue) + 1 /\ Len(queue) \in Nat
      /\ queue'[Len(queue) + 1] = j
  BY DEF EnqueueJob
<1>2. Len(queue) + 1 \in 1 .. Len(queue')
  BY <1>1
<1> QED BY <1>1, <1>2 DEF Queued

--------------------------------------------------------------------------------
(* The steps.                                                                   *)

\* Nothing is registered, held or sent in the beginning.
LEMMA RefinementInit == Init => Lifecycle!LifecycleInit
<1> SUFFICES ASSUME Init PROVE Lifecycle!LifecycleInit  OBVIOUS
<1>1. \A j \in Jobs : PlaceOf(j) = "free"
  BY DEF Init, PlaceOf, Queued, InExecution
<1> QED BY <1>1 DEF Init, Lifecycle!LifecycleInit

\* Every step of the scheduler is a step of one abstract job, or none.
LEMMA RefinementNext ==
    ASSUME ReliableCache, OutcomeInv, [Next]_vars
    PROVE  [Lifecycle!LifecycleNext]_(Lifecycle!lifecycleVars)
<1> USE DEF pollerVars, executorVars, cacheVars, storeVars, chainVars
<1> DEFINE place == [j \in Jobs |-> PlaceOf(j)]
<1>facts. ~MayFail("lostreply") /\ ~MayFail("get") /\ ~MayFail("expiry")
  BY DEF ReliableCache, MayFail
<1>types. /\ queue \in Seq(Jobs) /\ dbStatus \in [Jobs -> DBStatuses]
          /\ ops \in [Jobs -> Seq(OpStatuses)]
          /\ (pc \in CurStages => cur \in Jobs) /\ (epc # "idle" => ejob \in Jobs)
          /\ CurStages = {"delFailed", "delCompleted", "complete", "push", "cleanup"}
          /\ NoDuplicateDispatch /\ TypeOK
  BY DEF OutcomeInv, DispatchInv, TypeOK, CurStages
<1>next. queue' \in Seq(Jobs) /\ NoDuplicateDispatch'
  BY DispatchNext DEF OutcomeInv, DispatchInv, TypeOK
<1>places. \A j \in Jobs :
             /\ PlaceOf(j) = "queued" <=> Queued(j)
             /\ PlaceOf(j) = "executing" <=> InExecution(j)
             /\ PlaceOf(j) = "free" <=> ~Held(j)
             /\ PlaceOf(j) \in {"queued", "executing", "free"}
  BY <1>types, Places
<1>places2. (\A j \in Jobs :
               /\ PlaceOf(j) = "queued" <=> Queued(j)
               /\ PlaceOf(j) = "executing" <=> InExecution(j)
               /\ PlaceOf(j) = "free" <=> ~Held(j)
               /\ PlaceOf(j) \in {"queued", "executing", "free"})'
  BY <1>next, Places, PTL
<1>stutter. ASSUME UNCHANGED <<dbStatus, ops>>, \A j \in Jobs : PlaceOf(j)' = PlaceOf(j)
            PROVE  UNCHANGED Lifecycle!lifecycleVars
  BY <1>stutter DEF Lifecycle!lifecycleVars
<1>moves. ASSUME NEW j \in Jobs, NEW p, PlaceOf(j)' = p,
                 \A i \in Jobs : i # j => PlaceOf(i)' = PlaceOf(i)
          PROVE  place' = [place EXCEPT ![j] = p]
  BY <1>moves
<1>1. CASE PollerStep /\ ~Push /\ UNCHANGED dbStatus
  BY <1>1, <1>stutter, PollerOnly, SamePlaces
     DEF PollerStep, ReadPending, CheckChain, CheckReceipt, ReceiptsDone, ReadForSync,
         SyncRow, SyncDelete, SyncDone, LoadActive, FetchConfig, FetchDone, FilterJob,
         MarkCompleted, FilterDone, AddToCache, Cleanup, EnqueueDone
<1>2. CASE Push
  <2>1. PICK j \in Jobs : j = cur /\ (EnqueueJob(j) \/ UNCHANGED queue)
    BY <1>2, <1>types DEF Push
  <2>2. UNCHANGED <<dbStatus, ops, ejob>> /\ epc' = epc
    BY <1>2 DEF Push
  <2>3. CASE UNCHANGED queue
    BY <2>2, <2>3, <1>stutter, SamePlaces
  <2>4. CASE EnqueueJob(j)
    <3>1. ~Held(j) /\ dbStatus[j] = "queuing"
      BY <1>2, <2>1 DEF Push, OutcomeInv, DispatchInv, PushedIsFree, PolledIsActive
    <3>2. Queued(j)'
      BY <1>types, <2>4, PushedIsQueued
    <3>3. \A i \in Jobs : i # j => (Queued(i)' <=> Queued(i)) /\ (InExecution(i)' <=> InExecution(i))
      BY <1>types, <2>2, <2>4, QueueMoves DEF InExecution
    <3>4. \A i \in Jobs : i # j => PlaceOf(i)' = PlaceOf(i)
      BY <1>places, <1>places2, <3>3 DEF Held, InExecution
    <3>5. place' = [place EXCEPT ![j] = "queued"]
      <4>1. PlaceOf(j)' = "queued"
        BY <1>places2, <3>2
      <4> QED BY <1>moves, <3>4, <4>1
    <3>6. Lifecycle!Dispatch(j)
      BY <1>places, <2>2, <3>1, <3>5 DEF Lifecycle!Dispatch
    <3> QED BY <3>6 DEF Lifecycle!LifecycleNext
  <2> QED BY <2>1, <2>3, <2>4
<1>3. CASE PollerStep /\ ~Push /\ ~UNCHANGED dbStatus
  <2>1. UNCHANGED <<queue, epc, ejob, ops>> /\ ~Register
    BY <1>3, PollerOnly
       DEF PollerStep, ReadPending, CheckChain, CheckReceipt, ReceiptsDone, ReadForSync,
           SyncRow, SyncDelete, SyncDone, LoadActive, FetchConfig, FetchDone, FilterJob,
           MarkCompleted, FilterDone, AddToCache, Cleanup, EnqueueDone, Register
  <2>2. \A i \in Jobs : PlaceOf(i)' = PlaceOf(i)
    <3>1. UNCHANGED <<queue, ejob>> /\ epc' = epc
      BY <2>1
    <3> QED BY <3>1, SamePlaces
  <2>3. PICK j \in Jobs :
          /\ dbStatus' = [dbStatus EXCEPT ![j] = cache[j].status]
          /\ cache[j].status \in {"failed", "completed"}
          /\ dbStatus[j] \in {"queuing", cache[j].status}
    BY <1>3, <2>1, RowStep DEF OutcomeInv
  <2>4. dbStatus[j] = "queuing"
    BY <1>3, <1>types, <2>3
  <2>5. CASE cache[j].status = "failed"
    <3>1. Lifecycle!Fail(j)
      BY <2>1, <2>2, <2>3, <2>4, <2>5 DEF Lifecycle!Fail
    <3> QED BY <3>1 DEF Lifecycle!LifecycleNext
  <2>6. CASE cache[j].status = "completed"
    <3>1. ~Held(j) /\ AllOpsSucceeded(j)
      BY <2>6 DEF OutcomeInv, VerdictInv, SettledInv, HeldIsIncomplete, CompletedIsSettled
    <3>2. Lifecycle!Complete(j)
      BY <1>places, <2>1, <2>2, <2>3, <2>4, <2>6, <3>1
         DEF Lifecycle!Complete, Lifecycle!AllSucceeded, AllOpsSucceeded
    <3> QED BY <3>2 DEF Lifecycle!LifecycleNext
  <2> QED BY <2>3, <2>5, <2>6
<1>4. CASE Dequeue
  <2>1. PICK j \in Jobs : DequeueJob(j) /\ epc = "idle" /\ epc' = "exec" /\ ejob' = j
    BY <1>4, <1>facts DEF Dequeue
  <2>2. UNCHANGED <<dbStatus, ops>>
    BY <1>4 DEF Dequeue
  <2>3. Queued(j) /\ InExecution(j)' /\ \A i \in Jobs : ~InExecution(i)
    BY <1>types, <2>1, PopQueue DEF InExecution
  <2>4. \A i \in Jobs : i # j => (Queued(i)' <=> Queued(i)) /\ ~InExecution(i)'
    BY <1>types, <2>1, QueueMoves DEF InExecution
  <2>5. \A i \in Jobs : i # j => PlaceOf(i)' = PlaceOf(i)
    BY <1>places, <1>places2, <2>3, <2>4 DEF Held, InExecution
  <2>6. place' = [place EXCEPT ![j] = "executing"]
    <3>1. PlaceOf(j)' = "executing"
      BY <1>places2, <2>3
    <3> QED BY <1>moves, <2>5, <3>1
  <2>7. Lifecycle!Start(j)
    BY <1>places, <2>2, <2>3, <2>6 DEF Lifecycle!Start
  <2> QED BY <2>7 DEF Lifecycle!LifecycleNext
<1>5. CASE ExecuteSends
  <2>1. /\ UNCHANGED <<queue, dbStatus, ejob>>
        /\ ejob \in Jobs /\ epc = "exec" /\ epc' = "report"
        /\ ops' = [ops EXCEPT ![ejob] = Append(ops[ejob], "pending")]
    BY <1>5, <1>types DEF ExecuteSends, SendUserOperation
  <2>2. AllOpsSucceeded(ejob)
    BY <2>1 DEF OutcomeInv, SettledInv, WaitingIsSettled, Waiting
  <2>3. \A i \in Jobs : PlaceOf(i)' = PlaceOf(i)
    <3>1. UNCHANGED <<queue, ejob>> /\ epc # "idle" /\ epc' # "idle"
      BY <2>1
    <3> QED BY <3>1, SamePlaces
  <2>4. Lifecycle!Send(ejob)
    BY <1>places, <2>1, <2>2, <2>3
       DEF Lifecycle!Send, Lifecycle!AllSucceeded, AllOpsSucceeded, InExecution
  <2> QED BY <2>1, <2>4 DEF Lifecycle!LifecycleNext
<1>6. CASE Report \/ Restart \/ Crash
  <2>1. UNCHANGED <<queue, dbStatus, ops>> /\ epc' = "idle"
    BY <1>6 DEF Report, Restart, Crash, FreshProcess
  <2>2. \A i \in Jobs : (Queued(i)' <=> Queued(i)) /\ ~InExecution(i)'
    BY <2>1 DEF Queued, InExecution
  <2>3. CASE epc = "idle"
    <3>1. \A i \in Jobs : PlaceOf(i)' = PlaceOf(i)
      BY <1>places, <1>places2, <2>2, <2>3 DEF Held, InExecution
    <3> QED BY <1>stutter, <2>1, <3>1
  <2>4. CASE epc # "idle"
    <3>1. PICK j \in Jobs : j = ejob
      BY <1>types, <2>4
    <3>2. InExecution(j) /\ ~Queued(j) /\ \A i \in Jobs : i # j => ~InExecution(i)
      BY <1>types, <2>4, <3>1 DEF InExecution, NoDuplicateDispatch
    <3>3. \A i \in Jobs : i # j => PlaceOf(i)' = PlaceOf(i)
      BY <1>places, <1>places2, <2>2, <3>2 DEF Held, InExecution
    <3>4. place' = [place EXCEPT ![j] = "free"]
      <4>1. PlaceOf(j)' = "free"
        BY <1>places2, <2>2, <3>2 DEF Held, InExecution
      <4> QED BY <1>moves, <3>3, <4>1
    <3>5. Lifecycle!Release(j)
      BY <1>places, <2>1, <3>2, <3>4 DEF Lifecycle!Release
    <3> QED BY <3>5 DEF Lifecycle!LifecycleNext
  <2> QED BY <2>3, <2>4
<1>7. CASE Register
  <2>1. PICK j \in Jobs : dbStatus[j] = "unregistered" /\ dbStatus' = [dbStatus EXCEPT ![j] = "queuing"]
    BY <1>7 DEF Register, CreateJob
  <2>2. UNCHANGED <<ops, queue, ejob>> /\ epc' = epc
    BY <1>7 DEF Register
  <2>3. \A i \in Jobs : PlaceOf(i)' = PlaceOf(i)
    BY <2>2, SamePlaces
  <2>4. Lifecycle!Register(j)
    BY <2>1, <2>2, <2>3 DEF Lifecycle!Register
  <2> QED BY <2>4 DEF Lifecycle!LifecycleNext
<1>8. CASE ChainStep
  <2>1. UNCHANGED <<dbStatus, queue, ejob>> /\ epc' = epc
    BY <1>8 DEF ChainStep
  <2>2. \A i \in Jobs : PlaceOf(i)' = PlaceOf(i)
    BY <2>1, SamePlaces
  <2>3. CASE UNCHANGED ops
    BY <1>stutter, <2>1, <2>2, <2>3
  <2>4. ASSUME NEW j \in Jobs, NEW k \in 1 .. MaxOps, IncludeOp(j, k) \/ RevertOp(j, k) \/ DropOp(j, k)
        PROVE  Lifecycle!LifecycleNext
    <3>1. PICK outcome \in {"success", "reverted", "dropped"} :
            ops' = [ops EXCEPT ![j] = [ops[j] EXCEPT ![k] = outcome]]
      BY <2>4 DEF IncludeOp, RevertOp, DropOp
    <3>2. k \in 1 .. Len(ops[j]) /\ ops[j][k] = "pending"
      BY <2>4 DEF IncludeOp, RevertOp, DropOp
    <3>3. Lifecycle!Resolve(j, outcome)
      BY <2>1, <2>2, <3>1, <3>2 DEF Lifecycle!Resolve
    <3> QED BY <3>3 DEF Lifecycle!LifecycleNext, Lifecycle!Outcomes
  <2>5. ASSUME NEW j \in Jobs, ExecuteBeside(j)
        PROVE  UNCHANGED ops \/ Lifecycle!LifecycleNext
    <3>1. ops[j] \in Seq(OpStatuses) /\ ops' = [ops EXCEPT ![j] = WithoutPending(ops[j])]
          /\ ops \in [Jobs -> Seq(OpStatuses)]
      BY <2>5, <1>types DEF ExecuteBeside
    <3>2. CASE \A k \in 1 .. Len(ops[j]) : ops[j][k] # "pending"
      <4>1. WithoutPending(ops[j]) = ops[j]
        BY <3>1, <3>2, WithoutPendingType
      <4> QED BY <3>1, <4>1
    <3>3. ASSUME NEW k \in 1 .. Len(ops[j]), ops[j][k] = "pending"
          PROVE  Lifecycle!LifecycleNext
      <4>1. \A l \in 1 .. Len(ops[j]) : ops[j][l] = "pending" => l = k
        BY <3>1, <3>3 DEF OutcomeInv, SettledInv, EarlierOpsSucceeded
      <4>2. WithoutPending(ops[j]) = [ops[j] EXCEPT ![k] = "dropped"]
        BY <3>1, <3>3, <4>1, WithoutPendingType
      <4>3. Lifecycle!Resolve(j, "dropped")
        BY <2>1, <2>2, <3>1, <3>3, <4>2 DEF Lifecycle!Resolve
      <4> QED BY <4>3 DEF Lifecycle!LifecycleNext, Lifecycle!Outcomes
    <3> QED BY <3>2, <3>3
  <2> QED BY <1>8, <2>3, <2>4, <2>5 DEF ChainStep, Tick, ConfigureOnChain, SwitchJob
<1>9. CASE ExecuteFails \/ Expire \/ Cancel \/ UNCHANGED vars
  <2>1. /\ UNCHANGED <<dbStatus, ops, queue, ejob>>
        /\ epc' = epc \/ (epc # "idle" /\ epc' # "idle")
    BY <1>9 DEF ExecuteFails, Expire, Cancel, vars
  <2> QED BY <1>stutter, <2>1, SamePlaces
<1> QED
  BY <1>1, <1>2, <1>3, <1>4, <1>5, <1>6, <1>7, <1>8, <1>9 DEF Next, ExecutorStep

\* The scheduler implements JobLifecycle while replies, cache reads and records are
\* reliable: a job is dispatched from an active row when nobody holds it, executed
\* one at a time, sent only after its earlier operations succeeded, completed only
\* when nobody holds it and nothing of it is undecided, and a verdict is final.
THEOREM SchedulerImplementsLifecycle ==
    ASSUME ReliableCache
    PROVE  Spec => ImplementsLifecycle
<1>1. OutcomeInv /\ [Next]_vars => [Lifecycle!LifecycleNext]_(Lifecycle!lifecycleVars)
  BY RefinementNext
<1> QED BY RefinementInit, OutcomeAlways, <1>1, PTL DEF Spec, ImplementsLifecycle, Lifecycle!LifecycleSpec
================================================================================
