----------------------- MODULE PrototypeSchedulerProofs ------------------------
(* Machine-checked proofs of the safety properties of cmd/scheduler, for any    *)
(* batch, any number of polls and runs, and any faults of Redis.                *)
EXTENDS PrototypeScheduler, TLAPS

\* A batch has places to poll, and the polls of the instance are counted.
LEMMA Places ==
    /\ NumPolls \in Nat /\ MaxRuns \in Nat
    /\ Len(Batch) \in Nat /\ Len(Batch) >= 1 /\ DOMAIN Batch = 1 .. Len(Batch)
<1>1. Batch \in Seq({"email", "report", "cleanup"}) /\ Batch # <<>>
  BY PrototypeAssumption
<1> QED BY <1>1, PrototypeAssumption

\* NoJob is no job.
LEMMA NoJobIsNone == NoJob \notin Jobs
BY Places DEF Jobs, NoJob

--------------------------------------------------------------------------------
(* The counters, the goroutines and Redis, one kind of data at a time.          *)

CountersOK ==
    /\ runs \in 0 .. MaxRuns /\ offered \in 0 .. NumPolls /\ item \in 1 .. Len(Batch)
    /\ poller \in {"skip", "push", "mark"} => offered >= 1

QueueOK == queue \in Seq(Jobs)

JobsOK ==
    /\ main \in {"off", "running", "stopping"}
    /\ poller \in {"off", "tick", "skip", "push", "mark", "keys", "check", "clear", "ended"}
    /\ executor \in {"off", "loop", "pop", "run", "store", "ended"}
    /\ scan \subseteq Jobs /\ found \in Jobs \cup {NoJob}
    /\ job \in Jobs \cup {NoJob} /\ result \in {"none", "success", "failed"}
    /\ status \in [Jobs -> {"none", "pending", "success", "failed", "failed long ago"}]
    /\ outcomes \in [Jobs -> SUBSET {"success", "failed"}]
    /\ job # NoJob <=> executor \in {"run", "store"}
    /\ found # NoJob <=> poller = "clear"
    /\ executor = "store" => result \in outcomes[job]
    /\ ResultIsReal

\* The inductive invariant by kind of data.
LEMMA PrototypeInvParts == PrototypeInv <=> CountersOK /\ QueueOK /\ JobsOK
BY Places DEF PrototypeInv, TypeOK, ResultInv, CountersOK, QueueOK, JobsOK

\* What a poller works on is a job of the poll.
LEMMA PolledIsJob ==
    ASSUME CountersOK, offered >= 1
    PROVE  Polled \in Jobs
<1>1. offered \in 1 .. NumPolls /\ item \in DOMAIN Batch
  BY Places DEF CountersOK
<1> QED BY <1>1 DEF Polled, Jobs

\* Polls and runs are counted up to their bounds; the place stays in the batch.
LEMMA CountersNext ==
    ASSUME CountersOK, [Next]_vars
    PROVE  CountersOK'
<1> USE Places DEF CountersOK, mainVars, pollerVars, executorVars, redisVars, NextItem
<1>1. CASE PollJobs
  <2>1. CASE Tick
    BY <2>1 DEF Tick
  <2>2. CASE PollerEnds \/ ListKeys \/ ListFails \/ CheckJobStatus \/ ClearFailed
    BY <2>2 DEF PollerEnds, ListKeys, ListFails, CheckJobStatus, ClearFailed
  <2>3. CASE ShouldSkipJob \/ EnqueueJob \/ SetPending
    <3>1. /\ UNCHANGED <<runs, offered>> /\ poller \in {"skip", "push", "mark"}
          /\ NextItem \/ UNCHANGED item
      BY <2>3 DEF ShouldSkipJob, EnqueueJob, SetPending
    <3>2. item' \in 1 .. Len(Batch)
      BY <3>1
    <3> QED BY <3>1, <3>2
  <2> QED BY <1>1, <2>1, <2>2, <2>3 DEF PollJobs
<1>2. CASE ExecuteJobs
  BY <1>2 DEF ExecuteJobs, LoopTurn, PopJob, PopNothing, ExecuteJobLogic, StoreResult
<1>3. CASE Start \/ Stop \/ Close \/ Crash \/ Elapse
  <2>1. CASE Start
    BY <2>1 DEF Start, Goroutines
  <2>2. CASE Close \/ Crash
    BY <2>2 DEF Close, Crash, Goroutines
  <2>3. CASE Stop \/ Elapse
    BY <2>3 DEF Stop, Elapse
  <2> QED BY <1>3, <2>1, <2>2, <2>3
<1>4. CASE UNCHANGED vars
  BY <1>4 DEF vars
<1> QED BY <1>1, <1>2, <1>3, <1>4 DEF Next

\* Only jobs of a poll are pushed.
LEMMA QueueNext ==
    ASSUME CountersOK, QueueOK, [Next]_vars
    PROVE  QueueOK'
<1>1. CASE EnqueueJob
  <2>1. Polled \in Jobs
    BY <1>1, PolledIsJob DEF EnqueueJob, CountersOK
  <2>2. \/ queue' = Append(queue, Polled) \/ queue' = queue \o <<Polled, Polled>>
        \/ queue' = queue
    BY <1>1 DEF EnqueueJob
  <2>3. <<Polled, Polled>> \in Seq(Jobs)
    BY <2>1
  <2>4. CASE queue' = Append(queue, Polled)
    BY <2>1, <2>4 DEF QueueOK
  <2>5. CASE queue' = queue \o <<Polled, Polled>>
    BY <2>3, <2>5 DEF QueueOK
  <2> QED BY <2>2, <2>4, <2>5 DEF QueueOK
<1>2. CASE PopJob \/ PopNothing
  <2>1. queue' = queue \/ (queue # <<>> /\ queue' = Tail(queue))
    BY <1>2 DEF PopJob, PopNothing
  <2> QED BY <2>1 DEF QueueOK
<1>3. CASE \/ Tick \/ PollerEnds \/ ShouldSkipJob \/ SetPending
           \/ ListKeys \/ ListFails \/ CheckJobStatus \/ ClearFailed
  <2>1. UNCHANGED queue
    BY <1>3 DEF Tick, PollerEnds, ShouldSkipJob, SetPending, ListKeys, ListFails,
                CheckJobStatus, ClearFailed, redisVars
  <2> QED BY <2>1 DEF QueueOK
<1>4. CASE \/ LoopTurn \/ ExecuteJobLogic \/ StoreResult
           \/ Start \/ Stop \/ Close \/ Crash \/ Elapse \/ UNCHANGED vars
  <2>1. UNCHANGED queue
    BY <1>4 DEF LoopTurn, ExecuteJobLogic, StoreResult, Start, Stop, Close, Crash, Elapse,
                vars, redisVars
  <2> QED BY <2>1 DEF QueueOK
<1> QED BY <1>1, <1>2, <1>3, <1>4 DEF Next, PollJobs, ExecuteJobs

\* What the executor takes is a job.
LEMMA PoppedIsJob ==
    ASSUME QueueOK, queue # <<>>
    PROVE  Head(queue) \in Jobs
BY DEF QueueOK

--------------------------------------------------------------------------------
(* The jobs' statuses and results.                                              *)

\* The poller marks a job of its poll, as pending only, and clears old failures.
LEMMA PollerNext ==
    ASSUME CountersOK, JobsOK, PollJobs
    PROVE  JobsOK'
<1> USE NoJobIsNone DEF JobsOK, ResultIsReal
<1>1. CASE Tick \/ PollerEnds \/ ListFails
  BY <1>1 DEF Tick, PollerEnds, ListFails, mainVars, executorVars, redisVars
<1>2. CASE ShouldSkipJob \/ EnqueueJob
  <2>1. poller \in {"skip", "push"} /\ poller' \in {"skip", "push", "mark", "keys"}
    BY <1>2 DEF ShouldSkipJob, EnqueueJob, NextItem
  <2>2. UNCHANGED <<main, executor, job, result, outcomes, status, scan, found>>
    BY <1>2 DEF ShouldSkipJob, EnqueueJob, mainVars, executorVars, redisVars
  <2> QED BY <2>1, <2>2
<1>3. CASE SetPending
  <2>1. poller = "mark" /\ poller' \in {"skip", "keys"}
    BY <1>3 DEF SetPending, NextItem
  <2>2. Polled \in Jobs
    BY <2>1, PolledIsJob DEF CountersOK
  <2>3. /\ status' = status \/ status' = [status EXCEPT ![Polled] = "pending"]
        /\ UNCHANGED <<main, executor, job, result, outcomes, scan, found>>
    BY <1>3 DEF SetPending, SetStatus, mainVars, executorVars
  <2> QED BY <2>1, <2>2, <2>3
<1>4. CASE ListKeys
  BY <1>4 DEF ListKeys, mainVars, executorVars, redisVars
<1>5. CASE CheckJobStatus
  BY <1>5 DEF CheckJobStatus, mainVars, executorVars, redisVars
<1>6. CASE ClearFailed
  BY <1>6 DEF ClearFailed, SetStatus, mainVars, executorVars
<1> QED BY <1>1, <1>2, <1>3, <1>4, <1>5, <1>6 DEF PollJobs

\* The executor stores the result it has in hand, which its job has had.
LEMMA ExecutorNext ==
    ASSUME QueueOK, JobsOK, ExecuteJobs
    PROVE  JobsOK'
<1> USE NoJobIsNone DEF JobsOK, ResultIsReal
<1>1. CASE LoopTurn \/ PopNothing
  BY <1>1 DEF LoopTurn, PopNothing, mainVars, pollerVars, redisVars
<1>2. CASE PopJob
  <2>1. Head(queue) \in Jobs
    BY <1>2, PoppedIsJob DEF PopJob
  <2> QED BY <1>2, <2>1 DEF PopJob, mainVars, pollerVars
<1>3. CASE ExecuteJobLogic
  <2>1. job \in Jobs /\ result' \in {"success", "failed"}
    BY <1>3 DEF ExecuteJobLogic, Outcomes
  <2>2. outcomes' = [outcomes EXCEPT ![job] = outcomes[job] \cup {result'}]
    BY <1>3 DEF ExecuteJobLogic
  <2>3. /\ outcomes' \in [Jobs -> SUBSET {"success", "failed"}]
        /\ result' \in outcomes'[job]
        /\ \A j \in Jobs : outcomes[j] \subseteq outcomes'[j]
    BY <2>1, <2>2
  <2>4. /\ executor' = "store"
        /\ UNCHANGED <<main, poller, scan, found, job, status>>
    BY <1>3 DEF ExecuteJobLogic, mainVars, pollerVars, redisVars
  <2> QED BY <2>1, <2>3, <2>4
<1>4. CASE StoreResult
  BY <1>4 DEF StoreResult, SetStatus, mainVars, pollerVars
<1> QED BY <1>1, <1>2, <1>3, <1>4 DEF ExecuteJobs

\* A run begins and ends with idle goroutines; what Redis keeps outlives it.
LEMMA MainNext ==
    ASSUME JobsOK, Start \/ Stop \/ Close \/ Crash \/ Elapse
    PROVE  JobsOK'
<1> USE NoJobIsNone DEF JobsOK, ResultIsReal
<1>1. CASE Start \/ Close \/ Crash
  BY <1>1 DEF Start, Close, Crash, Goroutines, redisVars
<1>2. CASE Stop
  BY <1>2 DEF Stop, pollerVars, executorVars, redisVars
<1>3. CASE Elapse
  BY <1>3 DEF Elapse, mainVars, pollerVars, executorVars
<1> QED BY <1>1, <1>2, <1>3

--------------------------------------------------------------------------------
(* The theorems.                                                                *)

\* The inductive invariant holds in every reachable state.
LEMMA PrototypeAlways == Spec => []PrototypeInv
<1>1. Init => PrototypeInv
  <2> SUFFICES ASSUME Init PROVE CountersOK /\ QueueOK /\ JobsOK
    BY PrototypeInvParts
  <2>1. CountersOK
    BY Places DEF Init, CountersOK
  <2>2. QueueOK
    BY DEF Init, QueueOK
  <2>3. JobsOK
    BY NoJobIsNone DEF Init, JobsOK, ResultIsReal
  <2> QED BY <2>1, <2>2, <2>3
<1>2. PrototypeInv /\ [Next]_vars => PrototypeInv'
  <2> SUFFICES ASSUME PrototypeInv, [Next]_vars PROVE PrototypeInv'
    OBVIOUS
  <2>1. CountersOK' /\ QueueOK'
    BY CountersNext, QueueNext, PrototypeInvParts
  <2>2. JobsOK'
    <3>1. CASE UNCHANGED vars
      BY <3>1, PrototypeInvParts
         DEF vars, mainVars, pollerVars, executorVars, redisVars, JobsOK, ResultIsReal
    <3> QED BY <3>1, PollerNext, ExecutorNext, MainNext, PrototypeInvParts DEF Next
  <2> QED BY <2>1, <2>2, Places
             DEF PrototypeInv, TypeOK, ResultInv, CountersOK, QueueOK, JobsOK
<1> QED BY <1>1, <1>2, PTL DEF Spec

\* The goroutines are well typed, with a job in hand where they need one.
THEOREM TypeCorrect == Spec => []TypeOK
<1>1. PrototypeInv => TypeOK
  BY DEF PrototypeInv
<1> QED BY <1>1, PrototypeAlways, PTL

\* A result in Redis is that of an execution of the job, whatever Redis refuses,
\* loses or repeats, and however often the program crashes.
THEOREM ResultIsRealHolds == Spec => []ResultIsReal
<1>1. PrototypeInv => ResultIsReal
  BY DEF PrototypeInv
<1> QED BY <1>1, PrototypeAlways, PTL
================================================================================
