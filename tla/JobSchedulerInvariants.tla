------------------------- MODULE JobSchedulerInvariants -------------------------
(* The inductive invariants behind the properties of the scheduler, in layers:  *)
(* each layer is kept by a step that starts from it and from those before it.   *)
EXTENDS JobSchedulerProperties

--------------------------------------------------------------------------------
(* The inductive invariant behind NoDuplicateDispatch. It holds when a reply    *)
(* is never lost, the GET of isJobInCache never fails and no record expires:    *)
(* each of the three alone lets a job be queued that the invariant says is not. *)

ReliableCache == Faults \cap {"lostreply", "get", "expiry"} = {}

\* The job is in the queue or in the executor's hands.
Held(j) == Queued(j) \/ (epc # "idle" /\ ejob = j)

\* The stages of a poll that work on the jobs GetActiveJobs returned.
DispatchStages == {"fetch", "filter", "complete", "enqueue", "push", "cleanup"}

\* A row that is active and not cached is what the filter lets through; the
\* record outlives the queue entry and the execution.
UncachedActiveIsFree ==
    \A j \in Jobs : dbStatus[j] = "queuing" /\ ~IsCached(j) => ~Held(j)

HeldIsRegistered == \A j \in Jobs : Held(j) => dbStatus[j] # "unregistered"

\* A hash in a pending record, or in the snapshot of one, means that the executor
\* is done with the job.
HashedIsFree ==
    /\ \A j \in Jobs : cache[j].status = "pending" /\ cache[j].hash # ZeroHash => ~Held(j)
    /\ pc = "receipts" =>
         \A j \in todo \cup group : seen[j].hash # ZeroHash => ~Held(j)

\* A stage leaves nothing of its sets to the stages that do not use them.
StageSets ==
    /\ pc # "receipts" => group = {}
    /\ pc \notin {"fetch", "filter", "complete"} => picked = {}

\* The jobs of the poll stay active while it works on them.
PolledIsActive ==
    /\ pc \in DispatchStages =>
         \A j \in active \cup todo \cup picked : dbStatus[j] = "queuing"
    /\ pc \in {"complete", "push", "cleanup"} => dbStatus[cur] = "queuing"
    /\ pc \in {"delFailed", "delCompleted"} => dbStatus[cur] \in {"failed", "completed"}

\* What was found due is not held when it is queued. A cancelled context makes
\* the filter blind, and the enqueue loop harmless.
PickedIsFree ==
    ~cancelled =>
       /\ \A j \in picked : ~Held(j)
       /\ pc \in {"enqueue", "push", "cleanup"} => \A j \in todo : ~Held(j)

\* The job about to be pushed has its record, with the zero hash, and nothing else.
PushedIsFree ==
    /\ pc \in {"push", "cleanup"} => ~Held(cur) /\ cur \notin todo
    /\ pc = "push" => IsCached(cur) /\ cache[cur].hash = ZeroHash

DispatchInv ==
    /\ TypeOK /\ NoDuplicateDispatch
    /\ UncachedActiveIsFree /\ HeldIsRegistered /\ HashedIsFree /\ StageSets
    /\ PolledIsActive /\ PickedIsFree /\ PushedIsFree

--------------------------------------------------------------------------------
(* The records against the rows, behind TerminalIsFinal.                        *)

\* A record is of an active row, or repeats the verdict its row already has.
RecordFitsRow ==
    \A j \in Jobs : IsCached(j) =>
        \/ dbStatus[j] = "queuing"
        \/ cache[j].status \in {"failed", "completed"} /\ dbStatus[j] = cache[j].status

\* A job that may still report an execution is not completed anywhere.
HeldIsIncomplete ==
    \A j \in Jobs : Held(j) => dbStatus[j] # "completed" /\ cache[j].status # "completed"

\* Only the poller deletes records: what it has read as pending is at most failed
\* by the executor before its receipt is checked, and what it has read as failed
\* or completed stays so until its row is written.
ReadRecords ==
    /\ pc = "receipts" =>
         /\ todo \cap group = {}
         /\ \A j \in todo \cup group :
              dbStatus[j] = "queuing" /\ cache[j].status \in {"pending", "failed"}
    /\ pc \in {"syncFailed", "delFailed"} => \A j \in todo : cache[j].status = "failed"
    /\ pc \in {"syncCompleted", "delCompleted"} => \A j \in todo : cache[j].status = "completed"
    /\ pc \in {"delFailed", "delCompleted"} => cur \notin todo

\* The job about to be marked completed is free, the one about to be pushed pending.
CurRecord ==
    /\ pc = "complete" /\ ~cancelled => ~Held(cur) /\ ~IsCached(cur)
    /\ pc = "push" => cache[cur].status = "pending"

VerdictInv == RecordFitsRow /\ HeldIsIncomplete /\ ReadRecords /\ CurRecord

--------------------------------------------------------------------------------
(* The operations, behind EarlierOpsSucceeded and the refinement.               *)

AllOpsSucceeded(j) == \A k \in 1 .. Len(ops[j]) : ops[j][k] = "success"

\* The job waits for its operation to be sent.
Waiting(j) == Queued(j) \/ (epc = "exec" /\ ejob = j)

\* A job that may be dispatched, that waits, or that is completed has nothing on
\* the chain that is undecided or has failed.
DispatchableIsSettled ==
    \A j \in Jobs : dbStatus[j] = "queuing" /\ ~IsCached(j) => AllOpsSucceeded(j)
WaitingIsSettled == \A j \in Jobs : Waiting(j) => AllOpsSucceeded(j)
CompletedIsSettled ==
    \A j \in Jobs : cache[j].status = "completed" => AllOpsSucceeded(j)

\* So have the jobs of the poll that are on their way into the queue.
PickedIsSettled ==
    /\ ~cancelled => \A j \in picked : AllOpsSucceeded(j)
    /\ ~cancelled /\ pc \in {"enqueue", "push", "cleanup"} =>
         \A j \in todo : AllOpsSucceeded(j)
    /\ ~cancelled /\ pc = "complete" => AllOpsSucceeded(cur)
    /\ pc \in {"push", "cleanup"} => AllOpsSucceeded(cur)

\* A hash that is stored, read or about to be stored is that of the last operation.
HashIsLast ==
    /\ \A j \in Jobs : cache[j].status = "pending" /\ cache[j].hash # ZeroHash
         => cache[j].hash = Len(ops[j])
    /\ pc = "receipts" =>
         \A j \in todo \cup group : seen[j].hash # ZeroHash => seen[j].hash = Len(ops[j])
    /\ ehash # ZeroHash => epc = "report" /\ ehash = Len(ops[ejob])

UnregisteredIsUnsent ==
    \A j \in Jobs : dbStatus[j] = "unregistered" => ops[j] = <<>>

SettledInv ==
    /\ EarlierOpsSucceeded /\ DispatchableIsSettled /\ WaitingIsSettled
    /\ CompletedIsSettled /\ PickedIsSettled /\ HashIsLast /\ UnregisteredIsUnsent

--------------------------------------------------------------------------------
(* Failures on chain, behind OnChainFailureIsReal.                              *)

\* The last operation has reverted and nobody will send another one.
Reverted(j) == ops[j] # <<>> /\ ops[j][Len(ops[j])] = "reverted" /\ ~Held(j)

\* The verdict is true where it is found, where it is read and where it is filed.
RevertInv ==
    /\ \A j \in Jobs : cache[j].status = "failed" /\ cache[j].reason = "onchain" => Reverted(j)
    /\ pc \in {"syncFailed", "delFailed"} =>
         \A j \in todo : seen[j].reason = "onchain" => Reverted(j)
    /\ \A j \in Jobs : dbStatus[j] = "failed" /\ dbReason[j] = "onchain" => Reverted(j)

--------------------------------------------------------------------------------
(* The owner's plan, behind SendsOnTime: contract reads do not lag behind, and   *)
(* nobody executes the jobs beside the scheduler. Owners may switch.            *)

UpToDateReads == Faults \cap {"lag", "lagswitch"} = {}
NobodyBeside == "manual" \notin Faults

\* Contract reads may miss executions, but show the last switch.
UpToDateSwitches == "lagswitch" \notin Faults

\* What the log of a configured job keeps of the plan, and what it adds to it.
FollowsPlan(j) ==
    /\ log[j].interval = Plan[j].interval /\ log[j].total = Plan[j].total
    /\ log[j].start = Plan[j].start
    /\ log[j].completed = 0 <=> log[j].last = 0
    /\ log[j].last # 0 => log[j].last >= Plan[j].start

LogInv ==
    /\ now > 0
    /\ \A j \in Jobs : log[j] = UnsetConfig \/ FollowsPlan(j)
    /\ \A j \in Jobs : ops[j] # <<>> => FollowsPlan(j) /\ now >= Plan[j].start

\* IsTimeToExecute, on or off.
TimeHasCome(c) == IF c.last = 0 THEN now >= c.start ELSE now >= c.last + c.interval

Due(j) == FollowsPlan(j) /\ ~AllExecuted(log[j]) /\ TimeHasCome(log[j])

\* The jobs of a poll whose configuration has been read.
Fetched(j) ==
    /\ pc \in {"fetch", "filter", "complete"} /\ j \in active \cup todo
    /\ pc = "fetch" => j \notin todo

\* A configuration read for a job that is not in flight is still the log but for
\* the switch, unless the job had none then.
ReadConfigs ==
    \A j \in Jobs : Fetched(j) /\ ~IsCached(j) =>
        \/ config[j] = UnsetConfig
        \/ log[j] # UnsetConfig /\ config[j] \in {log[j], SwitchedLog(log[j])}

\* A job found due stays due until its operation is sent.
PickedIsDue ==
    /\ ~cancelled => \A j \in picked : Due(j)
    /\ ~cancelled /\ pc \in {"enqueue", "push", "cleanup"} => \A j \in todo : Due(j)
    /\ pc = "push" => Due(cur)

PlanInv == LogInv /\ ReadConfigs /\ PickedIsDue /\ \A j \in Jobs : Waiting(j) => Due(j)

--------------------------------------------------------------------------------
(* Completion, behind CompletedIsEarned: whatever fails, but that jobs are      *)
(* registered only after their configuration is on chain.                       *)

RegisteredLate == "early" \notin Faults

Configured(j) == log[j].total = Plan[j].total
Earned(j) == Configured(j) /\ log[j].completed >= Plan[j].total

\* Jobs the service has to do with.
Known(j) ==
    \/ dbStatus[j] = "queuing" \/ Held(j) \/ ops[j] # <<>>
    \/ j \in active \cup picked
    \/ pc \in DispatchStages /\ j \in todo
    \/ pc \in {"complete", "push", "cleanup"} /\ j = cur

EarnedInv ==
    /\ \A j \in Jobs : log[j] = UnsetConfig \/ Configured(j)
    /\ \A j \in Jobs : Known(j) => Configured(j)
    /\ pc \in {"fetch", "filter", "complete"} =>
         \A j \in (active \cup todo) \ (IF pc = "fetch" THEN todo ELSE {}) :
            config[j].total = Plan[j].total /\ config[j].completed <= log[j].completed
    /\ pc = "complete" => Earned(cur)
    /\ \A j \in Jobs : cache[j].status = "completed" => Earned(j)
    /\ pc \in {"syncCompleted", "delCompleted"} => \A j \in todo : Earned(j)
    /\ \A j \in Jobs : dbStatus[j] = "completed" => Earned(j)
--------------------------------------------------------------------------------
(* The number of operations, behind SendsWithinPlan: contract reads do not lag  *)
(* behind. Owners may switch, and others execute the jobs beside the scheduler. *)

\* The contract has counted what has succeeded: all operations but the last one.
CountedOps ==
    \A j \in Jobs :
        /\ Len(ops[j]) <= log[j].completed + 1
        /\ AllOpsSucceeded(j) => Len(ops[j]) <= log[j].completed
        /\ ops[j] # <<>> => Configured(j)

\* A count read for a job that is not in flight covers the operations sent for it.
ReadCounts ==
    \A j \in Jobs : Fetched(j) /\ ~IsCached(j) =>
        \/ config[j] = UnsetConfig
        \/ /\ Configured(j) /\ config[j].total = Plan[j].total
           /\ Len(ops[j]) <= config[j].completed

\* The plan has room for another operation of j.
RoomFor(j) == Configured(j) /\ Len(ops[j]) < Plan[j].total

RoomForPicked ==
    /\ ~cancelled => \A j \in picked : RoomFor(j)
    /\ ~cancelled /\ pc \in {"enqueue", "push", "cleanup"} => \A j \in todo : RoomFor(j)
    /\ pc = "push" => RoomFor(cur)

CountInv ==
    /\ SendsWithinPlan /\ CountedOps /\ ReadCounts
    /\ RoomForPicked /\ \A j \in Jobs : Waiting(j) => RoomFor(j)
    /\ \A j \in Jobs : log[j] = UnsetConfig \/ Configured(j)
================================================================================
