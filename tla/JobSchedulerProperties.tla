------------------------ MODULE JobSchedulerProperties -------------------------
(* What the scheduler must keep true of a job across the cache, the queue, the *)
(* jobs table and the chain.                                                   *)
EXTENDS JobScheduler

JobOrNone == Jobs \cup {NoJob}

\* The stages between two calls of one loop iteration, in which cur is a job.
CurStages == {"delFailed", "delCompleted", "complete", "push", "cleanup"}

\* Every variable holds values of the kind the Go types and the Redis and
\* Postgres schemas allow: statuses, reasons, stages, records and queues of jobs.
TypeOK ==
    /\ cache \in [Jobs -> JobCaches]
    /\ queue \in Seq(Jobs)
    /\ dbStatus \in [Jobs -> DBStatuses]
    /\ dbReason \in [Jobs -> Reasons]
    /\ log \in [Jobs -> ExecutionConfigs]
    /\ now \in Nat
    /\ ops \in [Jobs -> Seq(OpStatuses)]
    /\ pc \in Stages
    /\ todo \subseteq Jobs /\ group \subseteq Jobs
    /\ active \subseteq Jobs /\ picked \subseteq Jobs
    /\ seen \in [Jobs -> JobCaches]
    /\ config \in [Jobs -> ExecutionConfigs]
    /\ cur \in JobOrNone /\ (pc \in CurStages => cur \in Jobs)
    /\ epc \in {"idle", "exec", "report"}
    /\ ejob \in JobOrNone /\ (epc # "idle" => ejob \in Jobs)
    /\ ehash \in Nat
    /\ cancelled \in BOOLEAN

Queued(j) == \E k \in 1 .. Len(queue) : queue[k] = j

\* A job is dispatched once at a time: the Redis list never holds two entries of
\* one job, and holds none of the job the executor is working on. This is what
\* isJobInCache (scheduler.go:259) and the record written before the push are for.
NoDuplicateDispatch ==
    /\ \A a, b \in 1 .. Len(queue) : queue[a] = queue[b] => a = b
    /\ \A j \in Jobs : epc # "idle" /\ ejob = j => ~Queued(j)

\* A user operation is sent for a job only when every operation sent before for
\* it has succeeded on chain: never two in flight, never one after a revert.
EarlierOpsSucceeded ==
    \A j \in Jobs : \A k \in 1 .. Len(ops[j]) - 1 : ops[j][k] = "success"

\* However long a job waits in the queue, and whatever crashes meanwhile, at the
\* moment its operation is sent its plan is stored on chain and has executions left,
\* and the start date and a full interval since the last execution have passed
\* (decided at scheduler.go:293, sent from :209). Whether the owner has switched the
\* job off meanwhile is not looked at: see OffStaysOut.
SendsOnTime ==
    [][ \A j \in Jobs : Len(ops'[j]) > Len(ops[j])
          => /\ log[j].completed < Plan[j].total /\ now >= Plan[j].start
             /\ log[j].completed > 0 => now >= log[j].last + Plan[j].interval ]_vars

\* The job is off and nowhere on its way to the bundler: neither queued nor executed
\* nor found due, and if this poll has read its configuration, it has read that it
\* is off.
OutOfReach(j) ==
    /\ ~log[j].enabled /\ ~config[j].enabled
    /\ ~Queued(j) /\ (epc # "idle" => ejob # j) /\ j \notin picked
    /\ pc \in {"enqueue", "push", "cleanup"} => j \notin todo
    /\ pc = "push" => j # cur

\* A job that is off and out of reach stays so until its owner switches it on: no
\* record, redelivered queue entry, expiry or leftover of a crash, and nobody's
\* execution beside the scheduler, brings it back (the filter, scheduler.go:293, is
\* all that looks at isEnabled). One that was found due before it was switched off
\* is sent.
OffStaysOut ==
    [][ \A j \in Jobs : OutOfReach(j) => OutOfReach(j)' \/ log'[j].enabled ]_vars

\* The scheduler never sends more operations for a job than its owner planned
\* executions, also when cmd/executeJob executes the job beside it and the count
\* it has read is an old one.
SendsWithinPlan == \A j \in Jobs : Len(ops[j]) <= Plan[j].total

\* A row that is completed or failed stays so: no late executor result, second
\* sync of the same record or restart reopens or turns it (UpdateJobStatus itself
\* looks at no previous status, job_repo.go:90).
TerminalIsFinal ==
    [][ \A j \in Jobs : dbStatus[j] \in {"completed", "failed"}
          => dbStatus'[j] = dbStatus[j] ]_vars

\* A completed row means that the executions the owner planned have all happened.
CompletedIsEarned ==
    \A j \in Jobs : dbStatus[j] = "completed"
        => log[j] # UnsetConfig /\ log[j].completed >= Plan[j].total

\* A row failed for an on-chain failure belongs to a job whose latest operation
\* did revert: no verdict is filed under the wrong job or the wrong operation.
OnChainFailureIsReal ==
    \A j \in Jobs : dbStatus[j] = "failed" /\ dbReason[j] = "onchain"
        => ops[j] # <<>> /\ ops[j][Len(ops[j])] = "reverted"

\* "Keep status as pending, receipt checker will determine final success/failure"
\* (scheduler.go:222): a row is not failed while the job's operation is in flight.
InFlightIsNotFailed ==
    \A j \in Jobs : dbStatus[j] = "failed"
        => ops[j] = <<>> \/ ops[j][Len(ops[j])] # "pending"

\* A service that is stopped again before each poll ends gets nothing done.
ShutdownsCease == <>[]~cancelled

\* "For each registered job: ... If overdue -> Trigger Execution Service"
\* (docs/scheduling.md:159): a due job on a supported chain gets a record, or is
\* settled, whatever other jobs are registered.
DueJobsAreTriggered ==
    ShutdownsCease =>
      \A j \in Jobs :
        /\ dbStatus[j] = "queuing" /\ ChainOf[j] \in Supported
        /\ ~AllExecuted(log[j]) /\ IsTimeToExecute(log[j], now)
        ~> IsCached(j) \/ dbStatus[j] # "queuing"

\* Every registered job is settled: it ends up completed or failed, and is not
\* left in the cache, the queue or a poll for ever. What shutdowns have left
\* behind (records without a queue entry, queue entries without a record,
\* operations whose hash was never stored) does not keep it from being settled.
RegisteredSettles ==
    ShutdownsCease =>
      \A j \in Jobs : dbStatus[j] = "queuing" ~> dbStatus[j] \in {"completed", "failed"}

--------------------------------------------------------------------------------
(* The abstract specification the scheduler implements.                        *)

\* Where a job is: two copies of it are in no place the abstract jobs can be in.
InExecution(j) == epc # "idle" /\ ejob = j
QueuedTwice(j) == \E a, b \in 1 .. Len(queue) : a < b /\ queue[a] = j /\ queue[b] = j
PlaceOf(j) ==
    IF ~Queued(j) THEN IF InExecution(j) THEN "executing" ELSE "free"
    ELSE IF InExecution(j) \/ QueuedTwice(j) THEN "twice"
    ELSE "queued"

Lifecycle == INSTANCE JobLifecycle WITH
    row <- dbStatus, place <- [j \in Jobs |-> PlaceOf(j)], sent <- ops

\* Whatever the poller, the executor, the chain and the failures of the instance
\* do, a job goes through the life JobLifecycle describes: dispatched from an
\* active row when nobody holds it, executed one at a time, sent only after its
\* earlier operations succeeded, completed only when nothing of it is undecided.
ImplementsLifecycle == Lifecycle!LifecycleSpec
================================================================================
