------------------------------- MODULE JobStore --------------------------------
(* JobRepository and JobService (src/src/repository/job_repo.go,               *)
(* src/src/service/job.go): the jobs table in Postgres.                        *)
EXTENDS JobTypes

VARIABLES
    dbStatus,   \* the status column, "unregistered" while there is no row
    dbReason    \* the err_msg column, "none" for NULL

storeVars == <<dbStatus, dbReason>>

DBStatuses == {"unregistered", "queuing", "completed", "failed"}

\* CreateJob inserts a queuing row; the table's unique constraint refuses a
\* second row for the same (account, chain, on-chain job), whatever its status.
CreateJob(j) ==
    /\ dbStatus[j] = "unregistered"
    /\ dbStatus' = [dbStatus EXCEPT ![j] = "queuing"]
    /\ UNCHANGED dbReason

\* GetActiveJobs: the rows whose status is queuing.
Wrong_AllJobs == {j \in Jobs : dbStatus[j] # "unregistered"}
ActiveJobs == {j \in Jobs : dbStatus[j] = "queuing"}

\* UpdateJobStatus does not look at the present status; it writes err_msg only
\* together with the failed status.
UpdateJobStatus(j, status, reason) ==
    /\ dbStatus' = [dbStatus EXCEPT ![j] = status]
    /\ dbReason' = [dbReason EXCEPT ![j] = IF status = "failed" THEN reason ELSE @]
================================================================================
