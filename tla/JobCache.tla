------------------------------- MODULE JobCache --------------------------------
(* JobCacheRepository (src/src/repository/job_cache.go): the Redis records of  *)
(* the jobs in flight and the Redis list that is the execution queue. Every    *)
(* method holds the repository's RWMutex, or is one Redis command, so a method *)
(* is one atomic step here; whether a call succeeds is decided by the caller's *)
(* actions, which also see the error.                                          *)
EXTENDS JobTypes, Sequences

VARIABLES
    cache,   \* cache[j]: the record under <queue>:status:<j>, or NoRecord
    queue    \* the list under <queue>, oldest element first

cacheVars == <<cache, queue>>

ZeroHash == 0    \* common.Hash{}; the k-th operation of a job has hash k
CacheStatuses == {"pending", "failed", "completed"}
Reasons == {"none", "exec", "emptyhash", "onchain"}    \* the Error messages

JobCaches ==
    [status : CacheStatuses \cup {"absent"}, chain : Chains \cup {NoChain},
     hash : Nat, reason : Reasons]

NoRecord ==
    [status |-> "absent", chain |-> NoChain, hash |-> ZeroHash, reason |-> "none"]

IsCached(j) == cache[j].status # "absent"

\* GetJobCachesByStatus: KEYS then GET of each, under the read lock.
JobCachesByStatus(status) == {j \in Jobs : cache[j].status = status}

\* SetJobStatus builds a fresh record: the chain and the hash of the record it
\* overwrites are lost.
Wrong_SetDBStatus(j, status, reason) ==
    cache' = [cache EXCEPT ![j] =
        [status |-> "queuing", chain |-> NoChain, hash |-> ZeroHash, reason |-> reason]]
SetJobStatus(j, status, reason) ==
    cache' = [cache EXCEPT ![j] =
        [status |-> status, chain |-> NoChain, hash |-> ZeroHash, reason |-> reason]]

SetJobStatusFailed(j, reason) == SetJobStatus(j, "failed", reason)

DeleteJobCache(j) == cache' = [cache EXCEPT ![j] = NoRecord]

\* The record the enqueue loop builds: pending, with the zero hash.
AddJobCache(j) ==
    cache' = [cache EXCEPT ![j] =
        [status |-> "pending", chain |-> ChainOf[j], hash |-> ZeroHash, reason |-> "none"]]

\* Read, set the hash, write back; the call is an error when there is no record.
UpdateJobCacheUserOpHash(j, hash) ==
    /\ IsCached(j)
    /\ cache' = [cache EXCEPT ![j].hash = hash]

\* LPUSH and BRPOP: a first-in first-out list.
EnqueueJob(j) ==
    /\ Len(queue) < MaxQueue
    /\ queue' = Append(queue, j)
DequeueJob(j) ==
    /\ queue # <<>>
    /\ j = Head(queue)
    /\ queue' = Tail(queue)

\* The 24-hour TTL that every write sets elapses.
ExpireRecord(j) ==
    /\ IsCached(j)
    /\ cache' = [cache EXCEPT ![j] = NoRecord]
================================================================================
