--------------------------- MODULE PrototypeScheduler --------------------------
(* The demonstration program cmd/scheduler (src/cmd/scheduler/main.go), an      *)
(* earlier form of the job scheduler: a poller that offers new jobs, a queue, a *)
(* status per job in Redis, and an executor. Unlike its successor it pushes a   *)
(* job before it marks it as pending, and nothing but Redis outlives it.        *)
(*                                                                              *)
(* A step is one Redis command with the local code after it.                    *)
EXTENDS Naturals, Sequences

CONSTANTS
    Batch,    \* the types of the jobs each poll offers, a sequence
    NumPolls, \* polls of the instance, over all runs
    MaxRuns,  \* runs of the program
    Repeated, \* jobs whose push the client may repeat, after a broken connection
    Faults    \* what may happen to any command: it "fails" or its reply is "lost"

ASSUME PrototypeAssumption ==
    /\ Batch \in Seq({"email", "report", "cleanup"}) /\ Batch # <<>>
    /\ NumPolls \in Nat /\ MaxRuns \in Nat
    /\ Faults \subseteq {"fails", "lost"}

\* A job's ID is made of the second of its poll and its place in the batch.
Jobs == (1 .. NumPolls) \X DOMAIN Batch
NoJob == <<0, 0>>

VARIABLES
    main, runs,      \* the program, and how often it was started
    poller, offered, \* the poller, and the polls so far
    item,            \* the place of the job it works on
    scan, found,     \* the status keys it has yet to check, and the one to clear
    executor, job, result,
    queue, status,   \* in Redis
    outcomes         \* history: outcomes[j]: how executions of j have ended

pollerVars   == <<poller, offered, item, scan, found>>
executorVars == <<executor, job, result, outcomes>>
redisVars    == <<queue, status>>
mainVars     == <<main, runs>>
vars         == <<mainVars, pollerVars, executorVars, redisVars>>

\* A command under the cancelled context is refused, one that was on its way then
\* may have taken effect.
Cancelled == main = "stopping"
Works     == ~Cancelled
Fails     == Cancelled \/ "fails" \in Faults
Lost      == Cancelled \/ "lost" \in Faults

SetStatus(j, s) == status' = [status EXCEPT ![j] = s]

--------------------------------------------------------------------------------
(* pollJobs.                                                                    *)

Polled == <<offered, item>>

Tick ==
    /\ poller = "tick" /\ offered < NumPolls
    /\ offered' = offered + 1 /\ item' = 1
    /\ poller' = "skip"
    /\ UNCHANGED <<mainVars, executorVars, redisVars, scan, found>>

PollerEnds ==
    /\ poller = "tick" /\ Cancelled
    /\ poller' = "ended"
    /\ UNCHANGED <<mainVars, executorVars, redisVars, offered, item, scan, found>>

Wrong_OneMoreItem ==
    IF item <= Len(Batch) THEN poller' = "skip" /\ item' = item + 1
                          ELSE poller' = "keys" /\ UNCHANGED item
NextItem ==
    IF item < Len(Batch) THEN poller' = "skip" /\ item' = item + 1
                         ELSE poller' = "keys" /\ UNCHANGED item

\* A status that cannot be read does not keep the job from being pushed.
ShouldSkipJob ==
    /\ poller = "skip"
    /\ \/ Works /\ status[Polled] \in {"pending", "success"} /\ NextItem
       \/ /\ Fails \/ status[Polled] \notin {"pending", "success"}
          /\ poller' = "push" /\ UNCHANGED item
    /\ UNCHANGED <<mainVars, executorVars, redisVars, offered, scan, found>>

Wrong_MarksFailure ==
    /\ poller = "push"
    /\ \/ Works /\ queue' = Append(queue, Polled) /\ UNCHANGED status
       \/ Fails /\ SetStatus(Polled, "failed") /\ UNCHANGED queue
    /\ NextItem
    /\ UNCHANGED <<mainVars, executorVars, offered, scan, found>>
EnqueueJob ==
    /\ poller = "push"
    /\ \/ /\ Works /\ queue' = Append(queue, Polled)
          /\ poller' = "mark" /\ UNCHANGED item
       \/ /\ Works /\ Polled \in Repeated /\ queue' = queue \o <<Polled, Polled>>
          /\ poller' = "mark" /\ UNCHANGED item
       \/ Lost /\ queue' = Append(queue, Polled) /\ NextItem
       \/ Fails /\ NextItem /\ UNCHANGED queue
    /\ UNCHANGED <<mainVars, executorVars, status, offered, scan, found>>

\* The executor may have stored the job's result by now.
SetPending ==
    /\ poller = "mark"
    /\ \/ (Works \/ Lost) /\ SetStatus(Polled, "pending")
       \/ Fails /\ UNCHANGED status
    /\ NextItem
    /\ UNCHANGED <<mainVars, executorVars, queue, offered, scan, found>>

\* updateJobStatuses goes through the keys in any order.
ListKeys ==
    /\ poller = "keys"
    /\ scan' = {j \in Jobs : Works /\ status[j] # "none"}
    /\ poller' = "check"
    /\ UNCHANGED <<mainVars, executorVars, redisVars, offered, item, found>>

ListFails ==
    /\ poller = "keys" /\ Fails
    /\ poller' = "tick"
    /\ UNCHANGED <<mainVars, executorVars, redisVars, offered, item, scan, found>>

CheckJobStatus ==
    /\ poller = "check"
    /\ \/ scan = {} /\ poller' = "tick" /\ UNCHANGED <<scan, found>>
       \/ \E j \in scan :
            /\ scan' = scan \ {j}
            /\ \/ /\ Works /\ status[j] = "failed long ago"
                  /\ found' = j /\ poller' = "clear"
               \/ /\ Fails \/ status[j] # "failed long ago"
                  /\ UNCHANGED <<poller, found>>
    /\ UNCHANGED <<mainVars, executorVars, redisVars, offered, item>>

ClearFailed ==
    /\ poller = "clear"
    /\ \/ (Works \/ Lost) /\ SetStatus(found, "none")
       \/ Fails /\ UNCHANGED status
    /\ found' = NoJob /\ poller' = "check"
    /\ UNCHANGED <<mainVars, executorVars, queue, offered, item, scan>>

PollJobs ==
    \/ Tick \/ PollerEnds \/ ShouldSkipJob \/ EnqueueJob \/ SetPending
    \/ ListKeys \/ ListFails \/ CheckJobStatus \/ ClearFailed

--------------------------------------------------------------------------------
(* executeJobs.                                                                 *)

Wrong_LoopTurn ==
    /\ executor = "loop" /\ executor' = "pop"
    /\ UNCHANGED <<mainVars, pollerVars, redisVars, job, result, outcomes>>
LoopTurn ==
    /\ executor = "loop"
    /\ executor' = IF Cancelled THEN "ended" ELSE "pop"
    /\ UNCHANGED <<mainVars, pollerVars, redisVars, job, result, outcomes>>

PopJob ==
    /\ executor = "pop" /\ Works /\ queue # <<>>
    /\ job' = Head(queue) /\ queue' = Tail(queue)
    /\ executor' = "run"
    /\ UNCHANGED <<mainVars, pollerVars, status, result, outcomes>>

\* No job within a second, or an error: the next turn of the loop.
Wrong_PopEnds ==
    /\ executor = "pop"
    /\ \/ (queue = <<>> \/ Fails) /\ UNCHANGED queue
       \/ queue # <<>> /\ Lost /\ queue' = Tail(queue)
    /\ executor' = "ended"
    /\ UNCHANGED <<mainVars, pollerVars, status, job, result, outcomes>>
PopNothing ==
    /\ executor = "pop"
    /\ \/ (queue = <<>> \/ Fails) /\ UNCHANGED queue
       \/ queue # <<>> /\ Lost /\ queue' = Tail(queue)
    /\ executor' = "loop"
    /\ UNCHANGED <<mainVars, pollerVars, status, job, result, outcomes>>

Outcomes(j) == IF Batch[j[2]] = "report" THEN {"success", "failed"} ELSE {"success"}

ExecuteJobLogic ==
    /\ executor = "run"
    /\ result' \in Outcomes(job)
    /\ outcomes' = [outcomes EXCEPT ![job] = @ \cup {result'}]
    /\ executor' = "store"
    /\ UNCHANGED <<mainVars, pollerVars, redisVars, job>>

StoreResult ==
    /\ executor = "store"
    /\ \/ (Works \/ Lost) /\ SetStatus(job, result)
       \/ Fails /\ UNCHANGED status
    /\ job' = NoJob /\ result' = "none" /\ executor' = "loop"
    /\ UNCHANGED <<mainVars, pollerVars, queue, outcomes>>

ExecuteJobs == LoopTurn \/ PopJob \/ PopNothing \/ ExecuteJobLogic \/ StoreResult

--------------------------------------------------------------------------------
(* main, which stops the scheduler after two minutes, and its runs.             *)

Goroutines(p, e) ==
    /\ poller' = p /\ item' = 1 /\ scan' = {} /\ found' = NoJob
    /\ executor' = e /\ job' = NoJob /\ result' = "none"
    /\ UNCHANGED <<offered, outcomes>>

Start ==
    /\ main = "off" /\ runs < MaxRuns
    /\ main' = "running" /\ runs' = runs + 1
    /\ Goroutines("tick", "loop")
    /\ UNCHANGED redisVars

Stop ==
    /\ main = "running" /\ main' = "stopping"
    /\ UNCHANGED <<runs, pollerVars, executorVars, redisVars>>

\* wg.Wait, then the connection is closed and main returns.
Close ==
    /\ Cancelled /\ poller = "ended" /\ executor = "ended"
    /\ main' = "off"
    /\ Goroutines("off", "off")
    /\ UNCHANGED <<runs, redisVars>>

Crash ==
    /\ main # "off" /\ main' = "off"
    /\ Goroutines("off", "off")
    /\ UNCHANGED <<runs, redisVars>>

\* Five minutes, longer than a run.
Elapse ==
    /\ main = "off"
    /\ status' = [j \in Jobs |-> IF status[j] = "failed" THEN "failed long ago"
                                 ELSE status[j]]
    /\ UNCHANGED <<mainVars, pollerVars, executorVars, queue>>

--------------------------------------------------------------------------------
Init ==
    /\ main = "off" /\ runs = 0
    /\ poller = "off" /\ offered = 0 /\ item = 1 /\ scan = {} /\ found = NoJob
    /\ executor = "off" /\ job = NoJob /\ result = "none"
    /\ queue = <<>> /\ status = [j \in Jobs |-> "none"]
    /\ outcomes = [j \in Jobs |-> {}]

Next ==
    \/ PollJobs \/ ExecuteJobs
    \/ Start \/ Stop \/ Close \/ Crash \/ Elapse

Spec == Init /\ [][Next]_vars

\* Both goroutines and main run on, and Redis does not refuse every pop. That the
\* ticker is not preferred to the end of the context for ever follows from NumPolls.
Fairness ==
    /\ WF_vars(PollJobs) /\ WF_vars(ExecuteJobs) /\ SF_vars(PopJob)
    /\ WF_vars(Close)

FairSpec == Spec /\ Fairness

--------------------------------------------------------------------------------
(* Properties.                                                                  *)

\* The goroutines run while main does, with a job in hand where they need one.
TypeOK ==
    /\ main \in {"off", "running", "stopping"} /\ runs \in 0 .. MaxRuns
    /\ poller \in {"off", "tick", "skip", "push", "mark", "keys", "check", "clear", "ended"}
    /\ executor \in {"off", "loop", "pop", "run", "store", "ended"}
    /\ offered \in 0 .. NumPolls /\ item \in DOMAIN Batch
    /\ scan \subseteq Jobs /\ found \in Jobs \cup {NoJob}
    /\ job \in Jobs \cup {NoJob} /\ result \in {"none", "success", "failed"}
    /\ queue \in Seq(Jobs)
    /\ status \in [Jobs -> {"none", "pending", "success", "failed", "failed long ago"}]
    /\ outcomes \in [Jobs -> SUBSET {"success", "failed"}]
    /\ job # NoJob <=> executor \in {"run", "store"}
    /\ found # NoJob <=> poller = "clear"

\* A result in Redis is that of an execution of the job, whatever was refused, lost
\* or repeated on the way. That a job was executed can be hidden by the pending
\* status written after the push (main.go:113), never invented.
ResultIsReal ==
    \A j \in Jobs :
        /\ status[j] = "success" => "success" \in outcomes[j]
        /\ status[j] \in {"failed", "failed long ago"} => "failed" \in outcomes[j]

\* The queue is worked off, jobs of an earlier run included, unless the program ends
\* before: no failing pop and no pause without jobs ends the executor.
QueueIsWorkedOff ==
    queue # <<>> ~> (queue = <<>> /\ job = NoJob) \/ main # "running"

\* Stop returns: both goroutines see that the context is done, although every
\* command they still send is refused.
StopEnds == main = "stopping" ~> main = "off"
--------------------------------------------------------------------------------
(* The inductive invariant behind the safety properties.                        *)

\* The result in the executor's hands is one the job has had, and the poller works
\* on a job of a poll.
ResultInv ==
    /\ executor = "store" => result \in outcomes[job]
    /\ poller \in {"skip", "push", "mark"} => offered >= 1

PrototypeInv == TypeOK /\ ResultInv /\ ResultIsReal
================================================================================
