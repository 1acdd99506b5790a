----------------------------- MODULE JobLifecycle ------------------------------
(* What the scheduler promises of a job, without the cache, the stages of a    *)
(* poll or the process: the job is dispatched from its row, one place at a     *)
(* time holds it, an operation is sent only by the one that holds it and only  *)
(* after the operations before it have succeeded, and a verdict is final.      *)
(*                                                                             *)
(* JobScheduler implements this specification as long as replies are not lost, *)
(* the GET of isJobInCache does not fail and no record expires.                *)
EXTENDS Sequences, Naturals

CONSTANT Jobs

VARIABLES
    row,    \* row[j]: the status of the job's row
    place,  \* place[j]: who holds the job
    sent    \* sent[j]: the outcome of each operation sent for it, in order

lifecycleVars == <<row, place, sent>>

Rows     == {"unregistered", "queuing", "completed", "failed"}
Places   == {"free", "queued", "executing"}
Outcomes == {"pending", "success", "reverted", "dropped"}

LifecycleTypeOK ==
    /\ row \in [Jobs -> Rows]
    /\ place \in [Jobs -> Places]
    /\ sent \in [Jobs -> Seq(Outcomes)]

AllSucceeded(j) == \A k \in 1 .. Len(sent[j]) : sent[j][k] = "success"

Register(j) ==
    /\ row[j] = "unregistered"
    /\ row' = [row EXCEPT ![j] = "queuing"]
    /\ UNCHANGED <<place, sent>>

\* Only an active job is dispatched, and only when nobody holds it.
Dispatch(j) ==
    /\ row[j] = "queuing" /\ place[j] = "free"
    /\ place' = [place EXCEPT ![j] = "queued"]
    /\ UNCHANGED <<row, sent>>

\* One job is executed at a time.
Start(j) ==
    /\ place[j] = "queued"
    /\ \A i \in Jobs : place[i] # "executing"
    /\ place' = [place EXCEPT ![j] = "executing"]
    /\ UNCHANGED <<row, sent>>

Send(j) ==
    /\ place[j] = "executing" /\ AllSucceeded(j)
    /\ sent' = [sent EXCEPT ![j] = Append(@, "pending")]
    /\ UNCHANGED <<row, place>>

\* The executor is done with the job, or its process has died.
Release(j) ==
    /\ place[j] = "executing"
    /\ place' = [place EXCEPT ![j] = "free"]
    /\ UNCHANGED <<row, sent>>

\* The chain decides about the one operation in flight.
Resolve(j, outcome) ==
    /\ \E k \in 1 .. Len(sent[j]) :
         /\ sent[j][k] = "pending"
         /\ sent' = [sent EXCEPT ![j] = [@ EXCEPT ![k] = outcome]]
    /\ UNCHANGED <<row, place>>

\* A job is completed when nobody holds it and nothing it sent is undecided.
Complete(j) ==
    /\ row[j] = "queuing" /\ place[j] = "free" /\ AllSucceeded(j)
    /\ row' = [row EXCEPT ![j] = "completed"]
    /\ UNCHANGED <<place, sent>>

\* A job may fail at any time, held or not, with an operation in flight or not.
Fail(j) ==
    /\ row[j] = "queuing"
    /\ row' = [row EXCEPT ![j] = "failed"]
    /\ UNCHANGED <<place, sent>>

LifecycleInit ==
    /\ row = [j \in Jobs |-> "unregistered"]
    /\ place = [j \in Jobs |-> "free"]
    /\ sent = [j \in Jobs |-> <<>>]

LifecycleNext ==
    \E j \in Jobs :
        \/ Register(j) \/ Dispatch(j) \/ Start(j) \/ Send(j) \/ Release(j)
        \/ \E outcome \in Outcomes \ {"pending"} : Resolve(j, outcome)
        \/ Complete(j) \/ Fail(j)

LifecycleSpec == LifecycleInit /\ [][LifecycleNext]_lifecycleVars
================================================================================
