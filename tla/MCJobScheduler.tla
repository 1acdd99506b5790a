---------------------------- MODULE MCJobScheduler -----------------------------
(* Instances of JobScheduler for TLC: two jobs on one supported chain, one that *)
(* is executed twice and one once.                                             *)
EXTENDS JobSchedulerInvariants

CONSTANTS j1, j2, c1, c2

MCChainOf == [j \in Jobs |-> c1]

\* Chain c2 is in no switch of BlockchainService.
MCChainOfMixed == [j \in Jobs |-> IF j = j2 THEN c2 ELSE c1]

MCPlan ==
    [j \in Jobs |-> [UnsetConfig EXCEPT
        !.interval = 2, !.total = IF j = j1 THEN 2 ELSE 1,
        !.start = 2, !.enabled = TRUE]]

\* Due as soon as it was executed: the plan of the liveness runs, in which the
\* bounded clock must not keep a job from ever being due again.
MCPlanAlwaysDue == [j \in Jobs |-> [MCPlan[j] EXCEPT !.interval = 0]]
================================================================================
