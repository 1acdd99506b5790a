-------------------------- MODULE MCExecutionService ---------------------------
(* Instances of ExecutionService for TLC: jobs of one account under one nonce  *)
(* key for the executor, and the two manual tools beside it, cmd/executeJob on *)
(* the same key and cmd/erc4337 on another. A cfg picks which of them run.     *)
EXTENDS ExecutionService

CONSTANTS job1, job2, manual, demo, shared, own

MCKeyOf == [e \in Ops |-> IF e \in {job1, job2, manual} THEN shared ELSE own]
MCProgram ==
    [e \in Ops |-> IF e = manual THEN "executeJob"
                   ELSE IF e = demo THEN "erc4337" ELSE "scheduler"]
MCBaseFees == {2, 4}
================================================================================
