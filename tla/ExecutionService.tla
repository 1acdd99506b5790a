--------------------------- MODULE ExecutionService ----------------------------
(* ExecuteJob (src/src/service/execution.go) seen from the EntryPoint's nonces  *)
(* and the bundler's pool, with the three programs that run it side by side:    *)
(* the executor of the scheduler, which takes the next job as soon as the       *)
(* bundler has accepted an operation, cmd/executeJob, which waits for the       *)
(* receipt, and cmd/erc4337, which has the same steps in its main function and  *)
(* a loop of its own for the receipt.                                           *)
(*                                                                              *)
(* A step is one RPC call with the local code after it, so that the chain and   *)
(* the other programs move between any two of them.                             *)
EXTENDS Naturals, FiniteSets

CONSTANTS
    Ops,          \* the executions of the instance: one user operation each
    Keys,         \* pairs of an account and a nonce key
    KeyOf,        \* the pair each operation is registered with
    Program,      \* who executes it: "scheduler", "executeJob" or "erc4337"
    BaseFees,     \* values of the block's base fee
    Tip,          \* the bundler's maxPriorityFeePerGas
    MaxAttempts,  \* polls for a receipt before a tool gives up (60 in the code)
    Failures      \* the kinds of failure this instance allows

FailureKinds ==
    { "rpc",        \* a call fails without effect
      "lostreply",  \* the bundler accepts an operation and the reply is lost
      "lag",        \* the nonce is read from a node one operation behind
      "drop",       \* the bundler forgets an accepted operation
      "hang" }      \* a call is never answered, nor ended by its context

ASSUME InstanceAssumption ==
    /\ KeyOf \in [Ops -> Keys]
    /\ Program \in [Ops -> {"scheduler", "executeJob", "erc4337"}]
    /\ BaseFees \subseteq Nat /\ BaseFees # {}
    /\ Tip \in Nat
    /\ MaxAttempts \in Nat \ {0}
    /\ Failures \subseteq FailureKinds

VARIABLES
    \* the programs
    stage,    \* stage[e]: how far the execution of e is
    nonce,    \* nonce[e]: the sequence number it read
    fee,      \* fee[e]: the maxFeePerGas it computed
    attempt,  \* attempt[e]: polls for the receipt of e so far
    \* the world
    seq,      \* seq[k]: the sequence number the EntryPoint expects next
    fate,     \* fate[e]: what has become of the operation of e
    baseFee   \* of the latest block

programVars == <<stage, nonce, fee, attempt>>
worldVars   == <<seq, fate, baseFee>>
vars == <<programVars, worldVars>>

Executing == {"estimate", "fees", "send"}
Ended     == {"sent", "reported", "gaveUp", "panicked", "failed", "refused"}
Stages    == {"ready", "wait", "hung"} \cup Executing \cup Ended
Fates     == {"unsent", "pending", "mined", "replaced", "dropped"}

May(kind) == kind \in Failures

--------------------------------------------------------------------------------
(* The bundler and the EntryPoint.                                             *)

\* getNonce at the latest block of the node that is asked.
Wrong_SequenceOfAnyKey(k) == {seq[l] : l \in Keys}
SequenceRead(k) ==
    {seq[k]} \cup {n \in {seq[k] - 1} : May("lag") /\ seq[k] > 0}

\* (baseFeePerGas * 150 / 100) + maxPriorityFeePerGas
MaxFeePerGas == (baseFee * 150) \div 100 + Tip

\* A pending operation of the same key makes way for one that pays 10% more.
Pending(k) == {d \in Ops : KeyOf[d] = k /\ fate[d] = "pending"}
Outbids(e, d) == fee[e] * 10 >= fee[d] * 11

BundlerAccepts(e) ==
    /\ nonce[e] = seq[KeyOf[e]]
    /\ \A d \in Pending(KeyOf[e]) : Outbids(e, d)

Accept(e) ==
    /\ BundlerAccepts(e)
    /\ fate' = [d \in Ops |-> IF d = e THEN "pending"
                              ELSE IF d \in Pending(KeyOf[e]) THEN "replaced"
                              ELSE fate[d]]

\* A bundle with the operation is mined once its fee covers the base fee.
Mine(e) ==
    /\ fate[e] = "pending" /\ fee[e] >= baseFee
    /\ fate' = [fate EXCEPT ![e] = "mined"]
    /\ seq' = [seq EXCEPT ![KeyOf[e]] = @ + 1]
    /\ UNCHANGED <<programVars, baseFee>>

Drop(e) ==
    /\ May("drop") /\ fate[e] = "pending"
    /\ fate' = [fate EXCEPT ![e] = "dropped"]
    /\ UNCHANGED <<programVars, seq, baseFee>>

NewBlock ==
    /\ baseFee' \in BaseFees \ {baseFee}
    /\ UNCHANGED <<programVars, seq, fate>>

--------------------------------------------------------------------------------
(* ExecuteJob, and its copy in cmd/erc4337.                                    *)

\* The scheduler executes one job at a time, in one goroutine; the tools are
\* processes of their own.
MayStart(e) ==
    Program[e] = "scheduler" =>
        \A d \in Ops : Program[d] = "scheduler" => stage[d] \notin Executing \cup {"hung"}

GoTo(e, s) == stage' = [stage EXCEPT ![e] = s]

ReadNonce(e) ==
    /\ stage[e] = "ready" /\ MayStart(e)
    /\ \E n \in SequenceRead(KeyOf[e]) : nonce' = [nonce EXCEPT ![e] = n]
    /\ GoTo(e, "estimate")
    /\ UNCHANGED <<fee, attempt, worldVars>>

\* The bundler simulates the operation: a used sequence number is refused.
Estimate(e) ==
    /\ stage[e] = "estimate"
    /\ \/ nonce[e] = seq[KeyOf[e]] /\ GoTo(e, "fees")
       \/ nonce[e] # seq[KeyOf[e]] /\ GoTo(e, "refused")
    /\ UNCHANGED <<nonce, fee, attempt, worldVars>>

ReadFees(e) ==
    /\ stage[e] = "fees"
    /\ fee' = [fee EXCEPT ![e] = MaxFeePerGas]
    /\ GoTo(e, "send")
    /\ UNCHANGED <<nonce, attempt, worldVars>>

\* The executor returns with the hash; the tools go on to wait for the receipt.
SignAndSend(e) ==
    /\ stage[e] = "send"
    /\ \/ /\ Accept(e)
          /\ \/ GoTo(e, IF Program[e] = "scheduler" THEN "sent" ELSE "wait")
             \/ May("lostreply") /\ GoTo(e, "failed")
             \/ May("hang") /\ GoTo(e, "hung")
       \/ ~BundlerAccepts(e) /\ GoTo(e, "refused") /\ UNCHANGED fate
    /\ UNCHANGED <<nonce, fee, attempt, seq, baseFee>>

\* Any error ends the execution: the executor marks the job failed, a tool exits.
Abort(e) ==
    /\ stage[e] \in {"ready"} \cup Executing
    /\ stage[e] = "ready" => MayStart(e)
    /\ May("rpc")
    /\ GoTo(e, "failed")
    /\ UNCHANGED <<nonce, fee, attempt, worldVars>>

--------------------------------------------------------------------------------
(* The wait for a receipt.                                                     *)

HasReceipt(e) == fate[e] = "mined"

\* One more attempt has shown no receipt: after the last one the tool ends.
Wrong_OneMorePoll(e) ==
    IF attempt[e] = MaxAttempts THEN GoTo(e, "gaveUp") ELSE UNCHANGED stage
NextAttempt(e) ==
    IF attempt[e] + 1 = MaxAttempts THEN GoTo(e, "gaveUp") ELSE UNCHANGED stage

\* WaitForUserOpReceipt takes an error and a missing receipt alike.
Wrong_FirstAnswerCounts(e) ==
    /\ attempt' = [attempt EXCEPT ![e] = @ + 1]
    /\ GoTo(e, "reported") \/ (May("rpc") /\ NextAttempt(e))
Wrong_PollsForEver(e) ==
    /\ HasReceipt(e)
    /\ attempt' = [attempt EXCEPT ![e] = @ + 1]
    /\ GoTo(e, "reported")
WaitForUserOpReceipt(e) ==
    /\ attempt' = [attempt EXCEPT ![e] = @ + 1]
    /\ \/ HasReceipt(e) /\ GoTo(e, "reported")
       \/ (~HasReceipt(e) \/ May("rpc")) /\ NextAttempt(e)

\* The loop of cmd/erc4337 takes an answer without an error for a receipt: the
\* nil of an operation that is not mined yet is dereferenced.
PollReceipt4337(e) ==
    /\ attempt' = [attempt EXCEPT ![e] = @ + 1]
    /\ \/ HasReceipt(e) /\ GoTo(e, "reported")
       \/ ~HasReceipt(e) /\ GoTo(e, "panicked")
       \/ May("rpc") /\ NextAttempt(e)

AwaitReceipt(e) ==
    /\ stage[e] = "wait"
    /\ IF Program[e] = "executeJob" THEN WaitForUserOpReceipt(e) ELSE PollReceipt4337(e)
    /\ UNCHANGED <<nonce, fee, worldVars>>

--------------------------------------------------------------------------------
\* A call that is never answered: the tools run under context.Background(), the
\* executor under js.ctx, and neither has a deadline; nor has the RPC client.
Hang(e) ==
    /\ May("hang")
    /\ stage[e] \in {"ready", "wait"} \cup Executing
    /\ stage[e] = "ready" => MayStart(e)
    /\ GoTo(e, "hung")
    /\ UNCHANGED <<nonce, fee, attempt, worldVars>>

ExecuteJob(e) ==
    ReadNonce(e) \/ Estimate(e) \/ ReadFees(e) \/ SignAndSend(e) \/ Abort(e)

Step(e) == ExecuteJob(e) \/ AwaitReceipt(e)

Init ==
    /\ stage = [e \in Ops |-> "ready"]
    /\ nonce = [e \in Ops |-> 0]
    /\ fee = [e \in Ops |-> 0]
    /\ attempt = [e \in Ops |-> 0]
    /\ seq = [k \in Keys |-> 0]
    /\ fate = [e \in Ops |-> "unsent"]
    /\ baseFee \in BaseFees

Next ==
    \/ \E e \in Ops : Step(e) \/ Hang(e) \/ Mine(e) \/ Drop(e)
    \/ NewBlock

Spec == Init /\ [][Next]_vars

\* The programs run, and a call that does not hang (Hang) returns, with an answer or
\* an error. Nothing is assumed of what the bundler does with an operation, nor of
\* the blocks.
Fairness == \A e \in Ops : WF_vars(Step(e))

FairSpec == Spec /\ Fairness

--------------------------------------------------------------------------------
(* Properties.                                                                 *)

\* Stages, nonces, fees and fates are what the programs and the bundler handle;
\* nobody polls more often than the limit.
TypeOK ==
    /\ stage \in [Ops -> Stages]
    /\ nonce \in [Ops -> Nat]
    /\ fee \in [Ops -> Nat]
    /\ attempt \in [Ops -> 0 .. MaxAttempts]
    /\ seq \in [Keys -> Nat]
    /\ fate \in [Ops -> Fates]
    /\ baseFee \in BaseFees

\* An operation is refused, or pushed out of the pool after it was accepted, only
\* by another one of the same account and nonce key that took its sequence number:
\* executions that share no key never disturb each other, in whatever order the
\* executor and the tools run and whatever node the nonce was read from.
LostToCompetitor ==
    \A e \in Ops : stage[e] = "refused" \/ fate[e] = "replaced" =>
        \E d \in Ops \ {e} :
            /\ KeyOf[d] = KeyOf[e] /\ nonce[d] = nonce[e]
            /\ fate[d] # "unsent"

\* What a tool tells its user about a receipt is so: a reported operation is on
\* chain, and a tool gives up only after all its polls (bundler.go:132).
ToolsTellTheTruth ==
    \A e \in Ops :
        /\ stage[e] = "reported" => fate[e] = "mined"
        /\ stage[e] = "gaveUp" => attempt[e] = MaxAttempts

\* Every execution that has begun ends, also of an operation that is never mined or
\* that others push out: only a call of its own that is never answered keeps it
\* (execution.go:258 and :345 have no deadline), never one of another program.
ExecutionsEnd ==
    \A e \in Ops : stage[e] \in Executing \cup {"wait"} ~> stage[e] \in Ended \cup {"hung"}

\* "Handle retry logic for failed submissions" (docs/scheduling.md:66): a job
\* whose submission the bundler refused gets its operation sent in the end.
RefusedIsRetried ==
    \A e \in Ops :
        Program[e] = "scheduler" /\ stage[e] = "refused" ~> stage[e] = "sent"
--------------------------------------------------------------------------------
(* The inductive invariant behind the safety properties.                       *)

\* An operation has a fate once it is sent, and polls begin after that.
SendInv ==
    \A e \in Ops :
        /\ stage[e] \in {"ready"} \cup Executing => fate[e] = "unsent" /\ attempt[e] = 0
        /\ stage[e] = "wait" => attempt[e] < MaxAttempts

\* Sequence numbers are used up one by one, each by an operation that was mined; a
\* program may have read an old one, but none that is yet to come.
SequenceInv ==
    /\ \A k \in Keys : \A n \in 0 .. seq[k] - 1 :
         \E d \in Ops : KeyOf[d] = k /\ nonce[d] = n /\ fate[d] = "mined"
    /\ \A e \in Ops : nonce[e] <= seq[KeyOf[e]]

\* The pool holds one operation of a key, the one with the next sequence number.
PendingInv ==
    \A e \in Ops : fate[e] = "pending" =>
        /\ nonce[e] = seq[KeyOf[e]]
        /\ \A d \in Pending(KeyOf[e]) : d = e

ExecutionInv ==
    TypeOK /\ SendInv /\ SequenceInv /\ PendingInv /\ LostToCompetitor /\ ToolsTellTheTruth
================================================================================
