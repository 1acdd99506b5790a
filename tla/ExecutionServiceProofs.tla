------------------------ MODULE ExecutionServiceProofs -------------------------
(* Machine-checked proofs of the safety properties of the executions, for any  *)
(* number of operations, keys, programs and kinds of failure.                  *)
EXTENDS ExecutionService, TLAPS

\* A stage is of one kind.
LEMMA StageKinds ==
    /\ Executing \subseteq Stages /\ Ended \subseteq Stages
    /\ {"ready", "wait", "hung"} \subseteq Stages
    /\ \A s \in {"ready"} \cup Executing : s \notin {"wait"} \cup Ended
    /\ "wait" \notin Ended
BY DEF Stages, Executing, Ended

\* A fee is a number, whatever the base fee.
LEMMA FeeIsNat == baseFee \in BaseFees => MaxFeePerGas \in Nat
BY InstanceAssumption DEF MaxFeePerGas

--------------------------------------------------------------------------------
(* What a step does to one execution, to its operation and to its key.         *)

\* A step that leaves the world alone: it moves one execution on.
LocalStep(e) ==
    /\ UNCHANGED worldVars
    /\ stage' = [stage EXCEPT ![e] = stage'[e]]
    /\ \/ stage[e] = "ready" /\ stage'[e] = "estimate" /\ UNCHANGED <<fee, attempt>>
          /\ \E n \in Nat : n <= seq[KeyOf[e]] /\ nonce' = [nonce EXCEPT ![e] = n]
       \/ stage[e] = "estimate" /\ stage'[e] = "fees" /\ UNCHANGED <<nonce, fee, attempt>>
       \/ stage[e] = "estimate" /\ stage'[e] = "refused" /\ UNCHANGED <<nonce, fee, attempt>>
          /\ nonce[e] # seq[KeyOf[e]]
       \/ stage[e] = "fees" /\ stage'[e] = "send" /\ UNCHANGED <<nonce, attempt>>
          /\ \E f \in Nat : fee' = [fee EXCEPT ![e] = f]
       \/ stage[e] = "send" /\ stage'[e] = "refused" /\ UNCHANGED <<nonce, fee, attempt>>
          /\ ~BundlerAccepts(e)
       \/ stage[e] \in {"ready"} \cup Executing /\ stage'[e] = "failed"
          /\ UNCHANGED <<nonce, fee, attempt>>
       \/ stage[e] \in {"ready", "wait"} \cup Executing /\ stage'[e] = "hung"
          /\ UNCHANGED <<nonce, fee, attempt>>
       \/ stage[e] = "wait" /\ UNCHANGED <<nonce, fee>>
          /\ attempt' = [attempt EXCEPT ![e] = @ + 1]
          /\ \/ stage'[e] = "reported" /\ fate[e] = "mined"
             \/ stage'[e] = "panicked"
             \/ stage'[e] = "gaveUp" /\ attempt[e] + 1 = MaxAttempts
             \/ stage'[e] = "wait" /\ attempt[e] + 1 # MaxAttempts

\* The bundler takes the operation of e.
SendStep(e) ==
    /\ Accept(e) /\ UNCHANGED <<nonce, fee, attempt, seq, baseFee>>
    /\ stage[e] = "send"
    /\ stage' = [stage EXCEPT ![e] = stage'[e]] /\ stage'[e] \in {"sent", "wait", "failed", "hung"}

\* Every step is one of these, a step of the bundler or a new block.
LEMMA StepKinds ==
    ASSUME TypeOK, [Next]_vars
    PROVE  \/ \E e \in Ops : LocalStep(e) \/ SendStep(e) \/ Mine(e) \/ Drop(e)
           \/ NewBlock
           \/ UNCHANGED vars
<1> USE DEF TypeOK, GoTo, worldVars
<1>1. ASSUME NEW e \in Ops, ReadNonce(e) PROVE LocalStep(e)
  <2>1. PICK n \in SequenceRead(KeyOf[e]) : nonce' = [nonce EXCEPT ![e] = n]
    BY <1>1 DEF ReadNonce
  <2>2. seq[KeyOf[e]] \in Nat
    BY InstanceAssumption
  <2>3. n \in Nat /\ n <= seq[KeyOf[e]]
    BY <2>2 DEF SequenceRead
  <2> QED BY <1>1, <2>1, <2>3 DEF ReadNonce, LocalStep
<1>2. ASSUME NEW e \in Ops, Estimate(e) PROVE LocalStep(e)
  BY <1>2 DEF Estimate, LocalStep
<1>3. ASSUME NEW e \in Ops, ReadFees(e) PROVE LocalStep(e)
  BY <1>3, FeeIsNat DEF ReadFees, LocalStep
<1>4. ASSUME NEW e \in Ops, SignAndSend(e) PROVE LocalStep(e) \/ SendStep(e)
  BY <1>4 DEF SignAndSend, LocalStep, SendStep
<1>5. ASSUME NEW e \in Ops, Abort(e) PROVE LocalStep(e)
  BY <1>5 DEF Abort, LocalStep
<1>6. ASSUME NEW e \in Ops, AwaitReceipt(e) PROVE LocalStep(e)
  <2>1. /\ stage[e] = "wait" /\ UNCHANGED <<nonce, fee, worldVars>>
        /\ WaitForUserOpReceipt(e) \/ PollReceipt4337(e)
    BY <1>6 DEF AwaitReceipt
  <2>2. attempt' = [attempt EXCEPT ![e] = @ + 1]
    BY <2>1 DEF WaitForUserOpReceipt, PollReceipt4337
  <2>3. /\ stage' = [stage EXCEPT ![e] = stage'[e]]
        /\ \/ stage'[e] = "reported" /\ fate[e] = "mined"
           \/ stage'[e] = "panicked"
           \/ stage'[e] = "gaveUp" /\ attempt[e] + 1 = MaxAttempts
           \/ stage'[e] = "wait" /\ attempt[e] + 1 # MaxAttempts
    BY <2>1 DEF WaitForUserOpReceipt, PollReceipt4337, NextAttempt, HasReceipt
  <2> QED BY <2>1, <2>2, <2>3 DEF LocalStep
<1>7. ASSUME NEW e \in Ops, Hang(e) PROVE LocalStep(e)
  BY <1>7 DEF Hang, LocalStep
<1> QED BY <1>1, <1>2, <1>3, <1>4, <1>5, <1>6, <1>7 DEF Next, Step, ExecuteJob

--------------------------------------------------------------------------------
(* The inductive invariant.                                                    *)

\* Types, and how far the operation and the polls are in each stage.
LEMMA SendNext ==
    ASSUME TypeOK, SendInv, ToolsTellTheTruth, [Next]_vars
    PROVE  TypeOK' /\ SendInv' /\ ToolsTellTheTruth'
<1> USE InstanceAssumption DEF TypeOK, SendInv, ToolsTellTheTruth
<1>1. ASSUME NEW e \in Ops, LocalStep(e) PROVE TypeOK' /\ SendInv' /\ ToolsTellTheTruth'
  <2>1. TypeOK'
    BY <1>1 DEF LocalStep, worldVars, Stages, Executing, Ended
  <2>2. SendInv'
    BY <1>1 DEF LocalStep, worldVars, Executing
  <2>3. ToolsTellTheTruth'
    BY <1>1 DEF LocalStep, worldVars
  <2> QED BY <2>1, <2>2, <2>3
<1>2. ASSUME NEW e \in Ops, SendStep(e) PROVE TypeOK' /\ SendInv' /\ ToolsTellTheTruth'
  <2>1. TypeOK'
    BY <1>2 DEF SendStep, Accept, Stages, Executing, Ended, Fates
  <2>2. SendInv'
    BY <1>2 DEF SendStep, Accept, Executing, Pending
  <2>3. ToolsTellTheTruth'
    BY <1>2 DEF SendStep, Accept, Executing, Pending
  <2> QED BY <2>1, <2>2, <2>3
<1>3. ASSUME NEW e \in Ops, Mine(e) PROVE TypeOK' /\ SendInv' /\ ToolsTellTheTruth'
  BY <1>3 DEF Mine, programVars, Fates, Executing
<1>4. ASSUME NEW e \in Ops, Drop(e) PROVE TypeOK' /\ SendInv' /\ ToolsTellTheTruth'
  BY <1>4 DEF Drop, programVars, Fates, Executing
<1>5. CASE NewBlock
  BY <1>5 DEF NewBlock, programVars
<1>6. CASE UNCHANGED vars
  BY <1>6 DEF vars, programVars, worldVars
<1> QED BY StepKinds, <1>1, <1>2, <1>3, <1>4, <1>5, <1>6

\* An operation keeps its nonce once it is past the reading of it, and a mined one
\* stays mined; one that was sent stays sent.
LEMMA Monotone ==
    ASSUME TypeOK, SendInv, [Next]_vars, NEW d \in Ops
    PROVE  /\ stage[d] # "ready" => nonce'[d] = nonce[d]
           /\ fate[d] # "unsent" => nonce'[d] = nonce[d] /\ fate'[d] # "unsent"
           /\ fate[d] = "mined" => fate'[d] = "mined"
<1> USE DEF TypeOK, SendInv
<1>1. ASSUME NEW e \in Ops, LocalStep(e)
      PROVE  /\ UNCHANGED fate
             /\ nonce'[d] = nonce[d] \/ (d = e /\ stage[d] = "ready")
  BY <1>1 DEF LocalStep, worldVars
<1>2. ASSUME NEW e \in Ops, SendStep(e)
      PROVE  /\ nonce'[d] = nonce[d]
             /\ fate[d] # "unsent" => fate'[d] # "unsent"
             /\ fate[d] = "mined" => fate'[d] = "mined"
  BY <1>2 DEF SendStep, Accept, Pending, Executing
<1>3. ASSUME NEW e \in Ops, Mine(e) \/ Drop(e)
      PROVE  /\ nonce'[d] = nonce[d]
             /\ fate[d] # "unsent" => fate'[d] # "unsent"
             /\ fate[d] = "mined" => fate'[d] = "mined"
  BY <1>3 DEF Mine, Drop, programVars
<1>4. CASE NewBlock \/ UNCHANGED vars
  BY <1>4 DEF NewBlock, vars, programVars, worldVars
<1> QED BY StepKinds, <1>1, <1>2, <1>3, <1>4

\* Each sequence number is used up by the mining of the operation that has it.
LEMMA SequenceNext ==
    ASSUME TypeOK, SendInv, SequenceInv, PendingInv, [Next]_vars
    PROVE  SequenceInv'
<1> USE InstanceAssumption DEF TypeOK, SequenceInv
<1>1. ASSUME NEW k \in Keys, NEW n \in 0 .. seq[k] - 1
      PROVE  \E d \in Ops : KeyOf[d] = k /\ nonce'[d] = n /\ fate'[d] = "mined"
  <2>1. PICK d \in Ops : KeyOf[d] = k /\ nonce[d] = n /\ fate[d] = "mined"
    OBVIOUS
  <2> QED BY <2>1, Monotone
<1>2. ASSUME NEW e \in Ops, LocalStep(e) PROVE SequenceInv'
  <2>1. UNCHANGED seq /\ \A d \in Ops : nonce'[d] = nonce[d] \/ nonce'[d] <= seq[KeyOf[d]]
    BY <1>2 DEF LocalStep, worldVars
  <2> QED BY <1>1, <2>1
<1>3. ASSUME NEW e \in Ops, SendStep(e) PROVE SequenceInv'
  <2>1. UNCHANGED <<seq, nonce>>
    BY <1>3 DEF SendStep
  <2> QED BY <1>1, <2>1
<1>4. ASSUME NEW e \in Ops, Mine(e) PROVE SequenceInv'
  <2>1. /\ nonce[e] = seq[KeyOf[e]] /\ fate'[e] = "mined" /\ UNCHANGED nonce
        /\ seq' = [seq EXCEPT ![KeyOf[e]] = seq[KeyOf[e]] + 1]
    BY <1>4 DEF Mine, PendingInv, programVars
  <2>2. ASSUME NEW k \in Keys, NEW n \in 0 .. seq'[k] - 1
        PROVE  \E d \in Ops : KeyOf[d] = k /\ nonce'[d] = n /\ fate'[d] = "mined"
    <3>1. seq[k] \in Nat /\ (n \in 0 .. seq[k] - 1 \/ (k = KeyOf[e] /\ n = seq[k]))
      BY <2>1
    <3> QED BY <1>1, <2>1, <3>1
  <2>3. \A d \in Ops : nonce'[d] <= seq'[KeyOf[d]]
    BY <2>1
  <2> QED BY <2>2, <2>3
<1>5. ASSUME NEW e \in Ops, Drop(e) PROVE SequenceInv'
  <2>1. UNCHANGED <<seq, nonce>>
    BY <1>5 DEF Drop, programVars
  <2> QED BY <1>1, <2>1
<1>6. CASE NewBlock \/ UNCHANGED vars
  <2>1. UNCHANGED <<seq, nonce>>
    BY <1>6 DEF NewBlock, vars, programVars, worldVars
  <2> QED BY <1>1, <2>1
<1> QED BY StepKinds, <1>2, <1>3, <1>4, <1>5, <1>6

\* A new operation of a key takes the place of the pending one, and mining empties it.
LEMMA PendingNext ==
    ASSUME TypeOK, SendInv, PendingInv, [Next]_vars
    PROVE  PendingInv'
<1> USE InstanceAssumption DEF TypeOK, PendingInv, Pending
<1>1. ASSUME NEW e \in Ops, LocalStep(e) PROVE PendingInv'
  <2>1. UNCHANGED <<seq, fate>>
    BY <1>1 DEF LocalStep, worldVars
  <2> QED BY <2>1, Monotone
<1>2. ASSUME NEW e \in Ops, SendStep(e) PROVE PendingInv'
  BY <1>2 DEF SendStep, Accept, BundlerAccepts
<1>3. ASSUME NEW e \in Ops, Mine(e) PROVE PendingInv'
  BY <1>3 DEF Mine, programVars
<1>4. ASSUME NEW e \in Ops, Drop(e) PROVE PendingInv'
  BY <1>4 DEF Drop, programVars
<1>5. CASE NewBlock \/ UNCHANGED vars
  BY <1>5 DEF NewBlock, vars, programVars, worldVars
<1> QED BY StepKinds, <1>1, <1>2, <1>3, <1>4, <1>5

\* Who is refused has read a sequence number that another one has used, or meets
\* the pending operation with it; who is replaced makes way for one with the same.
LEMMA CompetitorNext ==
    ASSUME ExecutionInv, [Next]_vars
    PROVE  LostToCompetitor'
<1> USE InstanceAssumption DEF ExecutionInv
<1> DEFINE Competitor(d, e) ==
        d # e /\ KeyOf[d] = KeyOf[e] /\ nonce[d] = nonce[e] /\ fate[d] # "unsent"
           Lost(e) == stage[e] = "refused" \/ fate[e] = "replaced"
<1>1. ASSUME NEW e \in Ops, NEW d \in Ops, Competitor(d, e), stage[e] # "ready"
      PROVE  /\ KeyOf[d] = KeyOf[e] /\ nonce'[d] = nonce'[e] /\ fate'[d] # "unsent"
             /\ d \in Ops \ {e}
  BY <1>1, Monotone
<1>2. ASSUME NEW e \in Ops, Lost(e)
      PROVE  stage[e] # "ready" /\ \E d \in Ops : Competitor(d, e)
  BY <1>2 DEF LostToCompetitor, SendInv
<1>3. ASSUME NEW e \in Ops, Lost(e)', ~Lost(e)
      PROVE  \E d \in Ops \ {e} : KeyOf[d] = KeyOf[e] /\ nonce'[d] = nonce'[e] /\ fate'[d] # "unsent"
  <2>1. \/ /\ stage[e] \in Executing
           /\ nonce[e] # seq[KeyOf[e]] \/ ~BundlerAccepts(e)
        \/ \E d \in Ops : SendStep(d) /\ fate[e] = "pending" /\ KeyOf[d] = KeyOf[e] /\ d # e
    <3> USE DEF TypeOK
    <3>1. ASSUME NEW d \in Ops, LocalStep(d)
          PROVE  stage[e] \in Executing /\ (nonce[e] # seq[KeyOf[e]] \/ ~BundlerAccepts(e))
      BY <1>3, <3>1 DEF LocalStep, worldVars, Executing
    <3>2. ASSUME NEW d \in Ops, SendStep(d)
          PROVE  fate[e] = "pending" /\ KeyOf[d] = KeyOf[e] /\ d # e
      BY <1>3, <3>2 DEF SendStep, Accept, Pending
    <3>3. ASSUME NEW d \in Ops, Mine(d) \/ Drop(d) PROVE FALSE
      BY <1>3, <3>3 DEF Mine, Drop, programVars
    <3>4. CASE NewBlock \/ UNCHANGED vars
      BY <1>3, <3>4 DEF NewBlock, vars, programVars, worldVars
    <3> QED BY StepKinds, <3>1, <3>2, <3>3, <3>4
  <2>2. CASE stage[e] \in Executing /\ nonce[e] # seq[KeyOf[e]]
    <3>1. nonce[e] \in 0 .. seq[KeyOf[e]] - 1
      BY <2>2 DEF SequenceInv, TypeOK
    <3>2. PICK d \in Ops : KeyOf[d] = KeyOf[e] /\ nonce[d] = nonce[e] /\ fate[d] = "mined"
      BY <3>1 DEF SequenceInv
    <3>3. fate[e] = "unsent" /\ stage[e] # "ready"
      BY <2>2 DEF SendInv, Executing
    <3> QED BY <1>1, <3>2, <3>3
  <2>3. CASE stage[e] \in Executing /\ nonce[e] = seq[KeyOf[e]] /\ ~BundlerAccepts(e)
    <3>1. PICK d \in Pending(KeyOf[e]) : ~Outbids(e, d)
      BY <2>3 DEF BundlerAccepts
    <3>2. /\ d \in Ops /\ KeyOf[d] = KeyOf[e] /\ fate[d] = "pending"
          /\ nonce[d] = nonce[e]
      BY <2>3, <3>1 DEF Pending, PendingInv
    <3>3. fate[e] = "unsent" /\ stage[e] # "ready"
      BY <2>3 DEF SendInv, Executing
    <3> QED BY <1>1, <3>2, <3>3
  <2>4. ASSUME NEW d \in Ops, SendStep(d), fate[e] = "pending", KeyOf[d] = KeyOf[e], d # e
        PROVE  \E c \in Ops \ {e} : KeyOf[c] = KeyOf[e] /\ nonce'[c] = nonce'[e] /\ fate'[c] # "unsent"
    <3>1. nonce[e] = seq[KeyOf[e]] /\ nonce[d] = seq[KeyOf[d]] /\ UNCHANGED nonce
      BY <2>4 DEF PendingInv, SendStep, Accept, BundlerAccepts
    <3>2. fate'[d] = "pending"
      BY <2>4 DEF SendStep, Accept
    <3> QED BY <2>4, <3>1, <3>2
  <2> QED BY <2>1, <2>2, <2>3, <2>4
<1> QED BY <1>1, <1>2, <1>3 DEF LostToCompetitor

--------------------------------------------------------------------------------
(* The theorems.                                                               *)

\* The inductive invariant holds in every reachable state.
LEMMA ExecutionAlways == Spec => []ExecutionInv
<1>1. Init => ExecutionInv
  BY InstanceAssumption
     DEF Init, ExecutionInv, TypeOK, SendInv, SequenceInv, PendingInv, LostToCompetitor,
         ToolsTellTheTruth, Stages, Executing, Ended, Fates
<1>2. ExecutionInv /\ [Next]_vars => ExecutionInv'
  BY SendNext, SequenceNext, PendingNext, CompetitorNext DEF ExecutionInv
<1> QED BY <1>1, <1>2, PTL DEF Spec

\* The executions are well typed; nobody polls more often than the limit.
THEOREM TypeCorrect == Spec => []TypeOK
<1>1. ExecutionInv => TypeOK
  BY DEF ExecutionInv
<1> QED BY <1>1, ExecutionAlways, PTL

\* An operation is refused or replaced only because of another one of the same
\* account and nonce key with the same sequence number: executions that share no
\* key never disturb each other.
THEOREM LostToCompetitorHolds == Spec => []LostToCompetitor
<1>1. ExecutionInv => LostToCompetitor
  BY DEF ExecutionInv
<1> QED BY <1>1, ExecutionAlways, PTL

\* A reported operation is on chain, and a tool gives up only after all its polls.
THEOREM ToolsTellTheTruthHolds == Spec => []ToolsTellTheTruth
<1>1. ExecutionInv => ToolsTellTheTruth
  BY DEF ExecutionInv
<1> QED BY <1>1, ExecutionAlways, PTL
================================================================================
