------------------------- MODULE UserOperationFlow -------------------------
(***************************************************************************)
(* The way of a job's user operation: registered over HTTP, stored as JSON *)
(* in its row, loaded by the poll, put into the queue, taken out by the    *)
(* executor, completed, signed and sent to the bundler.  One job at a      *)
(* time: what jobs do to each other is JobScheduler's subject.             *)
(***************************************************************************)
EXTENDS UserOperation

CONSTANTS
  Requests,      \* operations a registration may carry
  EntryPoints,   \* entry points a registration may name
  Estimates,     \* answers to eth_estimateUserOperationGas
  Fees           \* pairs of a base fee and a priority fee

ASSUME InputsAssumption ==
  /\ \A o \in Requests : IsUserOperation(o)
  /\ \A estimate \in Estimates :
       /\ estimate.preVerificationGas \in Nat \cup {Nil}
       /\ estimate.verificationGasLimit \in Nat \cup {Nil}
       /\ estimate.callGasLimit \in Nat \cup {Nil}
       /\ estimate.paymasterVerificationGasLimit \in Nat \cup {Nil}
  /\ \A fee \in Fees : fee[1] \in Nat /\ fee[2] \in Nat

VARIABLES
  stage,    \* where the operation is
  req,      \* the registration: its operation and its entry point
  row,      \* the user_operation column
  job,      \* the operation of the poll's EntityJob
  queue,    \* the operation in the queue
  op,       \* the executor's copy
  signed,   \* what the last signature signs
  sent      \* what the bundler accepted last

vars == <<stage, req, row, job, queue, op, signed, sent>>

Stages == {"idle", "stored", "loaded", "queued", "dequeued", "nonce", "gas",
           "sent", "failed", "noKey", "panicked"}

Init ==
  /\ stage = "idle"
  /\ req = Nil /\ row = Nil /\ job = Nil /\ queue = Nil /\ op = Nil
  /\ signed = Nil /\ sent = Nil

\* RegisterJob and CreateJob; gin recovers from the panic and answers 500.
Register ==
  /\ stage = "idle"
  /\ \E userOp \in Requests, entryPoint \in EntryPoints :
       /\ MarshalJSON(userOp) # Panic
       /\ req' = [userOp |-> userOp, entryPoint |-> entryPoint]
       /\ row' = MarshalJSON(userOp)
  /\ stage' = "stored"
  /\ UNCHANGED <<job, queue, op, signed, sent>>

\* FindActiveJobs and ToEntityJob.
Load ==
  /\ stage = "stored"
  /\ job' = UnmarshalJSON(row)
  /\ stage' = "loaded"
  /\ UNCHANGED <<req, row, queue, op, signed, sent>>

Enqueue ==
  /\ stage = "loaded"
  /\ queue' = DefaultJSON(job)
  /\ job' = Nil
  /\ stage' = "queued"
  /\ UNCHANGED <<req, row, op, signed, sent>>

Dequeue ==
  /\ stage = "queued"
  /\ op' = UnmarshalJSON(queue)
  /\ queue' = Nil
  /\ stage' = "dequeued"
  /\ UNCHANGED <<req, row, job, signed, sent>>

\* ExecuteJob up to the nonce.
SetNonce ==
  /\ stage = "dequeued"
  /\ LET key == ExtractNonceKey(op["nonce"])
     IN  IF key = Nil
         THEN stage' = "noKey" /\ UNCHANGED op
         ELSE \E sequence \in 0..(Power[SeqBytes] - 1) :
                /\ op' = [op EXCEPT !["nonce"] = NonceOf(key, sequence)]
                /\ stage' = "nonce"
  /\ UNCHANGED <<req, row, job, queue, signed, sent>>

\* The gas values of the bundler's estimate and of the fees.  The estimate of the
\* paymaster's limit is used with a paymaster only.
WithGas(o, estimate, fee) ==
  [o EXCEPT !["preVerificationGas"] = estimate.preVerificationGas,
            !["verificationGasLimit"] = estimate.verificationGasLimit,
            !["callGasLimit"] = estimate.callGasLimit,
            !["maxFeePerGas"] = MaxFeePerGas(fee[1], fee[2]),
            !["maxPriorityFeePerGas"] = fee[2],
            !["paymasterVerificationGasLimit"] =
               IF o["paymaster"] = Nil THEN @ ELSE estimate.paymasterVerificationGasLimit]

\* The log line before the assignment panics on an estimate that is missing.
SetGas ==
  /\ stage = "nonce"
  /\ HasDummySignature(op["signature"])
  /\ \E estimate \in Estimates, fee \in Fees :
       /\ op' = WithGas(op, estimate, fee)
       /\ stage' = IF Nil \in {estimate.preVerificationGas, estimate.verificationGasLimit,
                               estimate.callGasLimit}
                   THEN "panicked" ELSE "gas"
  /\ UNCHANGED <<req, row, job, queue, signed, sent>>

SignAndSend ==
  LET final == [op EXCEPT !["signature"] = LeadingSignature(@) \o RealSignature]
      json == MarshalJSON(final)
  IN  /\ stage = "gas"
      /\ ~PackPanics(op)
      /\ BundlerTakes(json)
      /\ op' = final
      /\ signed' = GetUserOpHashV07(op)
      /\ sent' = [userOp |-> json, entryPoint |-> req.entryPoint]
      /\ stage' = "sent"
      /\ UNCHANGED <<req, row, job, queue>>

HashPanics ==
  /\ stage = "gas"
  /\ PackPanics(op)
  /\ stage' = "panicked"
  /\ UNCHANGED <<req, row, job, queue, op, signed, sent>>

\* Every error of a call, of the bundler or of the signature check.
ExecuteFails ==
  /\ stage \in {"dequeued", "nonce", "gas"}
  /\ stage = "gas" => ~PackPanics(op)
  /\ stage' = "failed"
  /\ UNCHANGED <<req, row, job, queue, op, signed, sent>>

\* The operation is mined and the job is due again.
NextRound ==
  /\ stage = "sent"
  /\ stage' = "stored"
  /\ op' = Nil /\ signed' = Nil /\ sent' = Nil
  /\ UNCHANGED <<req, row, job, queue>>

\* The job has ended; another one is registered.
NextJob ==
  /\ stage \in {"sent", "failed", "noKey", "panicked"}
  /\ stage' = "idle"
  /\ req' = Nil /\ row' = Nil /\ op' = Nil /\ signed' = Nil /\ sent' = Nil
  /\ UNCHANGED <<job, queue>>

Next ==
  \/ Register \/ Load \/ Enqueue \/ Dequeue
  \/ SetNonce \/ SetGas \/ SignAndSend \/ HashPanics \/ ExecuteFails
  \/ NextRound \/ NextJob

Spec == Init /\ [][Next]_vars

-----------------------------------------------------------------------------
(* Properties *)

\* The executor's copy is an operation and the row is JSON of all fields.
TypeOK ==
  /\ stage \in Stages
  /\ req # Nil => IsUserOperation(req.userOp) /\ req.entryPoint \in EntryPoints
  /\ row # Nil => DOMAIN row = Fields
  /\ job # Nil => IsUserOperation(job)
  /\ queue # Nil => DOMAIN queue = Fields
  /\ op # Nil => IsUserOperation(op)
  /\ sent # Nil => DOMAIN sent.userOp = Fields /\ sent.entryPoint \in EntryPoints

\* What the executor takes out of the queue is what was registered, a missing
\* nonce read as zero: the row and the queue are written by different encoders
\* and read by one decoder, and no number may change on the way.
SurvivesStorage ==
  stage = "dequeued" => op = [req.userOp EXCEPT !["nonce"] = OrZero(@)]

\* The bundler computes from the request the very hash that was signed: the
\* signature is over PackUserOp of the struct, the request is MarshalJSON of it,
\* and both treat nil, zero and widths in ways of their own.  (A factory without
\* data, or data without a factory, is sent and not signed; a wallet sends both or
\* none. For another entry point than the one ExecuteJob signs for,
\* execution.go:257, the two may well differ.)
WholeFactory(o) == o["factory"] # Nil <=> o["factoryData"] # <<>>
SignedIsSent ==
  sent # Nil /\ WholeFactory(req.userOp) /\ sent.entryPoint = EntryPointV07 =>
    BundlerHash(sent.userOp, sent.entryPoint) = signed

\* ExecuteJob changes the sequence of the nonce, the gas values and the dummy
\* part of the signature, and nothing else the user has registered.
Untouched == Fields \ ({"nonce", "signature", "paymasterVerificationGasLimit"} \cup RequiredGas)
OnlyFeesChange ==
  sent # Nil =>
    LET o == UnmarshalJSON(sent.userOp)
        lead == LeadingSignature(req.userOp["signature"])
    IN  /\ \A f \in Untouched : o[f] = req.userOp[f]
        /\ o["nonce"] \div Power[SeqBytes] = req.userOp["nonce"] \div Power[SeqBytes]
        /\ o["signature"] = lead \o RealSignature
        /\ req.userOp["signature"] = lead \o DummySignature

\* The executor's goroutine survives every operation whose gas fields are there
\* and fit: a width of exactly sixteen bytes included.
Fits(o) ==
  /\ \A f \in RequiredGas : o[f] # Nil
  /\ \A f \in PackedGas : OrZero(o[f]) < Power[Half]
FittingNeverPanics == stage = "panicked" => ~Fits(op)

\* The length test of extractNonceKey (execution.go:61) refuses no operation with
\* a nonce key, though big.Int.Bytes drops the leading zeros of the nonce: all it
\* refuses has key zero.
EveryOtherKeyIsExecutable ==
  stage = "noKey" => OrZero(req.userOp["nonce"]) < Power[SeqBytes]

-----------------------------------------------------------------------------
(* The inductive invariant behind the properties *)

\* The row is what was registered.
RegisteredInv ==
  IF stage = "idle" THEN req = Nil /\ row = Nil
  ELSE /\ req \in [userOp : Requests, entryPoint : EntryPoints]
       /\ Padded(OrZero(req.userOp["nonce"]), Word) # Panic
       /\ row = MarshalJSON(req.userOp)

\* From hand to hand it is the same operation, a missing nonce read as zero.
Stored(o) == [o EXCEPT !["nonce"] = OrZero(@)]
CarriedInv ==
  /\ IF stage = "loaded" THEN job = Stored(req.userOp) ELSE job = Nil
  /\ IF stage = "queued" THEN queue = DefaultJSON(Stored(req.userOp)) ELSE queue = Nil
  /\ stage \in {"idle", "stored", "loaded", "queued"} => op = Nil
  /\ stage = "dequeued" => op = Stored(req.userOp)
  /\ stage \notin {"idle", "stored", "loaded", "queued"} => IsUserOperation(op)

\* While it is executed its key stays and the nonce still fits a word.
ExecutedInv ==
  stage \in {"nonce", "gas", "sent"} =>
    /\ req.userOp["nonce"] \in Nat
    /\ op["nonce"] \in Nat /\ op["nonce"] < Power[Word]
    /\ op["nonce"] \div Power[SeqBytes] = req.userOp["nonce"] \div Power[SeqBytes]
    /\ \A f \in Untouched : op[f] = req.userOp[f]

\* The signature is the user's until the dummy at its end is replaced.
SignatureInv ==
  LET lead == LeadingSignature(req.userOp["signature"]) IN
  /\ stage \in {"nonce", "gas"} => op["signature"] = req.userOp["signature"]
  /\ stage = "gas" => HasDummySignature(op["signature"])
  /\ stage = "sent" => /\ op["signature"] = lead \o RealSignature
                       /\ req.userOp["signature"] = lead \o DummySignature

\* What was sent and what was signed are of one and the same operation.
SentInv ==
  IF stage # "sent" THEN sent = Nil
  ELSE /\ sent = [userOp |-> MarshalJSON(op), entryPoint |-> req.entryPoint]
       /\ signed = GetUserOpHashV07(op) /\ ~PackPanics(op)
       /\ BundlerTakes(sent.userOp)

FlowInv ==
  /\ stage \in Stages
  /\ RegisteredInv /\ CarriedInv /\ ExecutedInv /\ SignatureInv /\ SentInv
  /\ FittingNeverPanics /\ EveryOtherKeyIsExecutable
=============================================================================
