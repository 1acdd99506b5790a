------------------------ MODULE MCUserOperationFlow ------------------------
(***************************************************************************)
(* Bytes of one bit, halves of two bytes, words of four: numbers below 4   *)
(* fit a half, 4 is one byte too long, 16 does not fit a word.             *)
(***************************************************************************)
EXTENDS UserOperationFlow

MCDummy == <<1, 1, 0>>
MCReal == <<0, 0, 1>>

Plain ==
  [sender |-> <<1>>, nonce |-> 6, factory |-> Nil, factoryData |-> <<>>,
   callData |-> <<1, 0>>, callGasLimit |-> 1, verificationGasLimit |-> 2,
   preVerificationGas |-> 5, maxPriorityFeePerGas |-> 1, maxFeePerGas |-> 3,
   paymaster |-> <<0>>, paymasterVerificationGasLimit |-> 1,
   paymasterPostOpGasLimit |-> 2, paymasterData |-> <<1>>,
   signature |-> <<1>> \o MCDummy]

\* One field away from the plain operation, at the boundaries of its width.
MCRequests ==
  {[Plain EXCEPT !["nonce"] = n] : n \in {Nil} \cup 0..8 \cup {15, 16}}
  \cup {[Plain EXCEPT ![f] = n] : f \in RequiredGas, n \in {Nil, 0}}
  \cup {[Plain EXCEPT !["paymaster"] = a, !["paymasterVerificationGasLimit"] = v,
                      !["paymasterPostOpGasLimit"] = p, !["paymasterData"] = d] :
          a \in {Nil, <<0>>}, v \in {Nil, 3}, p \in {Nil, 0, 3, 4}, d \in {<<>>, <<1>>}}
  \cup {[Plain EXCEPT !["factory"] = <<1>>, !["factoryData"] = d] : d \in {<<>>, <<1, 0>>}}
  \cup {[Plain EXCEPT !["factoryData"] = <<1>>]}
  \cup {[Plain EXCEPT !["signature"] = s] : s \in {<<>>, MCDummy, <<1, 0, 1, 1>>}}

MCEstimates ==
  [preVerificationGas : {Nil, 5}, verificationGasLimit : {Nil, 1, 3, 4},
   callGasLimit : {0, 2, 3, 4}, paymasterVerificationGasLimit : {Nil, 0, 3, 4}]

MCFees == {<<0, 1>>, <<1, 2>>, <<2, 0>>, <<2, 1>>}
=============================================================================
