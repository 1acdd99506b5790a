--------------------------- MODULE UserOperation ---------------------------
(***************************************************************************)
(* The ERC-4337 user operation as erc4337/user_operation.go stores, packs  *)
(* and hashes it, and the pure parts of ExecuteJob.                        *)
(*                                                                         *)
(* A number is a big.Int, a natural here; what the code does with its      *)
(* bytes it does with its bytes here, in a smaller base and with shorter   *)
(* words.  Addresses and data are byte sequences.  A JSON object is a      *)
(* function on the fields: the text of a number is the sequence of its     *)
(* digits, the empty text is <<>>, a null is Nil and a field that is left  *)
(* out is Absent.                                                          *)
(***************************************************************************)
EXTENDS Naturals, Sequences, SequencesExt

CONSTANTS
  Base,            \* values of a byte (256 in the code)
  Half,            \* bytes of a packed gas field (16)
  SeqBytes,        \* bytes of the sequence in a nonce (8)
  Nil,             \* Go's nil, JSON's null
  Absent,          \* a field that is not in the object
  Panic,           \* the code panicked
  EntryPointV07,   \* the entry point the hash and the nonce are taken from
  DummySignature,  \* the 65 bytes a wallet puts where the signature will be
  RealSignature    \* 65 bytes crypto.Sign returned

Word == 2 * Half

ASSUME WidthsAssumption ==
  /\ Base \in Nat \ {0, 1}
  /\ Half \in Nat \ {0}
  /\ SeqBytes \in 1..(Word - 1)

-----------------------------------------------------------------------------
(* Fields *)

RequiredGas == {"callGasLimit", "verificationGasLimit", "preVerificationGas",
                "maxPriorityFeePerGas", "maxFeePerGas"}
PaymasterLimits == {"paymasterVerificationGasLimit", "paymasterPostOpGasLimit"}
NumberFields == {"nonce"} \cup RequiredGas \cup PaymasterLimits
OptionalAddresses == {"factory", "paymaster"}
OptionalData == {"factoryData", "paymasterData"}
Fields == NumberFields \cup OptionalAddresses \cup OptionalData
            \cup {"sender", "callData", "signature"}

\* The fields PackUserOp gives Half bytes each.
PackedGas == (RequiredGas \ {"preVerificationGas"}) \cup PaymasterLimits

Byte == 0..(Base - 1)
ASSUME ValuesAssumption ==
  /\ Nil # Absent
  /\ \A v \in {Nil, Absent, Panic} : v \notin Nat /\ v \notin Seq(Byte)
ASSUME SignatureAssumption ==
  /\ DummySignature \in Seq(Byte) /\ RealSignature \in Seq(Byte)
  /\ Len(DummySignature) = Len(RealSignature)

IsUserOperation(op) ==
  /\ op = [f \in Fields |-> op[f]]
  /\ \A f \in NumberFields : op[f] = Nil \/ op[f] \in Nat
  /\ \A f \in OptionalAddresses : op[f] = Nil \/ op[f] \in Seq(Byte)
  /\ \A f \in Fields \ (NumberFields \cup OptionalAddresses) : op[f] \in Seq(Byte)

-----------------------------------------------------------------------------
(* big.Int *)

\* The powers of the base.
Power[k \in Nat] == IF k = 0 THEN 1 ELSE Base * Power[k - 1]

ByteLen(n) == CHOOSE k \in 0..n : n < Power[k] /\ \A j \in 0..(k - 1) : Power[j] <= n

\* big.Int.Bytes: the most significant byte first, no leading zero.
Bytes(n) == [i \in 1..ByteLen(n) |-> (n \div Power[ByteLen(n) - i]) % Base]

SetBytes(s) ==
  LET value[i \in 0..Len(s)] == IF i = 0 THEN 0 ELSE value[i - 1] * Base + s[i]
  IN  value[Len(s)]

\* copy(buf[end-len(s):end], s): the slice panics when s is longer than end.
CopyRight(buf, end, s) ==
  IF buf = Panic \/ Len(s) > end
  THEN Panic
  ELSE [i \in DOMAIN buf |-> IF i \in (end - Len(s) + 1)..end
                             THEN s[i - end + Len(s)] ELSE buf[i]]

Padded(n, width) == CopyRight([i \in 1..width |-> 0], width, Bytes(n))

\* A nil number leaves the zeros of the buffer alone.
OptBytes(n) == IF n = Nil THEN <<>> ELSE Bytes(n)
OrZero(n) == IF n = Nil THEN 0 ELSE n

-----------------------------------------------------------------------------
(* JSON *)

HexText(n) == IF n = 0 THEN <<0>> ELSE Bytes(n)

\* The fields both encoders leave to the struct's tags.
TaggedField(op, f) ==
  CASE op[f] = Nil -> Absent
    [] f \in OptionalData /\ op[f] = <<>> -> Absent
    [] OTHER -> op[f]

\* With the pointer receiver: what CreateJob stores and the bundler is sent.
MarshalJSON(op) ==
  IF Padded(OrZero(op["nonce"]), Word) = Panic
  THEN Panic
  ELSE [f \in Fields |->
          CASE f = "nonce" -> Padded(OrZero(op[f]), Word)
            [] f \in RequiredGas -> IF op[f] = Nil THEN <<>> ELSE HexText(op[f])
            [] f \in PaymasterLimits /\ op[f] # Nil -> HexText(op[f])
            [] OTHER -> TaggedField(op, f)]

\* Without it: EnqueueJob marshals the job by value, so the fields are encoded
\* by hexutil and the struct's tags.
DefaultJSON(op) ==
  [f \in Fields |->
     CASE f \in NumberFields /\ op[f] # Nil -> HexText(op[f])
       [] f \in {"nonce"} \cup RequiredGas /\ op[f] = Nil -> Nil
       [] OTHER -> TaggedField(op, f)]

Wrong_ZeroIsNil(text) == IF text \in {Absent, Nil, <<>>, <<0>>} THEN Nil ELSE SetBytes(text)
ParseNumber(text) == IF text \in {Absent, Nil, <<>>} THEN Nil ELSE SetBytes(text)

Wrong_LeavesUnset(json) ==
  [f \in Fields |-> IF f \in NumberFields THEN ParseNumber(json[f]) ELSE json[f]]
UnmarshalJSON(json) ==
  [f \in Fields |->
     CASE f \in NumberFields -> ParseNumber(json[f])
       [] f \in OptionalAddresses -> IF json[f] = Absent THEN Nil ELSE json[f]
       [] OTHER -> IF json[f] = Absent THEN <<>> ELSE json[f]]

-----------------------------------------------------------------------------
(* Packing and hashing *)

\* One word of two numbers.  The lower one is copied over the upper half when
\* it is longer than its own.
Wrong_SwappedHalves(upper, lower) ==
  CopyRight(CopyRight([i \in 1..Word |-> 0], Half, OptBytes(lower)), Word, OptBytes(upper))
Wrong_RefusesFullWidth(upper, lower) ==
  IF Len(OptBytes(upper)) >= Half THEN Panic
  ELSE CopyRight(CopyRight([i \in 1..Word |-> 0], Half, OptBytes(upper)), Word, OptBytes(lower))
TwoHalves(upper, lower) ==
  CopyRight(CopyRight([i \in 1..Word |-> 0], Half, OptBytes(upper)), Word, OptBytes(lower))

InitCode(op) ==
  IF op["factory"] # Nil /\ op["factoryData"] # <<>>
  THEN op["factory"] \o op["factoryData"] ELSE <<>>

PaymasterAndData(op) ==
  LET Limit(f) == Padded(OrZero(op[f]), Half)
  IN  IF op["paymaster"] = Nil THEN <<>>
      ELSE IF \E f \in PaymasterLimits : Limit(f) = Panic THEN Panic
      ELSE op["paymaster"] \o Limit("paymasterVerificationGasLimit")
             \o Limit("paymasterPostOpGasLimit") \o op["paymasterData"]

PackUserOp(op) ==
  [sender             |-> op["sender"],
   nonce              |-> OrZero(op["nonce"]),
   initCode           |-> InitCode(op),
   callData           |-> op["callData"],
   accountGasLimits   |-> TwoHalves(op["verificationGasLimit"], op["callGasLimit"]),
   preVerificationGas |-> OrZero(op["preVerificationGas"]),
   gasFees            |-> TwoHalves(op["maxPriorityFeePerGas"], op["maxFeePerGas"]),
   paymasterAndData   |-> PaymasterAndData(op)]

PackPanics(op) ==
  LET packed == PackUserOp(op)
  IN  Panic \in {packed.accountGasLimits, packed.gasFees, packed.paymasterAndData}

\* The hash stands for what it is taken of; uint256 arguments are cut to a word.
GetUserOpHashV07(op) ==
  LET packed == PackUserOp(op)
  IN  IF PackPanics(op) THEN Panic
      ELSE [packed     |-> [packed EXCEPT !.nonce = @ % Power[Word],
                                          !.preVerificationGas = @ % Power[Word]],
            entryPoint |-> EntryPointV07]

-----------------------------------------------------------------------------
(* The pure parts of ExecuteJob *)

\* The key of a nonce, Nil for an error.
Wrong_KeyOffByOne(nonce) ==
  IF nonce = Nil \/ ByteLen(OrZero(nonce)) < SeqBytes THEN Nil
  ELSE SetBytes(SubSeq(Padded(nonce, Word), 1, Word - SeqBytes + 1))
Wrong_WantsWholeWord(nonce) ==
  IF nonce = Nil \/ ByteLen(OrZero(nonce)) < Word THEN Nil
  ELSE SetBytes(SubSeq(Padded(nonce, Word), 1, Word - SeqBytes))
ExtractNonceKey(nonce) ==
  IF nonce = Nil \/ ByteLen(OrZero(nonce)) < SeqBytes THEN Nil
  ELSE SetBytes(SubSeq(Padded(nonce, Word), 1, Word - SeqBytes))

MaxFeePerGas(baseFee, priorityFee) == (baseFee * 150) \div 100 + priorityFee

HasDummySignature(sig) == IsSuffix(DummySignature, sig)
LeadingSignature(sig) == SubSeq(sig, 1, Len(sig) - Len(DummySignature))

-----------------------------------------------------------------------------
(* The entry point and the bundler *)

\* EntryPoint.getNonce returns the key and the sequence of an account.
NonceOf(key, sequence) == key * Power[SeqBytes] + sequence

Number(json, f) == IF json[f] \in {Absent, Nil, <<>>} THEN 0 ELSE SetBytes(json[f])
Data(json, f) == IF json[f] \in {Absent, Nil} THEN <<>> ELSE json[f]

\* The bundler refuses numbers that do not fit the entry point's types.
BundlerTakes(json) ==
  /\ \A f \in PackedGas : Number(json, f) < Power[Half]
  /\ \A f \in NumberFields : Number(json, f) < Power[Word]

\* The hash of the operation in the request, by the definition of ERC-4337.
BundlerHash(json, entryPoint) ==
  LET Gas(f) == Padded(Number(json, f), Half)
  IN  [packed |->
         [sender             |-> json["sender"],
          nonce              |-> Number(json, "nonce"),
          initCode           |-> Data(json, "factory") \o Data(json, "factoryData"),
          callData           |-> json["callData"],
          accountGasLimits   |-> Gas("verificationGasLimit") \o Gas("callGasLimit"),
          preVerificationGas |-> Number(json, "preVerificationGas"),
          gasFees            |-> Gas("maxPriorityFeePerGas") \o Gas("maxFeePerGas"),
          paymasterAndData   |->
            IF json["paymaster"] = Absent THEN <<>>
            ELSE json["paymaster"] \o Gas("paymasterVerificationGasLimit")
                   \o Gas("paymasterPostOpGasLimit") \o Data(json, "paymasterData")],
       entryPoint |-> entryPoint]

=============================================================================
