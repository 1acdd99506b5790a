------------------------ MODULE UserOperationProofs ------------------------
(***************************************************************************)
(* Machine-checked proofs about the way of a user operation: for any       *)
(* widths, requests, estimates and fees.  What is said of numbers and      *)
(* their bytes is proved first, by induction on exponents and positions.   *)
(***************************************************************************)
EXTENDS UserOperationFlow, WellFoundedInduction, TLAPS

\* The widths are numbers, and 0 is a byte.
LEMMA Widths ==
  /\ Word \in Nat /\ Half \in Nat /\ SeqBytes \in Nat /\ Word >= 1 /\ SeqBytes < Word
  /\ Word = Half + Half
  /\ 0 \in Byte /\ Byte \subseteq Nat
  /\ Base \in Nat /\ Base > 1
BY WidthsAssumption DEF Word, Byte

\* Neither Nil nor Absent nor Panic is a number or a sequence of bytes.
LEMMA Values ==
  /\ Nil # Absent
  /\ Nil \notin Nat /\ Absent \notin Nat /\ Panic \notin Nat
  /\ Nil \notin Seq(Byte) /\ Absent \notin Seq(Byte) /\ Panic \notin Seq(Byte)
BY ValuesAssumption

\* The kinds of fields do not overlap.
LEMMA FieldKinds ==
  /\ NumberFields \subseteq Fields /\ OptionalAddresses \subseteq Fields
  /\ OptionalData \subseteq Fields
  /\ {"nonce", "signature", "sender", "callData", "factory", "factoryData", "paymaster",
      "paymasterData"} \subseteq Fields
  /\ \A f \in NumberFields : f \notin OptionalAddresses \cup OptionalData
  /\ \A f \in OptionalAddresses : f \notin OptionalData
  /\ "nonce" \in NumberFields /\ RequiredGas \subseteq NumberFields
  /\ PaymasterLimits \subseteq NumberFields
  /\ \A f \in RequiredGas : f # "nonce" /\ f \notin PaymasterLimits
  /\ "nonce" \notin PaymasterLimits
  /\ \A f \in NumberFields : f = "nonce" \/ f \in RequiredGas \/ f \in PaymasterLimits
  /\ \A f \in {"signature", "sender", "callData"} :
       f \notin NumberFields \cup OptionalAddresses \cup OptionalData
BY DEF Fields, NumberFields, RequiredGas, PaymasterLimits, OptionalAddresses, OptionalData

-----------------------------------------------------------------------------
(* Induction *)

\* A set of numbers has a least one: the principle behind the inductions below, which
\* look at the least number a claim fails for.
LEMMA LeastNumber ==
  ASSUME NEW S, S \subseteq Nat, S # {}
  PROVE  \E n \in S : \A m \in S : n <= m
<1> DEFINE R == OpToRel(<, Nat)
<1>1. IsWellFoundedOn(R, Nat)
  BY NatLessThanWellFounded
<1>2. \A x, y \in Nat : <<x, y>> \in R <=> x < y
  BY DEF OpToRel
<1> HIDE DEF R
<1>3. PICK n \in S : \A m \in S : ~(<<m, n>> \in R)
  BY <1>1, WFMin
<1>4. n \in Nat /\ \A m \in S : m \in Nat /\ ~(m < n)
  BY <1>2, <1>3
<1>5. \A m \in S : n <= m
  BY <1>4
<1> QED BY <1>5

\* Induction: a set with 0 that is closed under the successor has all numbers.
LEMMA Induction ==
  ASSUME NEW S, 0 \in S, \A n \in Nat : n \in S => n + 1 \in S
  PROVE  Nat \subseteq S
<1> DEFINE T == Nat \ S
<1> SUFFICES ASSUME T # {} PROVE FALSE
  OBVIOUS
<1>1. PICK n \in T : \A m \in T : n <= m
  BY LeastNumber
<1>2. n \in Nat /\ n # 0 /\ n \notin S
  BY <1>1
<1>3. n - 1 \in Nat /\ n - 1 \notin T
  BY <1>1, <1>2
<1>4. (n - 1) + 1 \in S
  BY <1>3
<1> QED BY <1>2, <1>4

-----------------------------------------------------------------------------
(* Powers *)

\* The first powers: f has them up to the k-th.
IsPowers(f, k) ==
  f = [i \in 0..k |-> IF i = 0 THEN 1 ELSE Base * f[i - 1]]

\* The recursion defines the powers.
LEMMA PowerDefined ==
  Power = [k \in Nat |-> IF k = 0 THEN 1 ELSE Base * Power[k - 1]]
<1> DEFINE Agree == {k \in Nat : \A l, m \in Nat : \A f, g :
                       k <= l /\ k <= m /\ IsPowers(f, l) /\ IsPowers(g, m) => f[k] = g[k]}
           Exist == {k \in Nat : \E f : IsPowers(f, k)}
<1>1. Nat \subseteq Agree
  <2>1. 0 \in Agree
    BY DEF IsPowers
  <2>2. ASSUME NEW k \in Nat, k \in Agree PROVE k + 1 \in Agree
    <3> SUFFICES ASSUME NEW l \in Nat, NEW m \in Nat, NEW f, NEW g, k + 1 <= l, k + 1 <= m,
                        IsPowers(f, l), IsPowers(g, m)
                 PROVE  f[k + 1] = g[k + 1]
      OBVIOUS
    <3>1. f[k] = g[k]
      BY <2>2
    <3>2. k + 1 \in 0..l /\ k + 1 \in 0..m /\ k + 1 # 0 /\ (k + 1) - 1 = k
      OBVIOUS
    <3>3. f[k + 1] = Base * f[k]
      BY <3>2 DEF IsPowers
    <3>4. g[k + 1] = Base * g[k]
      BY <3>2 DEF IsPowers
    <3> QED BY <3>1, <3>3, <3>4
  <2> HIDE DEF Agree
  <2> QED BY <2>1, <2>2, Induction
<1>2. Nat \subseteq Exist
  <2>1. 0 \in Exist
    <3> DEFINE f == [i \in 0..0 |-> 1]
    <3>1. IsPowers(f, 0)
      BY DEF IsPowers
    <3> QED BY <3>1
  <2>2. ASSUME NEW k \in Nat, k \in Exist PROVE k + 1 \in Exist
    <3> PICK f : IsPowers(f, k)
      BY <2>2
    <3> DEFINE g == [i \in 0..(k + 1) |-> IF i <= k THEN f[i] ELSE Base * f[k]]
    <3>1. ASSUME NEW i \in 0..(k + 1) PROVE g[i] = IF i = 0 THEN 1 ELSE Base * g[i - 1]
      <4>1. CASE i = 0
        BY <4>1 DEF IsPowers
      <4>2. CASE i \in 1..k
        BY <4>2 DEF IsPowers
      <4>3. CASE i = k + 1
        BY <4>3
      <4> QED BY <4>1, <4>2, <4>3
    <3>2. IsPowers(g, k + 1)
      <4>1. g = [i \in 0..(k + 1) |-> g[i]]
        OBVIOUS
      <4> HIDE DEF g
      <4> QED BY <3>1, <4>1 DEF IsPowers
    <3> QED BY <3>2
  <2> HIDE DEF Exist
  <2> QED BY <2>1, <2>2, Induction
<1> DEFINE First(k) == CHOOSE f : IsPowers(f, k)
           p == [k \in Nat |-> First(k)[k]]
<1>3. \A k \in Nat : IsPowers(First(k), k)
  BY <1>2
<1>4. ASSUME NEW k \in Nat PROVE p[k] = IF k = 0 THEN 1 ELSE Base * p[k - 1]
  <2>1. CASE k = 0
    <3>1. IsPowers(First(k), k) /\ 0 \in 0..k
      BY <1>3, <2>1
    <3>2. First(k)[0] = 1
      BY <3>1 DEF IsPowers
    <3> QED BY <2>1, <3>2
  <2>2. CASE k # 0
    <3>1. k - 1 \in Nat /\ k \in 0..k /\ IsPowers(First(k), k)
          /\ IsPowers(First(k - 1), k - 1)
      BY <1>3, <2>2
    <3>2. First(k)[k] = Base * First(k)[k - 1]
      BY <2>2, <3>1 DEF IsPowers
    <3>3. First(k)[k - 1] = First(k - 1)[k - 1]
      BY <1>1, <3>1
    <3> QED BY <2>2, <3>1, <3>2, <3>3
  <2> QED BY <2>1, <2>2
<1>5. p = [k \in Nat |-> IF k = 0 THEN 1 ELSE Base * p[k - 1]]
  <2>1. p = [k \in Nat |-> p[k]]
    OBVIOUS
  <2> HIDE DEF p
  <2> QED BY <1>4, <2>1
<1> HIDE DEF p
<1> QED BY <1>5 DEF Power

\* What the powers are, and that they are no zeros.
LEMMA Powers ==
  /\ Power[0] = 1
  /\ \A k \in Nat : Power[k] \in Nat \ {0} /\ Power[k + 1] = Base * Power[k]
<1>1. Power[0] = 1
  BY PowerDefined
<1>2. ASSUME NEW k \in Nat PROVE Power[k + 1] = Base * Power[k]
  <2>1. k + 1 \in Nat /\ k + 1 # 0 /\ (k + 1) - 1 = k
    OBVIOUS
  <2>2. Power[k + 1] = Base * Power[(k + 1) - 1]
    BY <2>1, PowerDefined
  <2> QED BY <2>1, <2>2
<1> DEFINE Positive == {k \in Nat : Power[k] \in Nat \ {0}}
<1>3. Nat \subseteq Positive
  <2>1. 0 \in Positive
    BY <1>1
  <2>2. ASSUME NEW k \in Nat, k \in Positive PROVE k + 1 \in Positive
    <3> DEFINE p == Power[k]
    <3>1. p \in Nat \ {0} /\ Power[k + 1] = Base * p
      BY <1>2, <2>2
    <3> HIDE DEF p
    <3>2. Base * p \in Nat \ {0}
      BY <3>1, Widths
    <3> QED BY <3>1, <3>2
  <2> HIDE DEF Positive
  <2> QED BY <2>1, <2>2, Induction
<1> QED BY <1>1, <1>2, <1>3

\* A power of a sum is the product of the powers.
LEMMA PowerOfSum ==
  ASSUME NEW k \in Nat
  PROVE  \A l \in Nat : Power[k + l] = Power[k] * Power[l]
<1> DEFINE Splits == {l \in Nat : Power[k + l] = Power[k] * Power[l]}
<1>1. 0 \in Splits
  <2>1. Power[k] \in Nat /\ Power[0] = 1 /\ k + 0 = k
    BY Powers
  <2> QED BY <2>1
<1>2. ASSUME NEW l \in Nat, l \in Splits PROVE l + 1 \in Splits
  <2> DEFINE p == Power[k]
             q == Power[l]
             r == Power[k + l]
  <2>1. p \in Nat /\ q \in Nat /\ r = p * q
    BY <1>2, Powers
  <2>2. /\ Power[l + 1] = Base * q
        /\ Power[k + (l + 1)] = Base * r
    <3>1. k + l \in Nat /\ (k + l) + 1 = k + (l + 1)
      OBVIOUS
    <3> QED BY <3>1, Powers
  <2> HIDE DEF p, q, r
  <2>3. Base * r = p * (Base * q)
    BY <2>1, Widths
  <2> QED BY <2>2, <2>3 DEF p
<1> HIDE DEF Splits
<1>3. Nat \subseteq Splits
  BY <1>1, <1>2, Induction
<1> QED BY <1>3 DEF Splits

\* Powers grow, and leave their exponent behind.
LEMMA PowersGrow ==
  /\ \A k, l \in Nat : k <= l => Power[k] <= Power[l]
  /\ \A k \in Nat : k < Power[k]
<1>1. ASSUME NEW k \in Nat, NEW l \in Nat, k <= l PROVE Power[k] <= Power[l]
  <2> DEFINE p == Power[k]
             q == Power[l - k]
  <2>1. l - k \in Nat /\ k + (l - k) = l
    BY <1>1
  <2>2. p \in Nat \ {0} /\ q \in Nat \ {0} /\ Power[l] = p * q
    BY <2>1, Powers, PowerOfSum
  <2> HIDE DEF p, q
  <2>3. p <= p * q
    BY <2>2
  <2> QED BY <2>2, <2>3 DEF p
<1> DEFINE Smaller == {k \in Nat : k < Power[k]}
<1>2. 0 \in Smaller
  BY Powers
<1>3. ASSUME NEW k \in Nat, k \in Smaller PROVE k + 1 \in Smaller
  <2> DEFINE p == Power[k]
  <2>1. p \in Nat \ {0} /\ k < p /\ Power[k + 1] = Base * p
    BY <1>3, Powers
  <2> HIDE DEF p
  <2>2. k + 1 < Base * p
    <3>1. 2 * p <= Base * p
      BY <2>1, Widths
    <3>2. Base * p \in Nat
      BY <2>1, Widths
    <3> QED BY <2>1, <3>1, <3>2
  <2> QED BY <2>1, <2>2
<1> HIDE DEF Smaller
<1>4. Nat \subseteq Smaller
  BY <1>2, <1>3, Induction
<1> QED BY <1>1, <1>4 DEF Smaller

-----------------------------------------------------------------------------
(* Bytes *)

\* The length of a number is the least that its power exceeds.
LEMMA ByteLenIs ==
  ASSUME NEW n \in Nat
  PROVE  /\ ByteLen(n) \in 0..n /\ n < Power[ByteLen(n)]
         /\ \A w \in Nat : ByteLen(n) <= w <=> n < Power[w]
<1> DEFINE Exceeds == {k \in Nat : n < Power[k]}
<1>1. n \in Exceeds
  BY PowersGrow
<1>2. PICK k \in Exceeds : \A m \in Exceeds : k <= m
  BY <1>1, LeastNumber
<1>3. k \in 0..n /\ n < Power[k] /\ \A j \in 0..(k - 1) : Power[j] <= n
  <2>1. k \in Nat /\ k <= n /\ n < Power[k]
    BY <1>1, <1>2
  <2>2. ASSUME NEW j \in 0..(k - 1) PROVE Power[j] <= n
    <3>1. j \in Nat /\ Power[j] \in Nat /\ ~(k <= j)
      BY <2>1, Powers
    <3>2. ~(n < Power[j])
      BY <1>2, <3>1
    <3> QED BY <3>1, <3>2
  <2> QED BY <2>1, <2>2
<1>4. /\ ByteLen(n) \in 0..n /\ n < Power[ByteLen(n)]
      /\ \A j \in 0..(ByteLen(n) - 1) : Power[j] <= n
  BY <1>3 DEF ByteLen
<1> DEFINE b == ByteLen(n)
<1> HIDE DEF b
<1>5. b \in Nat /\ n < Power[b] /\ \A j \in 0..(b - 1) : Power[j] <= n
  BY <1>4 DEF b
<1>6. ASSUME NEW w \in Nat PROVE b <= w <=> n < Power[w]
  <2>1. Power[b] \in Nat /\ Power[w] \in Nat
    BY <1>5, Powers
  <2>2. CASE b <= w
    <3>1. Power[b] <= Power[w]
      BY <1>5, <2>2, PowersGrow
    <3> QED BY <1>5, <2>1, <2>2, <3>1
  <2>3. CASE ~(b <= w)
    <3>1. Power[w] <= n
      BY <1>5, <2>3
    <3> QED BY <2>1, <2>3, <3>1
  <2> QED BY <2>2, <2>3
<1> QED BY <1>4, <1>6 DEF b

\* The digits of a number that fits: what is written of it, zeros in front or not.
Digits(n, w) == [i \in 1..w |-> (n \div Power[w - i]) % Base]

\* The quotients of a number by the powers: each has the digits of the one before
\* and one more.
LEMMA Quotients ==
  ASSUME NEW n \in Nat, NEW k \in Nat
  PROVE  /\ n \div Power[k] \in Nat /\ (n \div Power[k]) % Base \in Byte
         /\ n \div Power[k] = (n \div Power[k + 1]) * Base + ((n \div Power[k]) % Base)
         /\ n < Power[k] => n \div Power[k] = 0
<1> DEFINE p == Power[k]
           b == Base
           q == n \div p
           r == n \div (b * p)
<1>1. p \in Nat \ {0} /\ Power[k + 1] = b * p /\ b \in Nat /\ b > 1
  BY Powers, Widths
<1> HIDE DEF p, b
<1>2. q \in Nat /\ q * p <= n /\ n < (q + 1) * p
  BY <1>1
<1>3. n < p => q = 0
  BY <1>1
<1>4. q % b \in 0..(b - 1) /\ q \div b \in Nat /\ q = (q \div b) * b + (q % b)
  <2>1. b \in Nat \ {0} /\ q \in Nat
    BY <1>1, <1>2
  <2> HIDE DEF q
  <2>2. q % b \in 0..(b - 1) /\ q \div b \in Nat
    BY <2>1
  <2>3. q = (q \div b) * b + (q % b)
    BY <2>1
  <2> QED BY <2>2, <2>3
<1>5. q \div b = r
  <2> DEFINE d == q \div b
  <2>1. d \in Nat /\ d * b <= q /\ q < (d + 1) * b
    <3> HIDE DEF q
    <3> QED BY <1>1, <1>2
  <2> HIDE DEF d, q
  <2>2. (d * b) * p <= q * p /\ (q + 1) * p <= ((d + 1) * b) * p
    <3>1. q + 1 <= (d + 1) * b
      BY <1>1, <1>2, <2>1
    <3> QED BY <1>1, <1>2, <2>1, <3>1
  <2>3. d * (b * p) <= n /\ n < (d + 1) * (b * p)
    <3>1. (d * b) * p = d * (b * p) /\ ((d + 1) * b) * p = (d + 1) * (b * p)
      BY <1>1, <2>1
    <3> QED BY <1>1, <1>2, <2>1, <2>2, <3>1
  <2> DEFINE m == b * p
  <2>4. m \in Nat \ {0}
    BY <1>1
  <2> HIDE DEF m
  <2>5. n \div m = d
    BY <2>1, <2>3, <2>4 DEF m
  <2> QED BY <2>5 DEF d, m
<1> QED BY <1>1, <1>2, <1>3, <1>4, <1>5 DEF p, b, Byte

\* Digits are bytes.
LEMMA DigitsAreBytes ==
  ASSUME NEW n \in Nat, NEW w \in Nat
  PROVE  /\ Digits(n, w) \in Seq(Byte) /\ Len(Digits(n, w)) = w
         /\ \A i \in 1..w : Digits(n, w)[i] = (n \div Power[w - i]) % Base
<1>1. ASSUME NEW i \in 1..w PROVE (n \div Power[w - i]) % Base \in Byte
  BY Quotients
<1>2. Digits(n, w) \in [1..w -> Byte]
  BY <1>1 DEF Digits
<1> QED BY <1>2 DEF Digits

\* Values that each take in one byte more end in what SetBytes reads.
LEMMA SetBytesReads ==
  ASSUME NEW s \in Seq(Byte), NEW v, v[0] = 0,
         \A i \in 1..Len(s) : v[i] = v[i - 1] * Base + s[i]
  PROVE  SetBytes(s) = v[Len(s)]
<1> DEFINE IsValue(g) == g = [i \in 0..Len(s) |-> IF i = 0 THEN 0 ELSE g[i - 1] * Base + s[i]]
           value == CHOOSE g : IsValue(g)
           u == [i \in 0..Len(s) |-> v[i]]
<1>1. IsValue(u)
  <2>1. ASSUME NEW i \in 0..Len(s)
        PROVE  u[i] = IF i = 0 THEN 0 ELSE u[i - 1] * Base + s[i]
    <3>1. CASE i = 0
      BY <3>1
    <3>2. CASE i \in 1..Len(s)
      BY <3>2
    <3> QED BY <3>1, <3>2
  <2>2. u = [i \in 0..Len(s) |-> u[i]]
    OBVIOUS
  <2> HIDE DEF u
  <2> QED BY <2>1, <2>2
<1>2. IsValue(value)
  BY <1>1
<1>3. SetBytes(s) = value[Len(s)]
  BY DEF SetBytes
<1> HIDE DEF value
<1> DEFINE Right == {i \in Nat : i <= Len(s) => value[i] = v[i]}
<1>4. 0 \in Right
  BY <1>2
<1>5. ASSUME NEW i \in Nat, i \in Right PROVE i + 1 \in Right
  <2> SUFFICES ASSUME i + 1 <= Len(s) PROVE value[i + 1] = v[i + 1]
    OBVIOUS
  <2>1. i + 1 \in 1..Len(s) /\ i + 1 \in 0..Len(s) /\ (i + 1) - 1 = i
    OBVIOUS
  <2>2. value[i + 1] = value[i] * Base + s[i + 1]
    BY <1>2, <2>1
  <2>3. value[i] = v[i]
    BY <1>5, <2>1
  <2> QED BY <2>1, <2>2, <2>3
<1> HIDE DEF Right
<1>6. Nat \subseteq Right
  BY <1>4, <1>5, Induction
<1> QED BY <1>3, <1>6 DEF Right

\* Reading the first k of the digits of a number gives its quotient.
LEMMA DigitsRead ==
  ASSUME NEW n \in Nat, NEW w \in Nat, n < Power[w], NEW k \in 0..w
  PROVE  SetBytes(SubSeq(Digits(n, w), 1, k)) = n \div Power[w - k]
<1> DEFINE d == Digits(n, w)
           s == SubSeq(d, 1, k)
           v == [i \in 0..w |-> n \div Power[w - i]]
<1>1. d \in Seq(Byte) /\ Len(d) = w /\ \A i \in 1..w : d[i] = (n \div Power[w - i]) % Base
  BY DigitsAreBytes
<1> HIDE DEF d
<1>2. s \in Seq(Byte) /\ Len(s) = k /\ \A i \in 1..k : s[i] = d[i]
  BY <1>1
<1> HIDE DEF s
<1>3. v[0] = 0
  <2>1. v[0] = n \div Power[w - 0] /\ w - 0 = w
    OBVIOUS
  <2>2. n \div Power[w] = 0
    BY Quotients
  <2> HIDE DEF v
  <2> QED BY <2>1, <2>2
<1>4. ASSUME NEW i \in 1..k PROVE v[i] = v[i - 1] * Base + s[i]
  <2> DEFINE x == n \div Power[w - i]
             y == n \div Power[w - (i - 1)]
             z == x % Base
  <2>1. w - i \in Nat /\ (w - i) + 1 = w - (i - 1) /\ i \in 1..w /\ i - 1 \in 0..w
    OBVIOUS
  <2>2. x \in Nat /\ z \in Byte /\ x = (n \div Power[(w - i) + 1]) * Base + z
    BY <2>1, Quotients
  <2>3. y \in Nat /\ x = y * Base + z
    <3>1. w - (i - 1) \in Nat
      BY <2>1
    <3> QED BY <2>1, <2>2, <3>1, Quotients
  <2>4. v[i] = x /\ v[i - 1] = y
    BY <2>1
  <2>5. s[i] = z
    BY <1>1, <1>2, <2>1
  <2> HIDE DEF x, y, z, v
  <2> QED BY <2>3, <2>4, <2>5
<1> HIDE DEF v
<1>5. SetBytes(s) = v[k]
  BY <1>2, <1>3, <1>4, SetBytesReads
<1> QED BY <1>5 DEF s, d, v

\* Bytes writes the digits of a number, as many as it has.
LEMMA NumberLaws ==
  \A n \in Nat :
    /\ ByteLen(n) \in Nat /\ Bytes(n) \in Seq(Byte) /\ Len(Bytes(n)) = ByteLen(n)
    /\ Bytes(n) = Digits(n, ByteLen(n)) /\ (Bytes(n) = <<>> <=> n = 0)
    /\ \A w \in Nat : ByteLen(n) <= w <=> n < Power[w]
<1> TAKE n \in Nat
<1>1. /\ ByteLen(n) \in Nat /\ n < Power[ByteLen(n)]
      /\ \A w \in Nat : ByteLen(n) <= w <=> n < Power[w]
  BY ByteLenIs
<1>2. Bytes(n) = Digits(n, ByteLen(n))
  BY DEF Bytes, Digits
<1>3. Bytes(n) \in Seq(Byte) /\ Len(Bytes(n)) = ByteLen(n)
  BY <1>1, <1>2, DigitsAreBytes
<1>4. Bytes(n) = <<>> <=> n = 0
  <2>1. ByteLen(n) <= 0 <=> n < 1
    BY <1>1, Powers
  <2>2. ByteLen(n) = 0 <=> n = 0
    BY <1>1, <2>1
  <2> QED BY <1>3, <2>2
<1> QED BY <1>1, <1>2, <1>3, <1>4

\* Powers of the widths: no zeros, and a word is the key and the sequence.
LEMMA WidthPowers ==
  /\ \A w \in {SeqBytes, Half, Word, Word - SeqBytes} : Power[w] \in Nat \ {0}
  /\ Power[Word] = Power[SeqBytes] * Power[Word - SeqBytes]
<1>1. /\ SeqBytes \in Nat /\ Half \in Nat /\ Word \in Nat /\ Word - SeqBytes \in Nat
      /\ SeqBytes + (Word - SeqBytes) = Word
  BY Widths
<1> QED BY <1>1, Powers, PowerOfSum

-----------------------------------------------------------------------------
(* Buffers *)

\* copy to the end of a slice: the rest of the buffer stays.
LEMMA CopyRightCopies ==
  ASSUME NEW buf \in Seq(Byte), NEW end \in 0..Len(buf), NEW s \in Seq(Byte), Len(s) <= end
  PROVE  /\ CopyRight(buf, end, s) \in Seq(Byte)
         /\ Len(CopyRight(buf, end, s)) = Len(buf)
         /\ \A i \in 1..Len(buf) :
              CopyRight(buf, end, s)[i] = IF i \in (end - Len(s) + 1)..end
                                          THEN s[i - end + Len(s)] ELSE buf[i]
<1> DEFINE copied == [i \in 1..Len(buf) |-> IF i \in (end - Len(s) + 1)..end
                                            THEN s[i - end + Len(s)] ELSE buf[i]]
<1>1. CopyRight(buf, end, s) = copied
  <2>1. buf # Panic /\ DOMAIN buf = 1..Len(buf) /\ ~(Len(s) > end)
    BY Values
  <2> QED BY <2>1 DEF CopyRight
<1>2. \A i \in 1..Len(buf) : copied[i] \in Byte
  OBVIOUS
<1>3. copied \in Seq(Byte) /\ Len(copied) = Len(buf)
  BY <1>2
<1> QED BY <1>1, <1>3

\* Zeros are a buffer.
LEMMA ZerosAreBytes ==
  ASSUME NEW width \in Nat
  PROVE  [i \in 1..width |-> 0] \in Seq(Byte) /\ Len([i \in 1..width |-> 0]) = width
BY Widths

\* A number that fits is padded to the width, one that does not panics.
LEMMA PaddedFits ==
  ASSUME NEW n \in Nat, NEW width \in Nat
  PROVE  /\ Len(Bytes(n)) = ByteLen(n) /\ ByteLen(n) \in Nat /\ Bytes(n) \in Seq(Byte)
         /\ ByteLen(n) > width => Padded(n, width) = Panic
         /\ ByteLen(n) <= width =>
              /\ Padded(n, width) \in Seq(Byte) /\ Len(Padded(n, width)) = width
              /\ \A i \in 1..width :
                   Padded(n, width)[i] = IF i > width - ByteLen(n)
                                         THEN Bytes(n)[i - width + ByteLen(n)] ELSE 0
<1> DEFINE zeros == [i \in 1..width |-> 0]
<1>1. zeros \in Seq(Byte) /\ Len(zeros) = width /\ \A i \in 1..width : zeros[i] = 0
  BY ZerosAreBytes
<1>2. ByteLen(n) \in Nat /\ Bytes(n) \in Seq(Byte)
  BY NumberLaws
<1>3. Len(Bytes(n)) = ByteLen(n)
  BY <1>2 DEF Bytes
<1>4. Padded(n, width) = CopyRight(zeros, width, Bytes(n))
  BY DEF Padded
<1> HIDE DEF zeros
<1>5. ASSUME ByteLen(n) > width PROVE Padded(n, width) = Panic
  BY <1>2, <1>3, <1>4, <1>5 DEF CopyRight
<1>6. ASSUME ByteLen(n) <= width
      PROVE  /\ Padded(n, width) \in Seq(Byte) /\ Len(Padded(n, width)) = width
             /\ \A i \in 1..width :
                  Padded(n, width)[i] = IF i > width - ByteLen(n)
                                        THEN Bytes(n)[i - width + ByteLen(n)] ELSE 0
  <2>1. /\ Padded(n, width) \in Seq(Byte) /\ Len(Padded(n, width)) = width
        /\ \A i \in 1..width :
             Padded(n, width)[i] = IF i \in (width - ByteLen(n) + 1)..width
                                   THEN Bytes(n)[i - width + ByteLen(n)] ELSE zeros[i]
    <3> DEFINE s == Bytes(n)
    <3>1. s \in Seq(Byte) /\ width \in 0..Len(zeros) /\ Len(s) <= width
      BY <1>1, <1>2, <1>3, <1>6
    <3> HIDE DEF s
    <3>2. /\ CopyRight(zeros, width, s) \in Seq(Byte)
          /\ Len(CopyRight(zeros, width, s)) = Len(zeros)
          /\ \A i \in 1..Len(zeros) :
               CopyRight(zeros, width, s)[i] = IF i \in (width - Len(s) + 1)..width
                                               THEN s[i - width + Len(s)] ELSE zeros[i]
      <4>1. zeros \in Seq(Byte)
        BY <1>1
      <4> QED BY <3>1, <4>1, CopyRightCopies
    <3> QED BY <1>1, <1>3, <1>4, <3>2 DEF s
  <2> QED BY <1>1, <1>2, <2>1
<1> QED BY <1>2, <1>3, <1>5, <1>6

\* What is padded are the digits, and they read back; without those of the sequence
\* they read as the rest of the number.
LEMMA PaddedReads ==
  ASSUME NEW n \in Nat, NEW w \in Nat, ByteLen(n) <= w
  PROVE  /\ SetBytes(Padded(n, w)) = n
         /\ \A k \in 0..w : SetBytes(SubSeq(Padded(n, w), 1, k)) = n \div Power[w - k]
<1> DEFINE b == ByteLen(n)
           p == Padded(n, w)
           d == Digits(n, w)
<1>1. b \in Nat /\ b <= w /\ n < Power[w] /\ n < Power[b]
  <2>1. b \in Nat /\ b <= b
    BY NumberLaws
  <2> QED BY <2>1, NumberLaws
<1>2. /\ p \in Seq(Byte) /\ Len(p) = w
      /\ \A i \in 1..w : p[i] = IF i > w - b THEN Bytes(n)[i - w + b] ELSE 0
  BY PaddedFits
<1>3. d \in Seq(Byte) /\ Len(d) = w /\ \A i \in 1..w : d[i] = (n \div Power[w - i]) % Base
  BY DigitsAreBytes
<1>4. \A i \in 1..b : Bytes(n)[i] = (n \div Power[b - i]) % Base
  <2>1. Bytes(n) = Digits(n, b)
    BY NumberLaws
  <2> QED BY <1>1, <2>1, DigitsAreBytes
<1> HIDE DEF b, p, d
<1>5. ASSUME NEW i \in 1..w PROVE p[i] = d[i]
  <2>1. CASE i > w - b
    <3>1. i - w + b \in 1..b /\ b - (i - w + b) = w - i
      BY <1>1, <2>1
    <3>2. Bytes(n)[i - w + b] = (n \div Power[w - i]) % Base
      BY <1>4, <3>1
    <3> QED BY <1>2, <1>3, <2>1, <3>2
  <2>2. CASE ~(i > w - b)
    <3>1. w - i \in Nat /\ b <= w - i
      BY <1>1, <2>2
    <3>2. n < Power[w - i]
      BY <3>1, NumberLaws DEF b
    <3>3. n \div Power[w - i] = 0
      BY <3>1, <3>2, Quotients
    <3>4. 0 % Base = 0
      BY Widths
    <3> QED BY <1>2, <1>3, <2>2, <3>3, <3>4
  <2> QED BY <2>1, <2>2
<1>6. p = d
  BY <1>2, <1>3, <1>5
<1>7. \A k \in 0..w : SetBytes(SubSeq(d, 1, k)) = n \div Power[w - k]
  BY <1>1, DigitsRead DEF d
<1>8. SetBytes(d) = n
  <2>1. w \in 0..w /\ w - w = 0 /\ SubSeq(d, 1, w) = d
    BY <1>3
  <2>2. Power[0] = 1 /\ n \div 1 = n
    BY Powers
  <2> QED BY <1>7, <2>1, <2>2
<1> QED BY <1>6, <1>7, <1>8 DEF p

\* So do the digits without padding.
LEMMA HexTextReads ==
  ASSUME NEW n \in Nat
  PROVE  SetBytes(HexText(n)) = n
<1>1. CASE n = 0
  <2> DEFINE v == [i \in 0..1 |-> 0]
  <2>1. <<0>> \in Seq(Byte) /\ Len(<<0>>) = 1 /\ <<0>>[1] = 0
    BY Widths
  <2>2. v[0] = 0 /\ v[1] = 0
    OBVIOUS
  <2>3. \A i \in 1..1 : v[i] = v[i - 1] * Base + <<0>>[i]
    BY <2>1, <2>2, Widths
  <2> HIDE DEF v
  <2>4. SetBytes(<<0>>) = v[1]
    BY <2>1, <2>2, <2>3, SetBytesReads
  <2> QED BY <1>1, <2>2, <2>4 DEF HexText
<1>2. CASE n # 0
  <2> DEFINE b == ByteLen(n)
             d == Digits(n, b)
  <2>1. b \in Nat /\ n < Power[b] /\ HexText(n) = d
    <3>1. b \in Nat /\ b <= b
      BY NumberLaws
    <3> QED BY <1>2, <3>1, NumberLaws DEF HexText
  <2>2. d \in Seq(Byte) /\ Len(d) = b
    BY <2>1, DigitsAreBytes
  <2>3. SetBytes(SubSeq(d, 1, b)) = n \div Power[b - b]
    BY <2>1, DigitsRead
  <2> HIDE DEF b, d
  <2>4. SubSeq(d, 1, b) = d /\ b - b = 0
    BY <2>1, <2>2
  <2>5. Power[0] = 1 /\ n \div 1 = n
    BY Powers
  <2> QED BY <2>1, <2>3, <2>4, <2>5
<1> QED BY <1>1, <1>2

-----------------------------------------------------------------------------
(* JSON *)

\* The decoder reads what either encoder writes of a number.
LEMMA NumberTexts ==
  ASSUME NEW n \in Nat
  PROVE  /\ HexText(n) \notin {Absent, Nil, <<>>} /\ SetBytes(HexText(n)) = n
         /\ ParseNumber(HexText(n)) = n
         /\ Padded(n, Word) # Panic =>
              /\ Padded(n, Word) \notin {Absent, Nil, <<>>} /\ SetBytes(Padded(n, Word)) = n
              /\ ParseNumber(Padded(n, Word)) = n
<1>1. HexText(n) \in Seq(Byte) /\ HexText(n) # <<>> /\ SetBytes(HexText(n)) = n
  <2>1. Bytes(n) \in Seq(Byte) /\ (Bytes(n) = <<>> <=> n = 0)
    BY NumberLaws
  <2>2. <<0>> \in Seq(Byte) /\ <<0>> # <<>>
    BY Widths
  <2>3. HexText(n) \in Seq(Byte) /\ HexText(n) # <<>>
    BY <2>1, <2>2 DEF HexText
  <2> QED BY <2>3, HexTextReads
<1>2. ASSUME Padded(n, Word) # Panic
      PROVE  /\ Padded(n, Word) \in Seq(Byte) /\ Padded(n, Word) # <<>>
             /\ SetBytes(Padded(n, Word)) = n
  <2>1. ByteLen(n) \in Nat /\ ByteLen(n) <= Word
    BY <1>2, PaddedFits, Widths
  <2>2. Padded(n, Word) \in Seq(Byte) /\ Len(Padded(n, Word)) = Word
    BY <2>1, PaddedFits, Widths
  <2>3. SetBytes(Padded(n, Word)) = n
    BY <2>1, PaddedReads, Widths
  <2> QED BY <2>2, <2>3, Widths
<1> QED BY <1>1, <1>2, Values DEF ParseNumber

\* What a field may hold.
LEMMA FieldValues ==
  ASSUME NEW o, IsUserOperation(o)
  PROVE  /\ o = [f \in Fields |-> o[f]]
         /\ \A f \in NumberFields : (o[f] = Nil \/ o[f] \in Nat) /\ OrZero(o[f]) \in Nat
         /\ \A f \in OptionalAddresses : o[f] = Nil \/ o[f] \in Seq(Byte)
         /\ \A f \in OptionalData : o[f] \in Seq(Byte) /\ o[f] # Nil /\ o[f] # Absent
         /\ \A f \in {"signature", "sender", "callData"} :
              o[f] \in Seq(Byte) /\ o[f] # Nil /\ o[f] # Absent
<1>1. \A f \in OptionalData \cup {"signature", "sender", "callData"} :
        f \in Fields \ (NumberFields \cup OptionalAddresses)
  BY FieldKinds
<1>2. /\ o = [f \in Fields |-> o[f]]
      /\ \A f \in NumberFields : o[f] = Nil \/ o[f] \in Nat
      /\ \A f \in OptionalAddresses : o[f] = Nil \/ o[f] \in Seq(Byte)
      /\ \A f \in Fields \ (NumberFields \cup OptionalAddresses) : o[f] \in Seq(Byte)
  BY DEF IsUserOperation
<1>3. \A f \in NumberFields : OrZero(o[f]) \in Nat
  BY <1>2 DEF OrZero
<1> QED BY <1>1, <1>2, <1>3, Values

\* An operation is one by its fields.
LEMMA OperationByFields ==
  ASSUME NEW o, o = [f \in Fields |-> o[f]],
         \A f \in NumberFields : o[f] = Nil \/ o[f] \in Nat,
         \A f \in OptionalAddresses : o[f] = Nil \/ o[f] \in Seq(Byte),
         \A f \in OptionalData \cup {"signature", "sender", "callData"} : o[f] \in Seq(Byte)
  PROVE  IsUserOperation(o)
BY DEF IsUserOperation, Fields

\* An operation with another nonce.
LEMMA StoredIsOperation ==
  ASSUME NEW o, IsUserOperation(o)
  PROVE  /\ IsUserOperation(Stored(o))
         /\ Stored(o)["nonce"] = OrZero(o["nonce"])
         /\ \A f \in Fields : f # "nonce" => Stored(o)[f] = o[f]
<1>1. /\ Stored(o) = [f \in Fields |-> IF f = "nonce" THEN OrZero(o["nonce"]) ELSE o[f]]
      /\ OrZero(o["nonce"]) \in Nat
  BY FieldValues, FieldKinds DEF Stored
<1>2. IsUserOperation(Stored(o))
  BY <1>1, FieldKinds DEF IsUserOperation
<1> QED BY <1>1, <1>2, FieldKinds

\* The fields that are no numbers: the tags leave out what the decoder puts back.
LEMMA TaggedFields ==
  ASSUME NEW o, IsUserOperation(o), NEW f \in Fields \ NumberFields
  PROVE  LET text == TaggedField(o, f) IN
         o[f] = IF f \in OptionalAddresses
                THEN IF text = Absent THEN Nil ELSE text
                ELSE IF text = Absent THEN <<>> ELSE text
<1>1. CASE f \in OptionalAddresses
  BY <1>1, FieldValues, FieldKinds, Values DEF TaggedField
<1>2. CASE f \in OptionalData
  BY <1>2, FieldValues, FieldKinds, Values DEF TaggedField
<1>3. CASE f \in {"signature", "sender", "callData"}
  BY <1>3, FieldValues, FieldKinds, Values DEF TaggedField
<1> QED BY <1>1, <1>2, <1>3 DEF Fields

\* What a number's field holds in the row, and that the decoder reads the number.
LEMMA MarshalledNumbers ==
  ASSUME NEW o, IsUserOperation(o),
         Padded(OrZero(o["nonce"]), Word) # Panic, NEW f \in NumberFields
  PROVE  /\ ParseNumber(MarshalJSON(o)[f]) = Stored(o)[f]
         /\ Number(MarshalJSON(o), f) = OrZero(o[f])
<1>1. /\ Padded(OrZero(o["nonce"]), Word) # Panic
      /\ MarshalJSON(o)[f] =
           CASE f = "nonce" -> Padded(OrZero(o[f]), Word)
             [] f \in RequiredGas -> IF o[f] = Nil THEN <<>> ELSE HexText(o[f])
             [] f \in PaymasterLimits /\ o[f] # Nil -> HexText(o[f])
             [] OTHER -> TaggedField(o, f)
  BY FieldKinds DEF MarshalJSON
<1>2. o[f] = Nil \/ o[f] \in Nat
  BY FieldValues
<1>3. CASE f = "nonce"
  <2>1. MarshalJSON(o)[f] = Padded(OrZero(o[f]), Word)
    BY <1>1, <1>3, FieldKinds
  <2>2. Stored(o)[f] = OrZero(o[f])
    BY <1>3, StoredIsOperation
  <2>3. OrZero(o[f]) \in Nat
    BY FieldValues
  <2> QED BY <1>1, <1>3, <2>1, <2>2, <2>3, NumberTexts DEF Number
<1>4. CASE f \in RequiredGas
  <2>1. Stored(o)[f] = o[f] /\ MarshalJSON(o)[f] = IF o[f] = Nil THEN <<>> ELSE HexText(o[f])
    BY <1>1, <1>4, FieldKinds, StoredIsOperation
  <2> QED BY <1>2, <2>1, NumberTexts DEF ParseNumber, Number, OrZero
<1>5. CASE f \in PaymasterLimits
  <2>1. /\ Stored(o)[f] = o[f]
        /\ MarshalJSON(o)[f] = IF o[f] = Nil THEN Absent ELSE HexText(o[f])
    BY <1>1, <1>5, FieldKinds, StoredIsOperation DEF TaggedField
  <2> QED BY <1>2, <2>1, NumberTexts DEF ParseNumber, Number, OrZero
<1> QED BY <1>3, <1>4, <1>5, FieldKinds

\* CreateJob's encoder and the decoder: the same operation, a missing nonce read as zero.
LEMMA RowReadsBack ==
  ASSUME NEW o, IsUserOperation(o),
         Padded(OrZero(o["nonce"]), Word) # Panic
  PROVE  UnmarshalJSON(MarshalJSON(o)) = Stored(o)
<1> DEFINE json == MarshalJSON(o)
<1>1. ASSUME NEW f \in NumberFields PROVE UnmarshalJSON(json)[f] = Stored(o)[f]
  BY <1>1, MarshalledNumbers, FieldKinds DEF UnmarshalJSON
<1>2. ASSUME NEW f \in Fields \ NumberFields PROVE UnmarshalJSON(json)[f] = Stored(o)[f]
  <2>1. json[f] = TaggedField(o, f)
    BY FieldKinds DEF MarshalJSON
  <2>2. f # "nonce"
    BY FieldKinds
  <2> QED BY <2>1, <2>2, TaggedFields, StoredIsOperation DEF UnmarshalJSON
<1>3. UnmarshalJSON(json) = [f \in Fields |-> UnmarshalJSON(json)[f]]
  BY DEF UnmarshalJSON
<1>4. Stored(o) = [f \in Fields |-> Stored(o)[f]]
  BY StoredIsOperation, FieldValues
<1>5. \A f \in Fields : UnmarshalJSON(json)[f] = Stored(o)[f]
  BY <1>1, <1>2
<1> HIDE DEF json
<1> QED BY <1>3, <1>4, <1>5 DEF json

\* EnqueueJob's encoder and the decoder: the very same operation.
LEMMA QueueReadsBack ==
  ASSUME NEW o, IsUserOperation(o)
  PROVE  UnmarshalJSON(DefaultJSON(o)) = o
<1> DEFINE json == DefaultJSON(o)
<1>1. ASSUME NEW f \in NumberFields PROVE UnmarshalJSON(json)[f] = o[f]
  <2>1. json[f] = IF o[f] # Nil THEN HexText(o[f])
                  ELSE IF f \in PaymasterLimits THEN Absent ELSE Nil
    BY FieldKinds DEF DefaultJSON, TaggedField
  <2>2. UnmarshalJSON(json)[f] = ParseNumber(json[f])
    BY FieldKinds DEF UnmarshalJSON
  <2>3. o[f] = Nil \/ o[f] \in Nat
    BY FieldValues
  <2> QED BY <2>1, <2>2, <2>3, NumberTexts DEF ParseNumber
<1>2. ASSUME NEW f \in Fields \ NumberFields PROVE UnmarshalJSON(json)[f] = o[f]
  <2>1. json[f] = TaggedField(o, f)
    BY FieldKinds DEF DefaultJSON
  <2> QED BY <2>1, TaggedFields DEF UnmarshalJSON
<1>3. UnmarshalJSON(json) = [f \in Fields |-> UnmarshalJSON(json)[f]]
  BY DEF UnmarshalJSON
<1>4. o = [f \in Fields |-> o[f]]
  BY FieldValues
<1>5. \A f \in Fields : UnmarshalJSON(json)[f] = o[f]
  BY <1>1, <1>2
<1> HIDE DEF json
<1> QED BY <1>3, <1>4, <1>5 DEF json

-----------------------------------------------------------------------------
(* The pure parts of ExecuteJob *)

\* The key of a nonce is what is above its sequence; without one, it is small.
LEMMA KeyOfNonce ==
  ASSUME NEW n \in Nat, ByteLen(n) <= Word
  PROVE  /\ ExtractNonceKey(n) # Nil => n # 0 /\ ExtractNonceKey(n) = n \div Power[SeqBytes]
         /\ ExtractNonceKey(n) = Nil => n < Power[SeqBytes]
<1>1. /\ ByteLen(n) \in Nat /\ (ByteLen(n) <= SeqBytes <=> n < Power[SeqBytes])
      /\ SetBytes(SubSeq(Padded(n, Word), 1, Word - SeqBytes)) = n \div Power[SeqBytes]
  <2>1. Word - SeqBytes \in 0..Word /\ Word - (Word - SeqBytes) = SeqBytes
    BY Widths
  <2>2. SetBytes(SubSeq(Padded(n, Word), 1, Word - SeqBytes))
          = n \div Power[Word - (Word - SeqBytes)]
    BY <2>1, PaddedReads, Widths
  <2>3. ByteLen(n) \in Nat /\ (ByteLen(n) <= SeqBytes <=> n < Power[SeqBytes])
    BY NumberLaws, Widths
  <2> QED BY <2>1, <2>2, <2>3
<1>2. n # Nil /\ OrZero(n) = n
  BY Values DEF OrZero
<1>3. n \div Power[SeqBytes] \in Nat
  BY WidthPowers
<1>4. CASE ByteLen(n) < SeqBytes
  BY <1>1, <1>2, <1>4, Widths DEF ExtractNonceKey
<1>5. CASE ~(ByteLen(n) < SeqBytes)
  <2>1. ByteLen(n) # 0
    BY <1>1, <1>5, WidthsAssumption
  <2>2. n # 0
    <3>1. Len(Bytes(n)) = ByteLen(n) /\ (n = 0 => Bytes(n) = <<>>)
      BY PaddedFits, Widths, NumberLaws
    <3>2. Len(<<>>) = 0
      OBVIOUS
    <3> QED BY <2>1, <3>1, <3>2
  <2> QED BY <1>1, <1>2, <1>3, <1>5, <2>2, Values DEF ExtractNonceKey
<1> QED BY <1>4, <1>5

\* A nonce with the key of one that fits a word fits a word, and has that key.
LEMMA NonceOfKey ==
  ASSUME NEW n \in Nat, n < Power[Word], NEW sequence \in 0..(Power[SeqBytes] - 1)
  PROVE  LET nonce == NonceOf(n \div Power[SeqBytes], sequence) IN
         /\ nonce \in Nat /\ nonce < Power[Word]
         /\ nonce \div Power[SeqBytes] = n \div Power[SeqBytes]
<1> DEFINE p == Power[SeqBytes]
           q == Power[Word - SeqBytes]
           key == n \div p
<1>1. p \in Nat \ {0} /\ q \in Nat \ {0} /\ Power[Word] = p * q
  BY WidthPowers
<1> HIDE DEF p, q
<1>2. key \in Nat /\ key * p <= n
  BY <1>1
<1>3. key < q
  <2>1. key * p < q * p
    BY <1>1, <1>2
  <2> HIDE DEF key
  <2> QED BY <1>1, <1>2, <2>1
<1>4. sequence \in Nat /\ sequence < p
  BY <1>1 DEF p
<1>5. /\ key * p + sequence \in Nat /\ key * p + sequence < p * q
      /\ (key * p + sequence) \div p = key
  <2> HIDE DEF key
  <2>1. (key + 1) * p <= q * p
    BY <1>1, <1>2, <1>3
  <2>2. (key + 1) * p = key * p + p
    BY <1>1, <1>2
  <2> QED BY <1>1, <1>2, <1>4, <2>1, <2>2
<1> QED BY <1>1, <1>5 DEF NonceOf, p

\* What the suffix test says: the signature is its leading part and the dummy.
LEMMA DummyEnds ==
  ASSUME NEW sig \in Seq(Byte), HasDummySignature(sig)
  PROVE  /\ LeadingSignature(sig) \in Seq(Byte)
         /\ sig = LeadingSignature(sig) \o DummySignature
<1> DEFINE m == Len(sig)
           d == Len(DummySignature)
           tail == Reverse(DummySignature)
           back == Reverse(sig)
<1>1. m \in Nat /\ d \in Nat /\ DummySignature \in Seq(Byte)
  BY SignatureAssumption
<1>2. /\ Len(tail) = d /\ \A i \in 1..d : tail[i] = DummySignature[(d - i) + 1]
      /\ Len(back) = m /\ \A i \in 1..m : back[i] = sig[(m - i) + 1]
      /\ tail \in Seq(Byte) /\ back \in Seq(Byte)
  BY <1>1 DEF Reverse
<1>3. d <= m /\ SubSeq(tail, 1, d) = SubSeq(back, 1, d)
  BY <1>2 DEF HasDummySignature, IsSuffix, IsPrefix
<1> HIDE DEF tail, back
<1>4. \A i \in 1..d : tail[i] = back[i]
  <2>1. \A i \in 1..d : SubSeq(tail, 1, d)[i] = tail[i] /\ SubSeq(back, 1, d)[i] = back[i]
    BY <1>1, <1>2, <1>3
  <2> QED BY <1>3, <2>1
<1>5. \A i \in 1..d : DummySignature[i] = sig[m - d + i]
  <2>1. ASSUME NEW i \in 1..d PROVE DummySignature[i] = sig[m - d + i]
    <3>1. d - i + 1 \in 1..d /\ d - i + 1 \in 1..m
      BY <1>1, <1>3
    <3>2. /\ tail[d - i + 1] = DummySignature[(d - (d - i + 1)) + 1]
          /\ back[d - i + 1] = sig[(m - (d - i + 1)) + 1]
      BY <1>2, <3>1
    <3>3. (d - (d - i + 1)) + 1 = i /\ (m - (d - i + 1)) + 1 = m - d + i
      BY <1>1
    <3> QED BY <1>4, <3>1, <3>2, <3>3
  <2> QED BY <2>1
<1>6. /\ LeadingSignature(sig) \in Seq(Byte) /\ Len(LeadingSignature(sig)) = m - d
      /\ \A i \in 1..(m - d) : LeadingSignature(sig)[i] = sig[i]
  BY <1>1, <1>3 DEF LeadingSignature
<1> DEFINE lead == LeadingSignature(sig)
<1> HIDE DEF lead
<1>7. sig = lead \o DummySignature
  <2>1. /\ lead \in Seq(Byte) /\ Len(lead) = m - d /\ \A i \in 1..(m - d) : lead[i] = sig[i]
    BY <1>6 DEF lead
  <2>2. /\ Len(lead \o DummySignature) = m /\ lead \o DummySignature \in Seq(Byte)
        /\ \A i \in 1..m : (lead \o DummySignature)[i] =
             IF i <= m - d THEN lead[i] ELSE DummySignature[i - (m - d)]
    BY <1>1, <1>3, <2>1
  <2>3. ASSUME NEW i \in 1..m PROVE (lead \o DummySignature)[i] = sig[i]
    <3>1. CASE i <= m - d
      BY <1>1, <1>3, <2>1, <2>2, <3>1
    <3>2. CASE ~(i <= m - d)
      <4>1. i - (m - d) \in 1..d /\ m - d + (i - (m - d)) = i
        BY <1>1, <1>3, <3>2
      <4> QED BY <1>5, <2>2, <3>2, <4>1
    <3> QED BY <3>1, <3>2
  <2> DEFINE whole == lead \o DummySignature
  <2>4. /\ whole \in Seq(Byte) /\ Len(whole) = Len(sig)
        /\ \A i \in 1..Len(sig) : whole[i] = sig[i]
    BY <2>2, <2>3
  <2> HIDE DEF whole
  <2>5. whole = sig
    BY <2>4
  <2> QED BY <2>5 DEF whole
<1> QED BY <1>6, <1>7 DEF lead

-----------------------------------------------------------------------------
(* Packing and hashing *)

\* Two numbers that fit share a word, each padded to its half.
LEMMA HalvesFit ==
  ASSUME NEW upper, NEW lower,
         upper = Nil \/ upper \in Nat, lower = Nil \/ lower \in Nat,
         OrZero(upper) < Power[Half], OrZero(lower) < Power[Half]
  PROVE  /\ TwoHalves(upper, lower) \in Seq(Byte)
         /\ TwoHalves(upper, lower) =
              Padded(OrZero(upper), Half) \o Padded(OrZero(lower), Half)
<1> DEFINE u == OrZero(upper)
           l == OrZero(lower)
           bu == Bytes(u)
           bl == Bytes(l)
           zeros == [i \in 1..Word |-> 0]
           half == CopyRight(zeros, Half, bu)
           word == CopyRight(half, Word, bl)
<1>1. u \in Nat /\ l \in Nat
  BY DEF OrZero
<1>2. OptBytes(upper) = bu /\ OptBytes(lower) = bl
  BY <1>1, Values, NumberLaws DEF OptBytes, OrZero
<1>3. /\ bu \in Seq(Byte) /\ bl \in Seq(Byte) /\ Len(bu) = ByteLen(u) /\ Len(bl) = ByteLen(l)
      /\ Len(bu) <= Half /\ Len(bl) <= Half
  <2>1. ByteLen(u) <= Half /\ ByteLen(l) <= Half
    BY <1>1, NumberLaws, Widths
  <2> QED BY <1>1, <2>1, PaddedFits, Widths
<1>4. zeros \in Seq(Byte) /\ Len(zeros) = Word /\ \A i \in 1..Word : zeros[i] = 0
  BY ZerosAreBytes, Widths
<1>5. TwoHalves(upper, lower) = word
  BY <1>2 DEF TwoHalves
<1> HIDE DEF bu, bl, zeros
<1>6. /\ half \in Seq(Byte) /\ Len(half) = Word
      /\ \A i \in 1..Word :
           half[i] = IF i \in (Half - Len(bu) + 1)..Half THEN bu[i - Half + Len(bu)] ELSE 0
  <2>1. zeros \in Seq(Byte) /\ Half \in 0..Len(zeros) /\ bu \in Seq(Byte) /\ Len(bu) <= Half
    BY <1>3, <1>4, Widths
  <2>2. /\ half \in Seq(Byte) /\ Len(half) = Len(zeros)
        /\ \A i \in 1..Len(zeros) :
             half[i] = IF i \in (Half - Len(bu) + 1)..Half THEN bu[i - Half + Len(bu)] ELSE zeros[i]
    BY <2>1, CopyRightCopies
  <2> QED BY <1>4, <2>2
<1> HIDE DEF half
<1>7. /\ word \in Seq(Byte) /\ Len(word) = Word
      /\ \A i \in 1..Word :
           word[i] = IF i \in (Word - Len(bl) + 1)..Word THEN bl[i - Word + Len(bl)] ELSE half[i]
  <2>1. half \in Seq(Byte) /\ Word \in 0..Len(half) /\ bl \in Seq(Byte) /\ Len(bl) <= Word
    BY <1>3, <1>6, Widths
  <2>2. /\ word \in Seq(Byte) /\ Len(word) = Len(half)
        /\ \A i \in 1..Len(half) :
             word[i] = IF i \in (Word - Len(bl) + 1)..Word THEN bl[i - Word + Len(bl)] ELSE half[i]
    BY <2>1, CopyRightCopies
  <2> QED BY <1>6, <2>2
<1> HIDE DEF word
<1> DEFINE pu == Padded(u, Half)
           pl == Padded(l, Half)
<1>8. /\ pu \in Seq(Byte) /\ Len(pu) = Half
      /\ \A i \in 1..Half : pu[i] = IF i > Half - Len(bu) THEN bu[i - Half + Len(bu)] ELSE 0
      /\ pl \in Seq(Byte) /\ Len(pl) = Half
      /\ \A i \in 1..Half : pl[i] = IF i > Half - Len(bl) THEN bl[i - Half + Len(bl)] ELSE 0
  BY <1>1, <1>3, PaddedFits, Widths DEF bu, bl
<1> HIDE DEF u, l, pu, pl
<1> DEFINE both == pu \o pl
<1>9. /\ both \in Seq(Byte) /\ Len(both) = Word
      /\ \A i \in 1..Word : both[i] = IF i <= Half THEN pu[i] ELSE pl[i - Half]
  <2>1. pu \in Seq(Byte) /\ pl \in Seq(Byte) /\ Len(pu) = Half /\ Len(pl) = Half
    BY <1>8
  <2>2. both \in Seq(Byte) /\ Len(both) = Half + Half
    BY <2>1, Widths
  <2>3. \A i \in 1..(Half + Half) : both[i] = IF i <= Half THEN pu[i] ELSE pl[i - Half]
    BY <2>1, Widths
  <2> QED BY <2>2, <2>3, Widths
<1> HIDE DEF both
<1>10. ASSUME NEW i \in 1..Word PROVE word[i] = both[i]
  <2>1. CASE i <= Half
    <3>1. i \notin (Word - Len(bl) + 1)..Word
      BY <1>3, <2>1, Widths
    <3>2. word[i] = half[i] /\ both[i] = pu[i]
      BY <1>7, <1>9, <2>1, <3>1
    <3>3. Len(bu) \in Nat /\ i \in 1..Half
      BY <1>3, <2>1, Widths
    <3>4. half[i] = IF i \in (Half - Len(bu) + 1)..Half THEN bu[i - Half + Len(bu)] ELSE 0
      BY <1>6
    <3>5. pu[i] = IF i > Half - Len(bu) THEN bu[i - Half + Len(bu)] ELSE 0
      BY <1>8, <3>3
    <3>6. i \in (Half - Len(bu) + 1)..Half <=> i > Half - Len(bu)
      BY <3>3, Widths
    <3> QED BY <3>2, <3>4, <3>5, <3>6
  <2>2. CASE ~(i <= Half)
    <3>1. i - Half \in 1..Half /\ both[i] = pl[i - Half] /\ half[i] = 0
      BY <1>3, <1>6, <1>9, <2>2, Widths
    <3>2. (i - Half) - Half + Len(bl) = i - Word + Len(bl)
      BY <1>3, Widths
    <3>3. i - Half > Half - Len(bl) <=> i \in (Word - Len(bl) + 1)..Word
      BY <1>3, <2>2, Widths
    <3> QED BY <1>7, <1>8, <3>1, <3>2, <3>3
  <2> QED BY <2>1, <2>2
<1>11. word = both
  BY <1>7, <1>9, <1>10
<1> QED BY <1>5, <1>7, <1>11 DEF both, pu, pl, u, l

\* An operation whose gas fields are there and fit is packed without a panic.
LEMMA FittingPacks ==
  ASSUME NEW o, IsUserOperation(o), Fits(o)
  PROVE  ~PackPanics(o)
<1>1. \A f \in PackedGas : f \in NumberFields /\ (o[f] = Nil \/ o[f] \in Nat)
  BY FieldValues DEF PackedGas, NumberFields
<1>2. {"verificationGasLimit", "callGasLimit", "maxPriorityFeePerGas", "maxFeePerGas"}
        \cup PaymasterLimits = PackedGas
  BY DEF PackedGas, RequiredGas, PaymasterLimits
<1>3. \A f, g \in PackedGas : TwoHalves(o[f], o[g]) # Panic
  BY <1>1, HalvesFit, Values DEF Fits
<1>4. \A f \in PaymasterLimits : Padded(OrZero(o[f]), Half) \in Seq(Byte)
  <2> TAKE f \in PaymasterLimits
  <2>1. OrZero(o[f]) \in Nat /\ OrZero(o[f]) < Power[Half]
    BY <1>2, FieldValues, FieldKinds DEF Fits
  <2>2. ByteLen(OrZero(o[f])) <= Half
    BY <2>1, NumberLaws, Widths
  <2> QED BY <2>1, <2>2, PaddedFits, Widths
<1>5. PaymasterAndData(o) # Panic
  <2>1. CASE o["paymaster"] = Nil
    <3>1. <<>> \in Seq(Byte)
      OBVIOUS
    <3> QED BY <2>1, <3>1, Values DEF PaymasterAndData
  <2>2. CASE o["paymaster"] # Nil
    <3> DEFINE v == Padded(OrZero(o["paymasterVerificationGasLimit"]), Half)
               p == Padded(OrZero(o["paymasterPostOpGasLimit"]), Half)
    <3>1. v \in Seq(Byte) /\ p \in Seq(Byte)
      BY <1>4 DEF PaymasterLimits
    <3>2. o["paymaster"] \in Seq(Byte) /\ o["paymasterData"] \in Seq(Byte)
      BY <2>2, FieldValues DEF OptionalAddresses, OptionalData
    <3>3. PaymasterAndData(o) = o["paymaster"] \o v \o p \o o["paymasterData"]
      BY <1>4, <2>2, Values DEF PaymasterAndData
    <3> HIDE DEF v, p
    <3>4. o["paymaster"] \o v \o p \o o["paymasterData"] \in Seq(Byte)
      BY <3>1, <3>2
    <3> QED BY <3>3, <3>4, Values
  <2> QED BY <2>1, <2>2
<1> QED BY <1>2, <1>3, <1>5 DEF PackPanics, PackUserOp

\* The signature is no part of what is packed.
LEMMA SignatureIsNotPacked ==
  ASSUME NEW o, IsUserOperation(o), NEW sig \in Seq(Byte)
  PROVE  LET final == [o EXCEPT !["signature"] = sig] IN
         /\ IsUserOperation(final) /\ final["signature"] = sig
         /\ \A f \in Fields : f # "signature" => final[f] = o[f]
         /\ PackUserOp(final) = PackUserOp(o)
<1> DEFINE final == [o EXCEPT !["signature"] = sig]
<1>1. final = [f \in Fields |-> IF f = "signature" THEN sig ELSE o[f]]
  BY FieldValues, FieldKinds
<1>2. final["signature"] = sig /\ \A f \in Fields : f # "signature" => final[f] = o[f]
  BY <1>1, FieldKinds
<1>3. final = [f \in Fields |-> final[f]]
  BY <1>1, <1>2
<1> HIDE DEF final
<1>4. IsUserOperation(final)
  <2>1. /\ \A f \in NumberFields : final[f] = Nil \/ final[f] \in Nat
        /\ \A f \in OptionalAddresses : final[f] = Nil \/ final[f] \in Seq(Byte)
    BY <1>2, FieldValues, FieldKinds
  <2>2. \A f \in OptionalData \cup {"signature", "sender", "callData"} : final[f] \in Seq(Byte)
    BY <1>2, FieldValues, FieldKinds
  <2> QED BY <1>3, <2>1, <2>2, OperationByFields
<1>5. PackUserOp(final) = PackUserOp(o)
  <2>1. \A f \in NumberFields \cup {"sender", "callData", "factory", "factoryData",
                                    "paymaster", "paymasterData"} : final[f] = o[f]
    BY <1>2, FieldKinds
  <2>2. InitCode(final) = InitCode(o)
    BY <2>1 DEF InitCode
  <2>3. PaymasterAndData(final) = PaymasterAndData(o)
    BY <2>1 DEF PaymasterAndData, NumberFields, PaymasterLimits
  <2> QED BY <2>1, <2>2, <2>3 DEF PackUserOp, NumberFields, RequiredGas, PaymasterLimits
<1> QED BY <1>2, <1>4, <1>5 DEF final

\* What ExecuteJob writes of the gas values, and that what is missing does not fit.
LEMMA GasIsSet ==
  ASSUME NEW o, IsUserOperation(o), NEW estimate \in Estimates, NEW fee \in Fees
  PROVE  LET g == WithGas(o, estimate, fee) IN
         /\ IsUserOperation(g)
         /\ g["nonce"] = o["nonce"] /\ g["signature"] = o["signature"]
         /\ \A f \in Untouched : g[f] = o[f]
         /\ Nil \in {estimate.preVerificationGas, estimate.verificationGasLimit,
                     estimate.callGasLimit} => ~Fits(g)
<1> DEFINE g == WithGas(o, estimate, fee)
           limit == IF o["paymaster"] = Nil THEN o["paymasterVerificationGasLimit"]
                    ELSE estimate.paymasterVerificationGasLimit
           maxFee == MaxFeePerGas(fee[1], fee[2])
           Value(f) ==
             CASE f = "preVerificationGas" -> estimate.preVerificationGas
               [] f = "verificationGasLimit" -> estimate.verificationGasLimit
               [] f = "callGasLimit" -> estimate.callGasLimit
               [] f = "maxFeePerGas" -> maxFee
               [] f = "maxPriorityFeePerGas" -> fee[2]
               [] f = "paymasterVerificationGasLimit" -> limit
               [] OTHER -> o[f]
<1> HIDE DEF limit, maxFee
<1>1. g = [f \in Fields |-> Value(f)]
  <2>1. o = [f \in Fields |-> o[f]]
    BY FieldValues
  <2>2. {"preVerificationGas", "verificationGasLimit", "callGasLimit", "maxFeePerGas",
         "maxPriorityFeePerGas", "paymasterVerificationGasLimit", "paymaster"} \subseteq Fields
    BY DEF Fields, NumberFields, RequiredGas, PaymasterLimits, OptionalAddresses
  <2> QED BY <2>1, <2>2 DEF WithGas, limit, maxFee
<1>2. maxFee \in Nat /\ fee[2] \in Nat
  <2>1. fee[1] \in Nat /\ fee[2] \in Nat
    BY InputsAssumption
  <2> HIDE DEF Value, g
  <2> QED BY <2>1 DEF maxFee, MaxFeePerGas
<1>3. /\ estimate.preVerificationGas \in Nat \cup {Nil}
      /\ estimate.verificationGasLimit \in Nat \cup {Nil}
      /\ estimate.callGasLimit \in Nat \cup {Nil}
      /\ estimate.paymasterVerificationGasLimit \in Nat \cup {Nil}
  BY InputsAssumption
<1>4. limit \in Nat \cup {Nil}
  BY <1>3, FieldValues, FieldKinds DEF limit, PaymasterLimits
<1> HIDE DEF g
<1>5. \A f \in Fields : g[f] = Value(f)
  BY <1>1
<1>6. \A f \in NumberFields : g[f] \in Nat \cup {Nil}
  <2> TAKE f \in NumberFields
  <2>1. o[f] \in Nat \cup {Nil}
    BY FieldValues
  <2>2. Value(f) \in Nat \cup {Nil}
    BY <1>2, <1>3, <1>4, <2>1
  <2> QED BY <1>5, <2>2, FieldKinds
<1>7. /\ \A f \in Untouched : g[f] = o[f]
      /\ g["nonce"] = o["nonce"] /\ g["signature"] = o["signature"]
      /\ g["preVerificationGas"] = estimate.preVerificationGas
      /\ g["verificationGasLimit"] = estimate.verificationGasLimit
      /\ g["callGasLimit"] = estimate.callGasLimit
  BY <1>5, FieldKinds DEF Untouched, RequiredGas
<1>8. IsUserOperation(g)
  <2>1. \A f \in Fields \ NumberFields : g[f] = o[f]
    BY <1>5 DEF NumberFields, RequiredGas, PaymasterLimits
  <2>2. \A f \in OptionalAddresses : g[f] = Nil \/ g[f] \in Seq(Byte)
    BY <2>1, FieldValues, FieldKinds
  <2>3. \A f \in OptionalData \cup {"signature", "sender", "callData"} : g[f] \in Seq(Byte)
    BY <2>1, FieldValues, FieldKinds
  <2>4. g = [f \in Fields |-> g[f]]
    BY <1>1, <1>5
  <2> QED BY <1>6, <2>2, <2>3, <2>4, OperationByFields
<1>9. Nil \in {estimate.preVerificationGas, estimate.verificationGasLimit,
              estimate.callGasLimit} => ~Fits(g)
  BY <1>7 DEF Fits, RequiredGas
<1> QED BY <1>7, <1>8, <1>9 DEF g

-----------------------------------------------------------------------------
(* The invariant *)

\* What the invariant says of a stage after the registration.
LEMMA Registered ==
  ASSUME RegisteredInv, stage # "idle"
  PROVE  LET o == req.userOp IN
         /\ IsUserOperation(o) /\ req.entryPoint \in EntryPoints
         /\ IsUserOperation(Stored(o))
         /\ UnmarshalJSON(row) = Stored(o)
         /\ OrZero(o["nonce"]) \in Nat /\ ByteLen(OrZero(o["nonce"])) <= Word
         /\ OrZero(o["nonce"]) < Power[Word]
<1>1. /\ req.userOp \in Requests /\ req.entryPoint \in EntryPoints
      /\ Padded(OrZero(req.userOp["nonce"]), Word) # Panic
      /\ row = MarshalJSON(req.userOp)
  BY DEF RegisteredInv
<1>2. IsUserOperation(req.userOp)
  BY <1>1, InputsAssumption
<1>3. UnmarshalJSON(row) = Stored(req.userOp) /\ IsUserOperation(Stored(req.userOp))
  BY <1>1, <1>2, RowReadsBack, StoredIsOperation
<1>4. OrZero(req.userOp["nonce"]) \in Nat
  BY <1>2, FieldValues, FieldKinds
<1>5. ByteLen(OrZero(req.userOp["nonce"])) <= Word
  <2> DEFINE n == OrZero(req.userOp["nonce"])
  <2>1. n \in Nat /\ Padded(n, Word) # Panic
    BY <1>1, <1>4
  <2> HIDE DEF n
  <2>2. ByteLen(n) \in Nat /\ ~(ByteLen(n) > Word)
    BY <2>1, PaddedFits, Widths
  <2>3. ByteLen(n) <= Word
    BY <2>2, Widths
  <2> QED BY <2>3 DEF n
<1>6. OrZero(req.userOp["nonce"]) < Power[Word]
  BY <1>4, <1>5, NumberLaws, Widths
<1> QED BY <1>1, <1>2, <1>3, <1>4, <1>5, <1>6

\* Nothing is registered at the start.
LEMMA FlowInit == Init => FlowInv
BY DEF Init, FlowInv, Stages, RegisteredInv, CarriedInv, ExecutedInv, SignatureInv, SentInv,
       FittingNeverPanics, EveryOtherKeyIsExecutable

\* Registering, storing and queueing carry the operation.
LEMMA CarryNext ==
  ASSUME FlowInv, Register \/ Load \/ Enqueue \/ Dequeue
  PROVE  FlowInv'
<1> USE DEF FlowInv, Stages
<1>1. CASE Register
  <2>1. /\ stage = "idle" /\ stage' = "stored" /\ job' = Nil /\ queue' = Nil /\ op' = Nil
        /\ sent' = Nil
    BY <1>1 DEF Register, CarriedInv, SentInv
  <2>2. RegisteredInv'
    <3> PICK userOp \in Requests, entryPoint \in EntryPoints :
          /\ MarshalJSON(userOp) # Panic
          /\ req' = [userOp |-> userOp, entryPoint |-> entryPoint]
          /\ row' = MarshalJSON(userOp)
      BY <1>1 DEF Register
    <3>1. Padded(OrZero(userOp["nonce"]), Word) # Panic
      BY DEF MarshalJSON
    <3> QED BY <2>1, <3>1 DEF RegisteredInv
  <2> QED BY <2>1, <2>2 DEF CarriedInv, ExecutedInv, SignatureInv, SentInv,
            FittingNeverPanics, EveryOtherKeyIsExecutable
<1>2. CASE Load
  <2>1. /\ stage = "stored" /\ stage' = "loaded" /\ req' = req /\ row' = row
        /\ queue' = Nil /\ op' = Nil /\ sent' = Nil /\ job' = UnmarshalJSON(row)
    BY <1>2 DEF Load, CarriedInv, SentInv
  <2>2. job' = Stored(req.userOp)
    BY <2>1, Registered
  <2> QED BY <2>1, <2>2 DEF RegisteredInv, CarriedInv, ExecutedInv, SignatureInv, SentInv,
            FittingNeverPanics, EveryOtherKeyIsExecutable
<1>3. CASE Enqueue
  <2>1. /\ stage = "loaded" /\ stage' = "queued" /\ req' = req /\ row' = row
        /\ job' = Nil /\ op' = Nil /\ sent' = Nil /\ queue' = DefaultJSON(Stored(req.userOp))
    BY <1>3 DEF Enqueue, CarriedInv, SentInv
  <2> QED BY <2>1 DEF RegisteredInv, CarriedInv, ExecutedInv, SignatureInv, SentInv,
            FittingNeverPanics, EveryOtherKeyIsExecutable
<1>4. CASE Dequeue
  <2>1. /\ stage = "queued" /\ stage' = "dequeued" /\ req' = req /\ row' = row
        /\ job' = Nil /\ queue' = Nil /\ sent' = Nil
        /\ op' = UnmarshalJSON(DefaultJSON(Stored(req.userOp)))
    BY <1>4 DEF Dequeue, CarriedInv, SentInv
  <2>2. IsUserOperation(Stored(req.userOp))
    BY <2>1, Registered
  <2>3. op' = Stored(req.userOp)
    BY <2>1, <2>2, QueueReadsBack
  <2> QED BY <2>1, <2>2, <2>3 DEF RegisteredInv, CarriedInv, ExecutedInv, SignatureInv,
            SentInv, FittingNeverPanics, EveryOtherKeyIsExecutable
<1> QED BY <1>1, <1>2, <1>3, <1>4

\* The nonce: the registered key, another sequence, or an error for a key of zero.
LEMMA NonceNext ==
  ASSUME FlowInv, SetNonce
  PROVE  FlowInv'
<1> DEFINE o == req.userOp
           n == OrZero(o["nonce"])
<1>1. /\ stage = "dequeued" /\ req' = req /\ row' = row /\ job' = Nil /\ queue' = Nil
      /\ sent' = Nil /\ RegisteredInv' /\ op = Stored(o)
  BY DEF FlowInv, SetNonce, CarriedInv, SentInv, RegisteredInv
<1>2. /\ IsUserOperation(o) /\ IsUserOperation(op)
      /\ n \in Nat /\ ByteLen(n) <= Word /\ n < Power[Word]
  BY <1>1, Registered DEF FlowInv
<1>3. op["nonce"] = n /\ \A f \in Fields : f # "nonce" => op[f] = o[f]
  BY <1>1, <1>2, StoredIsOperation
<1>4. CASE ExtractNonceKey(n) = Nil
  <2>1. stage' = "noKey" /\ op' = op /\ n < Power[SeqBytes]
    BY <1>2, <1>3, <1>4, KeyOfNonce DEF SetNonce
  <2> QED BY <1>1, <1>2, <2>1 DEF FlowInv, Stages, CarriedInv, ExecutedInv, SignatureInv,
            SentInv, FittingNeverPanics, EveryOtherKeyIsExecutable
<1>5. CASE ExtractNonceKey(n) # Nil
  <2>1. n # 0 /\ ExtractNonceKey(n) = n \div Power[SeqBytes]
    BY <1>2, <1>5, KeyOfNonce
  <2>2. PICK sequence \in 0..(Power[SeqBytes] - 1) :
          /\ op' = [op EXCEPT !["nonce"] = NonceOf(n \div Power[SeqBytes], sequence)]
          /\ stage' = "nonce"
    BY <1>3, <1>5, <2>1 DEF SetNonce
  <2> DEFINE nonce == NonceOf(n \div Power[SeqBytes], sequence)
  <2>3. /\ nonce \in Nat /\ nonce < Power[Word]
        /\ nonce \div Power[SeqBytes] = n \div Power[SeqBytes]
    BY <1>2, NonceOfKey
  <2>4. o["nonce"] = n
    BY <2>1 DEF OrZero
  <2> HIDE DEF nonce
  <2>5. op' = [f \in Fields |-> IF f = "nonce" THEN nonce ELSE op[f]]
    <3>1. op = [f \in Fields |-> op[f]] /\ "nonce" \in Fields
      BY <1>2, FieldValues, FieldKinds
    <3>2. op' = [op EXCEPT !["nonce"] = nonce]
      BY <2>2 DEF nonce
    <3> QED BY <3>1, <3>2
  <2>6. op["signature"] = o["signature"] /\ \A f \in Untouched : op[f] = o[f]
    BY <1>3, FieldKinds DEF Untouched
  <2>7. /\ op'["nonce"] = nonce /\ op'["signature"] = o["signature"]
        /\ \A f \in Untouched : op'[f] = o[f]
    BY <2>5, <2>6, FieldKinds DEF Untouched
  <2>8. IsUserOperation(op')
    <3>1. op' = [f \in Fields |-> op'[f]] /\ \A f \in Fields : f # "nonce" => op'[f] = op[f]
      BY <2>5, FieldKinds
    <3>2. /\ \A f \in NumberFields : op'[f] = Nil \/ op'[f] \in Nat
          /\ \A f \in OptionalAddresses : op'[f] = Nil \/ op'[f] \in Seq(Byte)
      BY <1>2, <2>3, <2>7, <3>1, FieldValues, FieldKinds
    <3>3. \A f \in OptionalData \cup {"signature", "sender", "callData"} : op'[f] \in Seq(Byte)
      BY <1>2, <3>1, FieldValues, FieldKinds
    <3> QED BY <3>1, <3>2, <3>3, OperationByFields
  <2>9. ExecutedInv'
    BY <1>1, <1>2, <2>2, <2>3, <2>4, <2>7 DEF ExecutedInv
  <2> QED BY <1>1, <2>2, <2>7, <2>8, <2>9 DEF FlowInv, Stages, CarriedInv, SignatureInv,
            SentInv, FittingNeverPanics, EveryOtherKeyIsExecutable
<1> QED BY <1>4, <1>5

\* The gas values: a missing estimate panics, and the rest stays as it was.
LEMMA GasNext ==
  ASSUME FlowInv, SetGas
  PROVE  FlowInv'
<1>1. PICK estimate \in Estimates, fee \in Fees :
        /\ op' = WithGas(op, estimate, fee)
        /\ stage' = IF Nil \in {estimate.preVerificationGas, estimate.verificationGasLimit,
                                estimate.callGasLimit}
                    THEN "panicked" ELSE "gas"
  BY DEF SetGas
<1>2. /\ stage = "nonce" /\ HasDummySignature(op["signature"])
      /\ req' = req /\ row' = row /\ job' = Nil /\ queue' = Nil /\ sent' = Nil
      /\ IsUserOperation(op) /\ RegisteredInv'
  BY <1>1 DEF FlowInv, SetGas, CarriedInv, SentInv, RegisteredInv
<1>3. /\ IsUserOperation(op')
      /\ op'["nonce"] = op["nonce"] /\ op'["signature"] = op["signature"]
      /\ \A f \in Untouched : op'[f] = op[f]
      /\ stage' = "panicked" => ~Fits(op')
  BY <1>1, <1>2, GasIsSet
<1>4. stage' \in {"panicked", "gas"}
  BY <1>1
<1>5. CarriedInv' /\ SentInv' /\ FittingNeverPanics' /\ EveryOtherKeyIsExecutable'
  BY <1>2, <1>3, <1>4 DEF CarriedInv, SentInv, FittingNeverPanics, EveryOtherKeyIsExecutable
<1>6. ExecutedInv'
  BY <1>2, <1>3, <1>4 DEF FlowInv, ExecutedInv
<1>7. SignatureInv'
  BY <1>2, <1>3, <1>4 DEF FlowInv, SignatureInv
<1> QED BY <1>2, <1>4, <1>5, <1>6, <1>7 DEF FlowInv, Stages

\* Signing and sending: one operation is signed and sent, but for its signature.
LEMMA SendNext ==
  ASSUME FlowInv, SignAndSend
  PROVE  FlowInv'
<1> DEFINE sig == LeadingSignature(op["signature"]) \o RealSignature
<1>1. /\ stage = "gas" /\ stage' = "sent" /\ ~PackPanics(op)
      /\ op' = [op EXCEPT !["signature"] = sig]
      /\ BundlerTakes(MarshalJSON(op')) /\ signed' = GetUserOpHashV07(op)
      /\ sent' = [userOp |-> MarshalJSON(op'), entryPoint |-> req.entryPoint]
      /\ req' = req /\ row' = row /\ job' = job /\ queue' = queue
  BY DEF SignAndSend
<1>2. IsUserOperation(op) /\ op["signature"] \in Seq(Byte) /\ HasDummySignature(op["signature"])
  <2>1. IsUserOperation(op) /\ HasDummySignature(op["signature"])
    BY <1>1 DEF FlowInv, CarriedInv, SignatureInv
  <2> QED BY <2>1, FieldValues
<1>3. /\ LeadingSignature(op["signature"]) \in Seq(Byte)
      /\ op["signature"] = LeadingSignature(op["signature"]) \o DummySignature
  BY <1>2, DummyEnds
<1>4. sig \in Seq(Byte)
  BY <1>3, SignatureAssumption
<1>5. op["signature"] = req.userOp["signature"]
  BY <1>1 DEF FlowInv, SignatureInv
<1> HIDE DEF sig
<1>6. /\ IsUserOperation(op') /\ op'["signature"] = sig
      /\ \A f \in Fields : f # "signature" => op'[f] = op[f]
      /\ PackUserOp(op') = PackUserOp(op)
  <2> DEFINE final == [op EXCEPT !["signature"] = sig]
  <2>1. /\ IsUserOperation(final) /\ final["signature"] = sig
        /\ \A f \in Fields : f # "signature" => final[f] = op[f]
        /\ PackUserOp(final) = PackUserOp(op)
    BY <1>2, <1>4, SignatureIsNotPacked
  <2>2. op' = final
    BY <1>1
  <2> HIDE DEF final
  <2> QED BY <2>1, <2>2
<1>7. RegisteredInv' /\ CarriedInv'
  BY <1>1, <1>6 DEF FlowInv, RegisteredInv, CarriedInv
<1>8. ExecutedInv'
  <2>1. op'["nonce"] = op["nonce"] /\ \A f \in Untouched : op'[f] = op[f]
    BY <1>6, FieldKinds DEF Untouched
  <2> QED BY <1>1, <2>1 DEF FlowInv, ExecutedInv
<1>9. SignatureInv'
  BY <1>1, <1>3, <1>5, <1>6 DEF SignatureInv, sig
<1>10. SentInv'
  <2>1. PackPanics(op') = PackPanics(op) /\ GetUserOpHashV07(op') = GetUserOpHashV07(op)
    BY <1>6 DEF PackPanics, GetUserOpHashV07
  <2> QED BY <1>1, <2>1 DEF SentInv
<1> QED BY <1>1, <1>7, <1>8, <1>9, <1>10 DEF FlowInv, Stages, FittingNeverPanics,
           EveryOtherKeyIsExecutable

\* The ends: a panic of the packing, an error, the next round and the next job.
LEMMA EndNext ==
  ASSUME FlowInv, HashPanics \/ ExecuteFails \/ NextRound \/ NextJob
  PROVE  FlowInv'
<1>1. CASE HashPanics
  <2>1. /\ stage = "gas" /\ stage' = "panicked" /\ PackPanics(op)
        /\ UNCHANGED <<req, row, job, queue, op, signed, sent>>
    BY <1>1 DEF HashPanics
  <2>2. ~Fits(op)
    <3>1. IsUserOperation(op)
      BY <2>1 DEF FlowInv, CarriedInv
    <3> QED BY <2>1, <3>1, FittingPacks
  <2> QED BY <2>1, <2>2 DEF FlowInv, Stages, RegisteredInv, CarriedInv, ExecutedInv,
            SignatureInv, SentInv, FittingNeverPanics, EveryOtherKeyIsExecutable
<1>2. CASE ExecuteFails
  <2>1. /\ stage \in {"dequeued", "nonce", "gas"} /\ stage' = "failed"
        /\ UNCHANGED <<req, row, job, queue, op, signed, sent>>
    BY <1>2 DEF ExecuteFails
  <2> QED BY <2>1 DEF FlowInv, Stages, RegisteredInv, CarriedInv, ExecutedInv,
            SignatureInv, SentInv, FittingNeverPanics, EveryOtherKeyIsExecutable
<1>3. CASE NextRound
  <2>1. /\ stage = "sent" /\ stage' = "stored" /\ op' = Nil /\ sent' = Nil
        /\ UNCHANGED <<req, row, job, queue>>
    BY <1>3 DEF NextRound
  <2> QED BY <2>1 DEF FlowInv, Stages, RegisteredInv, CarriedInv, ExecutedInv,
            SignatureInv, SentInv, FittingNeverPanics, EveryOtherKeyIsExecutable
<1>4. CASE NextJob
  <2>1. /\ stage \in {"sent", "failed", "noKey", "panicked"} /\ stage' = "idle"
        /\ req' = Nil /\ row' = Nil /\ op' = Nil /\ sent' = Nil
        /\ UNCHANGED <<job, queue>>
    BY <1>4 DEF NextJob
  <2> QED BY <2>1 DEF FlowInv, Stages, RegisteredInv, CarriedInv, ExecutedInv,
            SignatureInv, SentInv, FittingNeverPanics, EveryOtherKeyIsExecutable
<1> QED BY <1>1, <1>2, <1>3, <1>4

\* The invariant holds always.
LEMMA FlowAlways == Spec => []FlowInv
<1>1. FlowInv /\ [Next]_vars => FlowInv'
  <2> SUFFICES ASSUME FlowInv, [Next]_vars PROVE FlowInv'
    OBVIOUS
  <2>1. CASE UNCHANGED vars
    BY <2>1 DEF vars, FlowInv, RegisteredInv, CarriedInv, ExecutedInv,
                SignatureInv, SentInv, FittingNeverPanics, EveryOtherKeyIsExecutable
  <2>2. CASE Next
    BY <2>2, CarryNext, NonceNext, GasNext, SendNext, EndNext DEF Next
  <2> QED BY <2>1, <2>2
<1> QED BY <1>1, FlowInit, PTL DEF Spec

-----------------------------------------------------------------------------
(* The request and the signature *)

\* What the request holds in the fields that are no numbers.
LEMMA SentData ==
  ASSUME NEW o, IsUserOperation(o), Padded(OrZero(o["nonce"]), Word) # Panic
  PROVE  LET json == MarshalJSON(o) IN
         /\ json["sender"] = o["sender"] /\ json["callData"] = o["callData"]
         /\ \A f \in OptionalAddresses : json[f] = IF o[f] = Nil THEN Absent ELSE o[f]
         /\ \A f \in OptionalAddresses : Data(json, f) = IF o[f] = Nil THEN <<>> ELSE o[f]
         /\ \A f \in OptionalData : Data(json, f) = o[f]
<1> DEFINE json == MarshalJSON(o)
<1>1. \A f \in Fields \ NumberFields : json[f] = TaggedField(o, f)
  BY FieldKinds DEF MarshalJSON
<1> HIDE DEF json
<1>2. json["sender"] = o["sender"] /\ json["callData"] = o["callData"]
  BY <1>1, FieldValues, FieldKinds DEF TaggedField
<1>3. \A f \in OptionalAddresses : json[f] = IF o[f] = Nil THEN Absent ELSE o[f]
  BY <1>1, FieldKinds DEF TaggedField
<1>4. \A f \in OptionalAddresses : Data(json, f) = IF o[f] = Nil THEN <<>> ELSE o[f]
  BY <1>3, FieldValues, Values DEF Data
<1>5. ASSUME NEW f \in OptionalData PROVE Data(json, f) = o[f]
  <2>1. o[f] # Nil /\ o[f] # Absent
    BY FieldValues
  <2>2. json[f] = IF o[f] = <<>> THEN Absent ELSE o[f]
    BY <1>1, <2>1, FieldKinds DEF TaggedField
  <2> QED BY <2>1, <2>2 DEF Data
<1> QED BY <1>2, <1>3, <1>4, <1>5 DEF json

\* The hash that is signed is the one the bundler computes from the request.
LEMMA HashesAgree ==
  ASSUME NEW o, IsUserOperation(o),
         Padded(OrZero(o["nonce"]), Word) # Panic, ~PackPanics(o), WholeFactory(o),
         BundlerTakes(MarshalJSON(o))
  PROVE  BundlerHash(MarshalJSON(o), EntryPointV07) = GetUserOpHashV07(o)
<1> DEFINE json == MarshalJSON(o)
           Gas(f) == Padded(Number(json, f), Half)
<1>1. \A f \in NumberFields : Number(json, f) = OrZero(o[f])
  BY MarshalledNumbers
<1>2. \A f \in NumberFields : OrZero(o[f]) \in Nat /\ OrZero(o[f]) < Power[Word]
  BY <1>1, FieldValues DEF BundlerTakes
<1>3. \A f \in PackedGas : f \in NumberFields /\ OrZero(o[f]) < Power[Half]
  BY <1>1 DEF BundlerTakes, PackedGas, NumberFields
<1>4. /\ json["sender"] = o["sender"] /\ json["callData"] = o["callData"]
      /\ \A f \in OptionalAddresses : json[f] = IF o[f] = Nil THEN Absent ELSE o[f]
      /\ \A f \in OptionalAddresses : Data(json, f) = IF o[f] = Nil THEN <<>> ELSE o[f]
      /\ \A f \in OptionalData : Data(json, f) = o[f]
  BY SentData
<1> HIDE DEF json
<1>5. \A f, g \in PackedGas : TwoHalves(o[f], o[g]) = Gas(f) \o Gas(g)
  <2> TAKE f, g \in PackedGas
  <2>1. /\ o[f] = Nil \/ o[f] \in Nat
        /\ o[g] = Nil \/ o[g] \in Nat
    BY <1>3, FieldValues
  <2>2. TwoHalves(o[f], o[g]) = Padded(OrZero(o[f]), Half) \o Padded(OrZero(o[g]), Half)
    BY <1>3, <2>1, HalvesFit
  <2>3. Gas(f) = Padded(OrZero(o[f]), Half) /\ Gas(g) = Padded(OrZero(o[g]), Half)
    BY <1>1, <1>3
  <2> QED BY <2>2, <2>3
<1>6. \A f \in NumberFields : OrZero(o[f]) % Power[Word] = OrZero(o[f])
  <2> DEFINE p == Power[Word]
  <2>1. p \in Nat \ {0} /\ \A f \in NumberFields : OrZero(o[f]) \in Nat /\ OrZero(o[f]) < p
    BY <1>2, WidthPowers
  <2> HIDE DEF p
  <2>2. \A n \in Nat : n < p => n % p = n
    BY <2>1
  <2>3. \A f \in NumberFields : OrZero(o[f]) % p = OrZero(o[f])
    BY <2>1, <2>2
  <2> QED BY <2>3 DEF p
<1>7. InitCode(o) = Data(json, "factory") \o Data(json, "factoryData")
  <2>1. /\ Data(json, "factory") = IF o["factory"] = Nil THEN <<>> ELSE o["factory"]
        /\ Data(json, "factoryData") = o["factoryData"]
    BY <1>4 DEF OptionalAddresses, OptionalData
  <2>2. CASE o["factory"] = Nil
    <3>1. o["factoryData"] = <<>> /\ InitCode(o) = <<>>
      BY <2>2 DEF WholeFactory, InitCode
    <3>2. <<>> \o <<>> = <<>>
      OBVIOUS
    <3> QED BY <2>1, <2>2, <3>1, <3>2
  <2>3. CASE o["factory"] # Nil
    BY <2>1, <2>3 DEF WholeFactory, InitCode
  <2> QED BY <2>2, <2>3
<1>8. PaymasterAndData(o) =
        IF json["paymaster"] = Absent THEN <<>>
        ELSE json["paymaster"] \o Gas("paymasterVerificationGasLimit")
               \o Gas("paymasterPostOpGasLimit") \o Data(json, "paymasterData")
  <2>1. /\ json["paymaster"] = IF o["paymaster"] = Nil THEN Absent ELSE o["paymaster"]
        /\ Data(json, "paymasterData") = o["paymasterData"]
        /\ o["paymaster"] # Absent
    BY <1>4, FieldValues, Values DEF OptionalAddresses, OptionalData
  <2>2. PaymasterAndData(o) # Panic
    BY DEF PackPanics, PackUserOp
  <2>3. \A f \in PaymasterLimits : Gas(f) = Padded(OrZero(o[f]), Half)
    BY <1>1, FieldKinds
  <2>4. CASE o["paymaster"] = Nil
    BY <2>1, <2>4 DEF PaymasterAndData
  <2>5. CASE o["paymaster"] # Nil
    BY <2>1, <2>2, <2>3, <2>5 DEF PaymasterAndData, PaymasterLimits
  <2> QED BY <2>4, <2>5
<1> DEFINE packed == PackUserOp(o)
           cut == [packed EXCEPT !.nonce = @ % Power[Word], !.preVerificationGas = @ % Power[Word]]
<1>9. GetUserOpHashV07(o) = [packed |-> cut, entryPoint |-> EntryPointV07]
  BY DEF GetUserOpHashV07
<1>10. cut = packed
  <2>1. /\ packed.nonce % Power[Word] = packed.nonce
        /\ packed.preVerificationGas % Power[Word] = packed.preVerificationGas
    BY <1>6 DEF PackUserOp, NumberFields, RequiredGas
  <2>2. packed = [packed EXCEPT !.nonce = packed.nonce,
                                !.preVerificationGas = packed.preVerificationGas]
    BY DEF PackUserOp
  <2> QED BY <2>1, <2>2
<1>11. BundlerHash(json, EntryPointV07) =
         [packed |->
            [sender             |-> json["sender"],
             nonce              |-> Number(json, "nonce"),
             initCode           |-> InitCode(o),
             callData           |-> json["callData"],
             accountGasLimits   |-> Gas("verificationGasLimit") \o Gas("callGasLimit"),
             preVerificationGas |-> Number(json, "preVerificationGas"),
             gasFees            |-> Gas("maxPriorityFeePerGas") \o Gas("maxFeePerGas"),
             paymasterAndData   |-> PaymasterAndData(o)],
          entryPoint |-> EntryPointV07]
  BY <1>7, <1>8 DEF BundlerHash
<1>12. packed =
         [sender             |-> json["sender"],
          nonce              |-> Number(json, "nonce"),
          initCode           |-> InitCode(o),
          callData           |-> json["callData"],
          accountGasLimits   |-> Gas("verificationGasLimit") \o Gas("callGasLimit"),
          preVerificationGas |-> Number(json, "preVerificationGas"),
          gasFees            |-> Gas("maxPriorityFeePerGas") \o Gas("maxFeePerGas"),
          paymasterAndData   |-> PaymasterAndData(o)]
  <2>1. /\ OrZero(o["nonce"]) = Number(json, "nonce")
        /\ OrZero(o["preVerificationGas"]) = Number(json, "preVerificationGas")
    BY <1>1 DEF NumberFields, RequiredGas
  <2>2. {"verificationGasLimit", "callGasLimit", "maxPriorityFeePerGas", "maxFeePerGas"}
          \subseteq PackedGas
    BY DEF PackedGas, RequiredGas
  <2> QED BY <1>4, <1>5, <2>1, <2>2 DEF PackUserOp
<1> HIDE DEF packed, Gas
<1>13. GetUserOpHashV07(o) = [packed |-> packed, entryPoint |-> EntryPointV07]
  BY <1>9, <1>10
<1> QED BY <1>11, <1>12, <1>13 DEF json

\* What the invariant says of an operation that was sent.
LEMMA SentOperation ==
  ASSUME FlowInv, sent # Nil
  PROVE  /\ stage = "sent" /\ IsUserOperation(op)
         /\ op["nonce"] \in Nat /\ OrZero(op["nonce"]) = op["nonce"]
         /\ Padded(OrZero(op["nonce"]), Word) # Panic
         /\ sent.userOp = MarshalJSON(op) /\ sent.entryPoint = req.entryPoint
         /\ DOMAIN MarshalJSON(op) = Fields
<1>1. /\ stage = "sent" /\ IsUserOperation(op) /\ op["nonce"] \in Nat /\ op["nonce"] < Power[Word]
      /\ sent.userOp = MarshalJSON(op) /\ sent.entryPoint = req.entryPoint
  BY DEF FlowInv, SentInv, CarriedInv, ExecutedInv
<1>2. OrZero(op["nonce"]) = op["nonce"]
  BY <1>1, Values DEF OrZero
<1>3. ByteLen(op["nonce"]) <= Word
  BY <1>1, NumberLaws, Widths
<1>4. Padded(op["nonce"], Word) \in Seq(Byte)
  BY <1>1, <1>3, PaddedFits, Widths
<1>5. Padded(op["nonce"], Word) # Panic
  BY <1>4, Values
<1>6. DOMAIN MarshalJSON(op) = Fields
  BY <1>2, <1>5 DEF MarshalJSON
<1> QED BY <1>1, <1>2, <1>5, <1>6

-----------------------------------------------------------------------------
(* The theorems *)

\* The executor's copy is an operation, and every encoding has all the fields.
THEOREM TypeCorrect == Spec => []TypeOK
<1>1. FlowInv => TypeOK
  <2> SUFFICES ASSUME FlowInv PROVE TypeOK
    OBVIOUS
  <2>1. stage \in Stages /\ (req # Nil => stage # "idle") /\ (row # Nil => stage # "idle")
    BY DEF FlowInv, RegisteredInv
  <2>2. req # Nil => IsUserOperation(req.userOp) /\ req.entryPoint \in EntryPoints
    BY <2>1, Registered DEF FlowInv
  <2>3. row # Nil => DOMAIN row = Fields
    BY <2>1 DEF FlowInv, RegisteredInv, MarshalJSON
  <2>4. job # Nil => IsUserOperation(job)
    BY Registered DEF FlowInv, CarriedInv
  <2>5. queue # Nil => DOMAIN queue = Fields
    BY DEF FlowInv, CarriedInv, DefaultJSON
  <2>6. op # Nil => IsUserOperation(op)
    BY DEF FlowInv, CarriedInv
  <2>7. sent # Nil => DOMAIN sent.userOp = Fields /\ sent.entryPoint \in EntryPoints
    BY SentOperation, Registered DEF FlowInv
  <2> QED BY <2>1, <2>2, <2>3, <2>4, <2>5, <2>6, <2>7 DEF TypeOK
<1> QED BY <1>1, FlowAlways, PTL

\* Through the row and the queue the operation stays what was registered.
THEOREM SurvivesStorageHolds == Spec => []SurvivesStorage
<1>1. FlowInv => SurvivesStorage
  BY DEF FlowInv, CarriedInv, SurvivesStorage, Stored
<1> QED BY <1>1, FlowAlways, PTL

\* What panics the executor's goroutine does not fit.
THEOREM FittingNeverPanicsHolds == Spec => []FittingNeverPanics
<1>1. FlowInv => FittingNeverPanics
  BY DEF FlowInv
<1> QED BY <1>1, FlowAlways, PTL

\* The operations extractNonceKey refuses have key zero.
THEOREM EveryOtherKeyIsExecutableHolds == Spec => []EveryOtherKeyIsExecutable
<1>1. FlowInv => EveryOtherKeyIsExecutable
  BY DEF FlowInv
<1> QED BY <1>1, FlowAlways, PTL

\* ExecuteJob changes no more of the operation than sequence, gas and dummy.
THEOREM OnlyFeesChangeHolds == Spec => []OnlyFeesChange
<1>1. FlowInv => OnlyFeesChange
  <2> SUFFICES ASSUME FlowInv, sent # Nil PROVE OnlyFeesChange
    BY DEF OnlyFeesChange
  <2>1. /\ stage = "sent" /\ IsUserOperation(op) /\ OrZero(op["nonce"]) = op["nonce"]
        /\ Padded(OrZero(op["nonce"]), Word) # Panic /\ sent.userOp = MarshalJSON(op)
    BY SentOperation
  <2>2. UnmarshalJSON(sent.userOp) = Stored(op)
    BY <2>1, RowReadsBack
  <2>3. \A f \in Fields : Stored(op)[f] = op[f]
    BY <2>1, StoredIsOperation
  <2>4. /\ \A f \in Untouched : op[f] = req.userOp[f]
        /\ op["nonce"] \div Power[SeqBytes] = req.userOp["nonce"] \div Power[SeqBytes]
    BY <2>1 DEF FlowInv, ExecutedInv
  <2>5. LET lead == LeadingSignature(req.userOp["signature"]) IN
        /\ op["signature"] = lead \o RealSignature
        /\ req.userOp["signature"] = lead \o DummySignature
    BY <2>1 DEF FlowInv, SignatureInv
  <2>6. Untouched \subseteq Fields
    BY DEF Untouched
  <2> QED BY <2>2, <2>3, <2>4, <2>5, <2>6, FieldKinds DEF OnlyFeesChange
<1> QED BY <1>1, FlowAlways, PTL

\* The signature is over the hash the bundler takes of the request.
THEOREM SignedIsSentHolds == Spec => []SignedIsSent
<1>1. FlowInv => SignedIsSent
  <2> SUFFICES ASSUME FlowInv, sent # Nil, WholeFactory(req.userOp),
                      sent.entryPoint = EntryPointV07
               PROVE  BundlerHash(sent.userOp, sent.entryPoint) = signed
    BY DEF SignedIsSent
  <2>1. /\ stage = "sent" /\ IsUserOperation(op)
        /\ Padded(OrZero(op["nonce"]), Word) # Panic /\ sent.userOp = MarshalJSON(op)
    BY SentOperation
  <2>2. signed = GetUserOpHashV07(op) /\ ~PackPanics(op) /\ BundlerTakes(MarshalJSON(op))
    BY <2>1 DEF FlowInv, SentInv
  <2>3. WholeFactory(op)
    <3>1. \A f \in Untouched : op[f] = req.userOp[f]
      BY <2>1 DEF FlowInv, ExecutedInv
    <3>2. {"factory", "factoryData"} \subseteq Untouched
      BY DEF Untouched, RequiredGas, Fields, OptionalAddresses, OptionalData
    <3> QED BY <3>1, <3>2 DEF WholeFactory
  <2> QED BY <2>1, <2>2, <2>3, HashesAgree
<1> QED BY <1>1, FlowAlways, PTL
=============================================================================
