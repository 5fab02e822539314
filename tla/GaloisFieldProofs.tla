-------------------------- MODULE GaloisFieldProofs --------------------------
(***************************************************************************)
(* The laws of the field that reed_solomon_fec.h computes in when entry    *)
(* 255 of its table holds 1, and of sums over an interval of indices.      *)
(***************************************************************************)
EXTENDS GaloisField, FiniteSetTheorems, WellFoundedInduction, TLAPS

(* A set of natural numbers that is not empty has a least element. *)
LEMMA LeastNatural ==
    ASSUME NEW T \in SUBSET Nat, T # {}
    PROVE  \E n \in T : \A m \in T : n <= m
<1>1. \E n \in T : \A m \in T : <<m, n>> \notin OpToRel(<, Nat)
  BY NatLessThanWellFounded, WFMin, Zenon
<1>2. PICK n \in T : \A m \in T : <<m, n>> \notin OpToRel(<, Nat)
  BY <1>1, Zenon
<1>3. \A m \in T : ~(m < n)
  BY <1>2, Zenon DEF OpToRel
<1> QED BY <1>3

(* Induction up to n, for a set that stands for the property. *)
LEMMA UpTo ==
    ASSUME NEW n \in Nat, NEW P, 0 \in P,
           \A i \in 0..n : i < n /\ i \in P => i + 1 \in P
    PROVE  \A i \in 0..n : i \in P
<1> DEFINE T == {i \in 0..n : i \notin P}
<1>1. SUFFICES ASSUME T # {} PROVE FALSE
  OBVIOUS
<1>2. PICK i \in T : \A m \in T : i <= m
  <2>1. T \in SUBSET Nat
    OBVIOUS
  <2> HIDE DEF T
  <2> QED BY <1>1, <2>1, LeastNatural
<1>3. i # 0 /\ i - 1 \in 0..n /\ i - 1 < n /\ i - 1 \notin T
  BY <1>2
<1> QED BY <1>2, <1>3

-----------------------------------------------------------------------------
(* Addition *)

LEMMA XorLaws ==
    /\ \A a, b \in Byte : Xor(a, b) \in Byte
    /\ \A a, b \in Byte : Xor(a, b) = Xor(b, a)
    /\ \A a, b, c \in Byte : Xor(Xor(a, b), c) = Xor(a, Xor(b, c))
    /\ \A a \in Byte : Xor(a, Zero) = a /\ Xor(Zero, a) = a /\ Xor(a, a) = Zero
    /\ Zero \in Byte /\ One \in Byte /\ One # Zero
BY DEF Xor, Byte, Zero, One

LEMMA XorInterchange ==
    ASSUME NEW a \in Byte, NEW b \in Byte, NEW c \in Byte, NEW d \in Byte
    PROVE  Xor(Xor(a, b), Xor(c, d)) = Xor(Xor(a, c), Xor(b, d))
BY DEF Xor, Byte

(* Bit n of twice a byte is bit n - 1 of it, turned over where 0x11D says so when
   bit 7 is set. *)
LEMMA TwiceBits ==
    ASSUME NEW a \in Byte
    PROVE  Twice(a) = {n \in 0..8 : (n - 1 \in a) # (7 \in a /\ n \in {0, 2, 3, 4, 8})}
<1> DEFINE shifted == {bit + 1 : bit \in a}
<1>1. \A n \in 0..8 : n \in shifted <=> n - 1 \in a
  BY DEF Byte
<1>2. shifted \subseteq 0..8
  BY DEF Byte
<1>3. 8 \in shifted <=> 7 \in a
  BY <1>1
<1>4. Twice(a) = IF 7 \in a THEN Xor(shifted, {0, 2, 3, 4, 8}) ELSE shifted
  BY <1>3 DEF Twice
<1> HIDE DEF shifted
<1>5. CASE 7 \notin a
  <2>1. Twice(a) = shifted
    BY <1>4, <1>5
  <2>2. \A n \in 0..8 : n \in Twice(a) <=> n - 1 \in a
    BY <1>1, <2>1
  <2>3. Twice(a) \subseteq 0..8
    BY <1>2, <2>1
  <2> QED BY <1>5, <2>2, <2>3
<1>6. CASE 7 \in a
  <2>1. Twice(a) = (shifted \ {0, 2, 3, 4, 8}) \cup ({0, 2, 3, 4, 8} \ shifted)
    BY <1>4, <1>6 DEF Xor
  <2>2. \A n \in 0..8 : n \in Twice(a) <=> (n \in shifted) # (n \in {0, 2, 3, 4, 8})
    BY <2>1
  <2>3. Twice(a) \subseteq 0..8
    BY <1>2, <2>1
  <2> QED BY <1>1, <1>6, <2>2, <2>3
<1> QED BY <1>5, <1>6

LEMMA TwiceLaws ==
    /\ Twice(Zero) = Zero
    /\ \A a, b \in Byte : Twice(Xor(a, b)) = Xor(Twice(a), Twice(b))
<1>1. Twice(Zero) = Zero
  BY DEF Twice, Zero
<1>2. ASSUME NEW a \in Byte, NEW b \in Byte
      PROVE  Twice(Xor(a, b)) = Xor(Twice(a), Twice(b))
  <2>1. Xor(a, b) \in Byte
    BY XorLaws
  <2> QED BY <2>1, TwiceBits DEF Xor, Byte
<1> QED BY <1>1, <1>2

-----------------------------------------------------------------------------
(* Multiplication *)

LEMMA PowerZero == Power[0] = One
BY TableAssumption, Zenon

LEMMA PowerType == \A i \in 0..254 : Power[i] \in Byte /\ Power[i] # Zero
BY TableAssumption, Zenon

LEMMA PowerOfLog ==
    \A a \in Byte \ {Zero} : Log[a] \in 0..254 /\ Power[Log[a]] = a
BY TableAssumption, Zenon DEF Log

LEMMA LogOfPower == \A i \in 0..254 : Log[Power[i]] = i
<1> SUFFICES ASSUME NEW i \in 0..254 PROVE Log[Power[i]] = i
  OBVIOUS
<1>1. Power[i] \in Byte \ {Zero}
  BY PowerType
<1>2. Log[Power[i]] \in 0..254 /\ Power[Log[Power[i]]] = Power[i]
  BY <1>1, PowerOfLog, Zenon
<1> QED BY <1>2, TableAssumption, ZenonT(40)

LEMMA EveryByteIsPower == \A a \in Byte \ {Zero} : \E i \in 0..254 : a = Power[i]
BY PowerOfLog, Zenon

(* With 1 in entry 255 the table repeats with period 255 as far as it goes. *)
LEMMA ExpIsPeriodic ==
    ASSUME NEW i \in 0..508
    PROVE  Exp(One, i) = Power[i % 255]
<1>1. CASE i = 255
  BY <1>1, PowerZero DEF Exp
<1> QED BY <1>1 DEF Exp

LEMMA MulOfPowers ==
    ASSUME NEW i \in 0..254, NEW j \in 0..254
    PROVE  Mul(One, Power[i], Power[j]) = Power[(i + j) % 255]
<1>1. Power[i] # Zero /\ Power[j] # Zero
  BY PowerType
<1>2. Log[Power[i]] = i /\ Log[Power[j]] = j
  BY LogOfPower
<1>3. Mul(One, Power[i], Power[j]) = Exp(One, i + j)
  BY <1>1, <1>2 DEF Mul
<1>4. i + j \in 0..508
  OBVIOUS
<1> QED BY <1>3, <1>4, ExpIsPeriodic

(* The same for exponents of any size. *)
LEMMA PowersMultiply ==
    ASSUME NEW a \in Nat, NEW b \in Nat
    PROVE  Mul(One, Power[a % 255], Power[b % 255]) = Power[(a + b) % 255]
<1>1. a % 255 \in 0..254 /\ b % 255 \in 0..254
  OBVIOUS
<1>2. PICK i \in 0..254, j \in 0..254 : i = a % 255 /\ j = b % 255
  BY <1>1
<1>3. (a + b) % 255 = (i + j) % 255
  BY <1>2
<1>4. Mul(One, Power[i], Power[j]) = Power[(i + j) % 255]
  BY MulOfPowers
<1> QED BY <1>2, <1>3, <1>4

LEMMA MulZero ==
    \A end, a : Mul(end, a, Zero) = Zero /\ Mul(end, Zero, a) = Zero
BY DEF Mul

LEMMA MulType ==
    \A a, b \in Byte : Mul(One, a, b) \in Byte
<1> SUFFICES ASSUME NEW a \in Byte, NEW b \in Byte PROVE Mul(One, a, b) \in Byte
  OBVIOUS
<1>1. CASE a = Zero \/ b = Zero
  BY <1>1, MulZero, XorLaws
<1>2. CASE a # Zero /\ b # Zero
  <2>1. PICK i \in 0..254 : a = Power[i]
    BY <1>2, EveryByteIsPower
  <2>2. PICK j \in 0..254 : b = Power[j]
    BY <1>2, EveryByteIsPower
  <2>3. Mul(One, a, b) = Power[(i + j) % 255]
    BY <2>1, <2>2, MulOfPowers, Zenon
  <2>4. (i + j) % 255 \in 0..254
    OBVIOUS
  <2> QED BY <2>3, <2>4, PowerType, Zenon
<1> QED BY <1>1, <1>2

LEMMA MulCommutes ==
    \A a, b \in Byte : Mul(One, a, b) = Mul(One, b, a)
<1> SUFFICES ASSUME NEW a \in Byte, NEW b \in Byte
             PROVE  Mul(One, a, b) = Mul(One, b, a)
  OBVIOUS
<1>1. CASE a = Zero \/ b = Zero
  BY <1>1, MulZero
<1>2. CASE a # Zero /\ b # Zero
  <2>1. PICK i \in 0..254 : a = Power[i]
    BY <1>2, EveryByteIsPower
  <2>2. PICK j \in 0..254 : b = Power[j]
    BY <1>2, EveryByteIsPower
  <2>3. Mul(One, a, b) = Power[(i + j) % 255] /\ Mul(One, b, a) = Power[(j + i) % 255]
    BY <2>1, <2>2, MulOfPowers, ZenonT(40)
  <2>4. (i + j) % 255 = (j + i) % 255
    OBVIOUS
  <2> QED BY <2>3, <2>4, Zenon
<1> QED BY <1>1, <1>2

LEMMA MulOne ==
    \A a \in Byte : Mul(One, a, One) = a /\ Mul(One, One, a) = a
<1> SUFFICES ASSUME NEW a \in Byte PROVE Mul(One, a, One) = a
  BY MulCommutes, XorLaws
<1>1. CASE a = Zero
  BY <1>1, MulZero
<1>2. CASE a # Zero
  <2>1. PICK i \in 0..254 : a = Power[i]
    BY <1>2, EveryByteIsPower
  <2>2. (i + 0) % 255 = i /\ 0 \in 0..254
    OBVIOUS
  <2>3. Mul(One, Power[i], Power[0]) = Power[(i + 0) % 255]
    BY <2>2, MulOfPowers, Zenon
  <2> QED BY <2>1, <2>2, <2>3, PowerZero, Zenon
<1> QED BY <1>1, <1>2

(* gf_mul is associative: logarithms add up, modulo 255. *)
THEOREM MulAssociates ==
    \A a, b, c \in Byte : Mul(One, Mul(One, a, b), c) = Mul(One, a, Mul(One, b, c))
<1> SUFFICES ASSUME NEW a \in Byte, NEW b \in Byte, NEW c \in Byte
             PROVE  Mul(One, Mul(One, a, b), c) = Mul(One, a, Mul(One, b, c))
  OBVIOUS
<1>1. CASE a = Zero \/ b = Zero \/ c = Zero
  BY <1>1, MulZero
<1>2. CASE a # Zero /\ b # Zero /\ c # Zero
  <2>1. PICK i \in 0..254, j \in 0..254, k \in 0..254 :
           a = Power[i] /\ b = Power[j] /\ c = Power[k]
    <3>1. PICK i \in 0..254 : a = Power[i]
      BY <1>2, EveryByteIsPower
    <3>2. PICK j \in 0..254 : b = Power[j]
      BY <1>2, EveryByteIsPower
    <3>3. PICK k \in 0..254 : c = Power[k]
      BY <1>2, EveryByteIsPower
    <3> QED BY <3>1, <3>2, <3>3
  <2> DEFINE m == (i + j) % 255
             n == (j + k) % 255
  <2>2. m \in 0..254 /\ n \in 0..254 /\ (m + k) % 255 = (i + n) % 255
    OBVIOUS
  <2>3. Mul(One, a, b) = Power[m] /\ Mul(One, b, c) = Power[n]
    BY <2>1, MulOfPowers, ZenonT(40)
  <2> HIDE DEF m, n
  <2>4. /\ Mul(One, Power[m], Power[k]) = Power[(m + k) % 255]
        /\ Mul(One, Power[i], Power[n]) = Power[(i + n) % 255]
    BY <2>2, MulOfPowers, ZenonT(40)
  <2> QED BY <2>1, <2>2, <2>3, <2>4
<1> QED BY <1>1, <1>2

(* gf_inv gives the inverse of every byte but zero. *)
THEOREM InvIsInverse ==
    ASSUME NEW a \in Byte \ {Zero}
    PROVE  Inv(One, a) \in Byte /\ Mul(One, a, Inv(One, a)) = One
<1>1. PICK i \in 0..254 : a = Power[i]
  BY EveryByteIsPower
<1> DEFINE n == (255 - i) % 255
<1>2. n \in 0..254 /\ (i + n) % 255 = 0 /\ 255 - i \in 0..508
  OBVIOUS
<1>3. Inv(One, a) = Power[n]
  <2>1. a # Zero /\ Log[a] = i
    BY <1>1, LogOfPower, Zenon
  <2>2. Exp(One, 255 - i) = Power[n]
    BY <1>2, ExpIsPeriodic, ZenonT(40)
  <2> QED BY <2>1, <2>2 DEF Inv
<1> HIDE DEF n
<1>4. Mul(One, Power[i], Power[n]) = Power[(i + n) % 255]
  BY <1>2, MulOfPowers, ZenonT(40)
<1>5. Mul(One, a, Inv(One, a)) = One
  BY <1>1, <1>2, <1>3, <1>4, PowerZero
<1> QED BY <1>2, <1>3, <1>5, PowerType

(* A product is zero only if a factor is. *)
LEMMA NoZeroDivisors ==
    ASSUME NEW a \in Byte, NEW c \in Byte, c # Zero, Mul(One, a, c) = Zero
    PROVE  a = Zero
<1>1. PICK inv \in Byte : Mul(One, c, inv) = One
  BY InvIsInverse
<1>2. Mul(One, Mul(One, a, c), inv) = Mul(One, a, Mul(One, c, inv))
  BY <1>1, MulAssociates
<1> QED BY <1>1, <1>2, MulOne, MulZero

(* Multiplying by the next power is doubling ... *)
LEMMA MulByNextPower ==
    ASSUME NEW i \in 0..254, i < 254, NEW a \in Byte
    PROVE  Mul(One, Power[i + 1], a) = Twice(Mul(One, Power[i], a))
<1>1. CASE a = Zero
  BY <1>1, MulZero, TwiceLaws
<1>2. CASE a # Zero
  <2>1. PICK j \in 0..254 : a = Power[j]
    BY <1>2, EveryByteIsPower
  <2> DEFINE m == (i + j) % 255
  <2>2. m \in 0..254 /\ i + 1 \in 0..254 /\ (i + 1 + j) % 255 = (m + 1) % 255
    OBVIOUS
  <2>3. Mul(One, Power[i], a) = Power[m]
    BY <2>1, MulOfPowers, ZenonT(40)
  <2>4. Mul(One, Power[i + 1], Power[j]) = Power[(i + 1 + j) % 255]
    BY <2>2, MulOfPowers, ZenonT(40)
  <2> HIDE DEF m
  <2>5. Twice(Power[m]) = Power[(m + 1) % 255]
    BY <2>2, TableAssumption, Zenon
  <2> QED BY <2>1, <2>2, <2>3, <2>4, <2>5
<1> QED BY <1>1, <1>2

(* ... so that gf_mul distributes over gf_add because doubling does. *)
THEOREM MulDistributes ==
    \A a, b, c \in Byte :
        Mul(One, a, Xor(b, c)) = Xor(Mul(One, a, b), Mul(One, a, c))
<1> SUFFICES ASSUME NEW a \in Byte, NEW b \in Byte, NEW c \in Byte
             PROVE  Mul(One, a, Xor(b, c)) = Xor(Mul(One, a, b), Mul(One, a, c))
  OBVIOUS
<1>1. CASE a = Zero
  BY <1>1, MulZero, XorLaws
<1>2. CASE a # Zero
  <2> DEFINE D(n) == Mul(One, Power[n], Xor(b, c))
                       = Xor(Mul(One, Power[n], b), Mul(One, Power[n], c))
             P == {n \in 0..254 : D(n)}
  <2>1. 0 \in P
    BY PowerZero, MulOne, XorLaws
  <2>2. ASSUME NEW n \in 0..254, n < 254, n \in P
        PROVE  n + 1 \in P
    <3>1. n + 1 \in 0..254
      BY <2>2
    <3>2. Xor(b, c) \in Byte /\ Mul(One, Power[n], b) \in Byte /\ Mul(One, Power[n], c) \in Byte
      BY XorLaws, MulType, PowerType
    <3>3. /\ Mul(One, Power[n + 1], Xor(b, c)) = Twice(Mul(One, Power[n], Xor(b, c)))
          /\ Mul(One, Power[n + 1], b) = Twice(Mul(One, Power[n], b))
          /\ Mul(One, Power[n + 1], c) = Twice(Mul(One, Power[n], c))
      BY <2>2, <3>2, MulByNextPower
    <3>4. D(n)
      BY <2>2
    <3>5. D(n + 1)
      BY <3>2, <3>3, <3>4, TwiceLaws
    <3> QED BY <3>1, <3>5
  <2> HIDE DEF P
  <2>3. \A n \in 0..254 : n \in P
    BY <2>1, <2>2, UpTo
  <2>4. PICK n \in 0..254 : a = Power[n]
    BY <1>2, EveryByteIsPower
  <2> QED BY <2>3, <2>4 DEF P
<1> QED BY <1>1, <1>2

-----------------------------------------------------------------------------
(* Sums *)

(* The xor of f[0], ..., f[n - 1]. *)
Sum(n, f) == XorOver(0..n - 1, f)

LEMMA SumType == ASSUME NEW n, NEW f PROVE Sum(n, f) \in Byte
BY DEF Sum, XorOver, Byte

LEMMA SumOfNone == ASSUME NEW f PROVE Sum(0, f) = Zero
<1>1. \A bit \in 0..7 : {j \in 0..0 - 1 : bit \in f[j]} = {}
  OBVIOUS
<1>2. Cardinality({}) = 0 /\ 0 % 2 # 1
  BY FS_EmptySet
<1> QED BY <1>1, <1>2, Zenon DEF Sum, XorOver, Zero

(* One summand more turns over the bits it has. *)
LEMMA SumOfNext ==
    ASSUME NEW n \in Nat, NEW f, f[n] \in Byte
    PROVE  Sum(n + 1, f) = Xor(Sum(n, f), f[n])
<1> DEFINE T(m, bit) == {j \in 0..m - 1 : bit \in f[j]}
<1>1. ASSUME NEW bit \in 0..7
      PROVE  (bit \in Sum(n + 1, f)) <=> ((bit \in Sum(n, f)) # (bit \in f[n]))
  <2>1. IsFiniteSet(T(n, bit)) /\ Cardinality(T(n, bit)) \in Nat
    <3>1. IsFiniteSet(0..n - 1)
      BY FS_Interval
    <3>2. T(n, bit) \in SUBSET (0..n - 1)
      OBVIOUS
    <3> HIDE DEF T
    <3> QED BY <3>1, <3>2, FS_Subset, FS_CardinalityType
  <2>2. n \notin T(n, bit)
    OBVIOUS
  <2>3. CASE bit \in f[n]
    <3>1. T(n + 1, bit) = T(n, bit) \cup {n}
      BY <2>3
    <3>2. Cardinality(T(n + 1, bit)) = Cardinality(T(n, bit)) + 1
      BY <2>1, <2>2, <3>1, FS_AddElement, Zenon
    <3>3. bit \in Sum(n, f) <=> Cardinality(T(n, bit)) % 2 = 1
      BY DEF Sum, XorOver
    <3>4. bit \in Sum(n + 1, f) <=> Cardinality(T(n + 1, bit)) % 2 = 1
      BY DEF Sum, XorOver
    <3> HIDE DEF T
    <3> QED BY <2>1, <2>3, <3>2, <3>3, <3>4
  <2>4. CASE bit \notin f[n]
    <3>1. T(n + 1, bit) = T(n, bit)
      BY <2>4
    <3>2. bit \in Sum(n, f) <=> Cardinality(T(n, bit)) % 2 = 1
      BY DEF Sum, XorOver
    <3>3. bit \in Sum(n + 1, f) <=> Cardinality(T(n + 1, bit)) % 2 = 1
      BY DEF Sum, XorOver
    <3> HIDE DEF T
    <3> QED BY <2>4, <3>1, <3>2, <3>3
  <2> QED BY <2>3, <2>4
<1>2. Sum(n, f) \subseteq 0..7 /\ Sum(n + 1, f) \subseteq 0..7 /\ f[n] \subseteq 0..7
  BY SumType DEF Byte
<1> QED BY <1>1, <1>2 DEF Xor

LEMMA SumOfEqual ==
    ASSUME NEW n \in Nat, NEW f, NEW g, \A j \in 0..n - 1 : f[j] = g[j]
    PROVE  Sum(n, f) = Sum(n, g)
<1>1. \A bit \in 0..7 : {j \in 0..n - 1 : bit \in f[j]} = {j \in 0..n - 1 : bit \in g[j]}
  OBVIOUS
<1> QED BY <1>1, Zenon DEF Sum, XorOver

LEMMA SumOfZeros ==
    ASSUME NEW n \in Nat, NEW f, \A j \in 0..n - 1 : f[j] = Zero
    PROVE  Sum(n, f) = Zero
<1>1. \A bit \in 0..7 : {j \in 0..n - 1 : bit \in f[j]} = {}
  BY DEF Zero
<1>2. Cardinality({}) = 0 /\ 0 % 2 # 1
  BY FS_EmptySet
<1> QED BY <1>1, <1>2, Zenon DEF Sum, XorOver, Zero

(* A sum of which one summand is not zero. *)
LEMMA SumOfOne ==
    ASSUME NEW n \in Nat, NEW f, NEW i \in 0..n - 1, f[i] \in Byte,
           \A j \in 0..n - 1 : j # i => f[j] = Zero
    PROVE  Sum(n, f) = f[i]
<1>1. ASSUME NEW bit \in 0..7
      PROVE  Cardinality({j \in 0..n - 1 : bit \in f[j]}) % 2 = 1 <=> bit \in f[i]
  <2>1. CASE bit \in f[i]
    <3>1. {j \in 0..n - 1 : bit \in f[j]} = {i}
      BY <2>1 DEF Zero
    <3>2. Cardinality({i}) = 1
      BY FS_Singleton, Zenon
    <3>3. 1 % 2 = 1
      OBVIOUS
    <3> QED BY <2>1, <3>1, <3>2, <3>3, Zenon
  <2>2. CASE bit \notin f[i]
    <3>1. {j \in 0..n - 1 : bit \in f[j]} = {}
      BY <2>2 DEF Zero
    <3>2. Cardinality({}) = 0 /\ 0 % 2 # 1
      BY FS_EmptySet
    <3> QED BY <2>2, <3>1, <3>2, Zenon
  <2> QED BY <2>1, <2>2
<1>2. f[i] \subseteq 0..7
  BY DEF Byte
<1> QED BY <1>1, <1>2 DEF Sum, XorOver

LEMMA SumOfSums ==
    ASSUME NEW n \in Nat, NEW f, NEW g, NEW h,
           \A j \in 0..n - 1 : f[j] \in Byte /\ g[j] \in Byte /\ h[j] = Xor(f[j], g[j])
    PROVE  Sum(n, h) = Xor(Sum(n, f), Sum(n, g))
<1> DEFINE D(m) == Sum(m, h) = Xor(Sum(m, f), Sum(m, g))
           P == {m \in 0..n : D(m)}
<1>1. 0 \in P
  BY SumOfNone, XorLaws
<1>2. ASSUME NEW m \in 0..n, m < n, m \in P
      PROVE  m + 1 \in P
  <2>1. f[m] \in Byte /\ g[m] \in Byte /\ h[m] = Xor(f[m], g[m]) /\ h[m] \in Byte
    BY <1>2, XorLaws
  <2>2. /\ Sum(m + 1, f) = Xor(Sum(m, f), f[m])
        /\ Sum(m + 1, g) = Xor(Sum(m, g), g[m])
        /\ Sum(m + 1, h) = Xor(Sum(m, h), h[m])
    BY <2>1, SumOfNext
  <2>3. Sum(m, f) \in Byte /\ Sum(m, g) \in Byte
    BY SumType
  <2>4. D(m + 1)
    BY <1>2, <2>1, <2>2, <2>3, XorInterchange
  <2> QED BY <1>2, <2>4
<1> HIDE DEF P
<1>3. n \in P
  BY <1>1, <1>2, UpTo
<1> QED BY <1>3 DEF P

LEMMA SumOfPair ==
    ASSUME NEW n \in Nat, NEW f, NEW i \in 0..n - 1, NEW j \in 0..n - 1, i # j,
           f[i] \in Byte, f[j] \in Byte,
           \A l \in 0..n - 1 : l # i /\ l # j => f[l] = Zero
    PROVE  Sum(n, f) = Xor(f[i], f[j])
<1> DEFINE g == [l \in 0..n - 1 |-> IF l = i THEN f[i] ELSE Zero]
           h == [l \in 0..n - 1 |-> IF l = j THEN f[j] ELSE Zero]
<1>1. \A l \in 0..n - 1 : g[l] \in Byte /\ h[l] \in Byte /\ f[l] = Xor(g[l], h[l])
  BY XorLaws
<1>2. /\ g[i] = f[i] /\ \A l \in 0..n - 1 : l # i => g[l] = Zero
      /\ h[j] = f[j] /\ \A l \in 0..n - 1 : l # j => h[l] = Zero
  OBVIOUS
<1> HIDE DEF g, h
<1>3. Sum(n, f) = Xor(Sum(n, g), Sum(n, h))
  BY <1>1, SumOfSums
<1>4. Sum(n, g) = g[i]
  <2>1. g[i] \in Byte /\ \A l \in 0..n - 1 : l # i => g[l] = Zero
    BY <1>1, <1>2
  <2> QED BY <2>1, SumOfOne
<1>5. Sum(n, h) = h[j]
  <2>1. h[j] \in Byte /\ \A l \in 0..n - 1 : l # j => h[l] = Zero
    BY <1>1, <1>2
  <2> QED BY <2>1, SumOfOne
<1> QED BY <1>2, <1>3, <1>4, <1>5

LEMMA SumOfThree ==
    ASSUME NEW n \in Nat, NEW f, NEW i \in 0..n - 1, NEW j \in 0..n - 1, NEW m \in 0..n - 1,
           i # j, i # m, j # m, f[i] \in Byte, f[j] \in Byte, f[m] \in Byte,
           \A l \in 0..n - 1 : l # i /\ l # j /\ l # m => f[l] = Zero
    PROVE  Sum(n, f) = Xor(Xor(f[i], f[j]), f[m])
<1> DEFINE g == [l \in 0..n - 1 |-> IF l = m THEN Zero ELSE f[l]]
           h == [l \in 0..n - 1 |-> IF l = m THEN f[m] ELSE Zero]
<1>1. \A l \in 0..n - 1 : g[l] \in Byte /\ h[l] \in Byte /\ f[l] = Xor(g[l], h[l])
  BY XorLaws
<1>2. /\ g[i] = f[i] /\ g[j] = f[j] /\ \A l \in 0..n - 1 : l # i /\ l # j => g[l] = Zero
      /\ h[m] = f[m] /\ \A l \in 0..n - 1 : l # m => h[l] = Zero
  OBVIOUS
<1> HIDE DEF g, h
<1>3. Sum(n, f) = Xor(Sum(n, g), Sum(n, h))
  BY <1>1, SumOfSums
<1>4. Sum(n, g) = Xor(g[i], g[j])
  <2>1. g[i] \in Byte /\ g[j] \in Byte
    BY <1>2
  <2> QED BY <1>2, <2>1, SumOfPair
<1>5. Sum(n, h) = h[m]
  <2>1. h[m] \in Byte
    BY <1>2
  <2> QED BY <1>2, <2>1, SumOfOne
<1> QED BY <1>2, <1>3, <1>4, <1>5

LEMMA SumOfMultiples ==
    ASSUME NEW n \in Nat, NEW c \in Byte, NEW f, NEW h,
           \A j \in 0..n - 1 : f[j] \in Byte /\ h[j] = Mul(One, c, f[j])
    PROVE  Sum(n, h) = Mul(One, c, Sum(n, f))
<1> DEFINE D(m) == Sum(m, h) = Mul(One, c, Sum(m, f))
           P == {m \in 0..n : D(m)}
<1>1. 0 \in P
  BY SumOfNone, MulZero
<1>2. ASSUME NEW m \in 0..n, m < n, m \in P
      PROVE  m + 1 \in P
  <2>1. f[m] \in Byte /\ h[m] = Mul(One, c, f[m]) /\ h[m] \in Byte
    BY <1>2, MulType
  <2>2. Sum(m + 1, f) = Xor(Sum(m, f), f[m]) /\ Sum(m + 1, h) = Xor(Sum(m, h), h[m])
    BY <2>1, SumOfNext
  <2>3. D(m + 1)
    BY <1>2, <2>1, <2>2, SumType, MulDistributes
  <2> QED BY <1>2, <2>3
<1> HIDE DEF P
<1>3. n \in P
  BY <1>1, <1>2, UpTo
<1> QED BY <1>3 DEF P

(* The order of summation does not matter. *)
LEMMA SumsCommute ==
    ASSUME NEW n \in Nat, NEW k \in Nat, NEW F,
           \A j \in 0..n - 1, i \in 0..k - 1 : F[j][i] \in Byte
    PROVE  Sum(n, [j \in 0..n - 1 |-> Sum(k, F[j])])
             = Sum(k, [i \in 0..k - 1 |-> Sum(n, [j \in 0..n - 1 |-> F[j][i]])])
<1> DEFINE rows == [j \in 0..n - 1 |-> Sum(k, F[j])]
           col(i) == [j \in 0..n - 1 |-> F[j][i]]
           cols(m) == [i \in 0..k - 1 |-> Sum(m, col(i))]
           D(m) == Sum(m, rows) = Sum(k, cols(m))
           P == {m \in 0..n : D(m)}
<1>1. 0 \in P
  <2>1. \A i \in 0..k - 1 : cols(0)[i] = Zero
    BY SumOfNone
  <2> HIDE DEF rows, cols
  <2>2. Sum(0, rows) = Zero /\ Sum(k, cols(0)) = Zero
    BY <2>1, SumOfNone, SumOfZeros
  <2> QED BY <2>2
<1>2. ASSUME NEW m \in 0..n, m < n, m \in P
      PROVE  m + 1 \in P
  <2>1. rows[m] = Sum(k, F[m]) /\ rows[m] \in Byte
    BY <1>2, SumType
  <2>2. \A i \in 0..k - 1 :
           /\ F[m][i] \in Byte /\ cols(m)[i] \in Byte
           /\ cols(m + 1)[i] = Xor(cols(m)[i], F[m][i])
    <3> SUFFICES ASSUME NEW i \in 0..k - 1
                 PROVE  /\ F[m][i] \in Byte /\ Sum(m, col(i)) \in Byte
                        /\ Sum(m + 1, col(i)) = Xor(Sum(m, col(i)), F[m][i])
      OBVIOUS
    <3>1. F[m][i] \in Byte /\ col(i)[m] = F[m][i]
      BY <1>2
    <3> HIDE DEF col
    <3> QED BY <3>1, SumType, SumOfNext
  <2> HIDE DEF rows, cols
  <2>3. Sum(m + 1, rows) = Xor(Sum(m, rows), Sum(k, F[m]))
    BY <2>1, SumOfNext
  <2>4. Sum(k, cols(m + 1)) = Xor(Sum(k, cols(m)), Sum(k, F[m]))
    BY <2>2, SumOfSums
  <2>5. D(m + 1)
    BY <1>2, <2>3, <2>4
  <2> QED BY <1>2, <2>5
<1> HIDE DEF P
<1>3. n \in P
  BY <1>1, <1>2, UpTo
<1> QED BY <1>3 DEF P

(* Squaring is additive. *)
LEMMA SquareOfSum ==
    ASSUME NEW a \in Byte, NEW b \in Byte
    PROVE  Mul(One, Xor(a, b), Xor(a, b)) = Xor(Mul(One, a, a), Mul(One, b, b))
<1>1. PICK c \in Byte : c = Xor(a, b)
  BY XorLaws
<1>2. Mul(One, c, Xor(a, b)) = Xor(Mul(One, c, a), Mul(One, c, b))
  BY MulDistributes
<1>3. Mul(One, c, a) = Xor(Mul(One, a, a), Mul(One, a, b))
  BY <1>1, MulDistributes, MulCommutes
<1>4. Mul(One, c, b) = Xor(Mul(One, a, b), Mul(One, b, b))
  BY <1>1, MulDistributes, MulCommutes
<1>5. PICK aa \in Byte, ab \in Byte, bb \in Byte :
          aa = Mul(One, a, a) /\ ab = Mul(One, a, b) /\ bb = Mul(One, b, b)
  BY MulType
<1>6. Xor(Xor(aa, ab), Xor(ab, bb)) = Xor(aa, bb)
  BY DEF Xor
<1> QED BY <1>1, <1>2, <1>3, <1>4, <1>5, <1>6

-----------------------------------------------------------------------------
(* The start of the table *)

(* Bit by bit, twice a is b. *)
Doubled(a, b) ==
    /\ b \subseteq 0..7
    /\ (0 \in b <=> 7 \in a) /\ (1 \in b <=> 0 \in a)
    /\ (2 \in b <=> (1 \in a) # (7 \in a)) /\ (3 \in b <=> (2 \in a) # (7 \in a))
    /\ (4 \in b <=> (3 \in a) # (7 \in a)) /\ (5 \in b <=> 4 \in a)
    /\ (6 \in b <=> 5 \in a) /\ (7 \in b <=> 6 \in a)

LEMMA FirstPowers ==
    /\ Power[0] = {0} /\ Power[1] = {1} /\ Power[2] = {2} /\ Power[3] = {3}
    /\ Power[4] = {4} /\ Power[5] = {5} /\ Power[6] = {6} /\ Power[7] = {7}
    /\ Power[8] = {0, 2, 3, 4} /\ Power[9] = {1, 3, 4, 5}
    /\ Power[10] = {2, 4, 5, 6} /\ Power[11] = {3, 5, 6, 7}
    /\ Power[12] = {0, 2, 3, 6, 7} /\ Power[13] = {0, 1, 2, 7}
    /\ Power[14] = {0, 1, 4} /\ Power[15] = {1, 2, 5}
    /\ Power[16] = {2, 3, 6} /\ Power[17] = {3, 4, 7}
    /\ Power[18] = {0, 2, 3, 5} /\ Power[19] = {1, 3, 4, 6}
    /\ Power[20] = {2, 4, 5, 7} /\ Power[21] = {0, 2, 4, 5, 6}
<1>1. ASSUME NEW i \in Nat, NEW j \in Nat, j = i + 1, j <= 254
      PROVE  Doubled(Power[i], Power[j])
  <2>1. (i + 1) % 255 = j /\ i \in 0..254 /\ j \in 0..254
    BY <1>1
  <2>2. Twice(Power[i]) = Power[(i + 1) % 255]
    BY <2>1, TableAssumption, Zenon
  <2>3. Power[i] \in Byte
    BY <2>1, PowerType
  <2>4. Power[j] = Twice(Power[i])
    BY <2>1, <2>2
  <2>5. Twice(Power[i]) = {n \in 0..8 : (n - 1 \in Power[i]) # (7 \in Power[i] /\ n \in {0, 2, 3, 4, 8})}
    BY <2>3, TwiceBits
  <2>6. Power[j] \in Byte
    BY <2>1, PowerType
  <2>7. PICK a \in Byte, b \in Byte : a = Power[i] /\ b = Power[j]
    BY <2>3, <2>6
  <2>8. \A n \in 0..8 : n \in b <=> (n - 1 \in a) # (7 \in a /\ n \in {0, 2, 3, 4, 8})
    BY <2>4, <2>5, <2>7
  <2>9. -1 \notin a /\ b \subseteq 0..7
    BY DEF Byte
  <2>10. Doubled(a, b)
    BY <2>8, <2>9 DEF Doubled
  <2> QED BY <2>7, <2>10
<1>2. Power[0] = {0}
  BY PowerZero DEF One
<1>3. Power[1] = {1}
  <2>1. Doubled(Power[0], Power[1])
    BY <1>1
  <2> QED BY <1>2, <2>1 DEF Doubled
<1>4. Power[2] = {2}
  <2>1. Doubled(Power[1], Power[2])
    BY <1>1
  <2> QED BY <1>3, <2>1 DEF Doubled
<1>5. Power[3] = {3}
  <2>1. Doubled(Power[2], Power[3])
    BY <1>1
  <2> QED BY <1>4, <2>1 DEF Doubled
<1>6. Power[4] = {4}
  <2>1. Doubled(Power[3], Power[4])
    BY <1>1
  <2> QED BY <1>5, <2>1 DEF Doubled
<1>7. Power[5] = {5}
  <2>1. Doubled(Power[4], Power[5])
    BY <1>1
  <2> QED BY <1>6, <2>1 DEF Doubled
<1>8. Power[6] = {6}
  <2>1. Doubled(Power[5], Power[6])
    BY <1>1
  <2> QED BY <1>7, <2>1 DEF Doubled
<1>9. Power[7] = {7}
  <2>1. Doubled(Power[6], Power[7])
    BY <1>1
  <2> QED BY <1>8, <2>1 DEF Doubled
<1>10. Power[8] = {0, 2, 3, 4}
  <2>1. Doubled(Power[7], Power[8])
    BY <1>1
  <2> QED BY <1>9, <2>1 DEF Doubled
<1>11. Power[9] = {1, 3, 4, 5}
  <2>1. Doubled(Power[8], Power[9])
    BY <1>1
  <2> QED BY <1>10, <2>1 DEF Doubled
<1>12. Power[10] = {2, 4, 5, 6}
  <2>1. Doubled(Power[9], Power[10])
    BY <1>1
  <2> QED BY <1>11, <2>1 DEF Doubled
<1>13. Power[11] = {3, 5, 6, 7}
  <2>1. Doubled(Power[10], Power[11])
    BY <1>1
  <2> QED BY <1>12, <2>1 DEF Doubled
<1>14. Power[12] = {0, 2, 3, 6, 7}
  <2>1. Doubled(Power[11], Power[12])
    BY <1>1
  <2> QED BY <1>13, <2>1 DEF Doubled
<1>15. Power[13] = {0, 1, 2, 7}
  <2>1. Doubled(Power[12], Power[13])
    BY <1>1
  <2> QED BY <1>14, <2>1 DEF Doubled
<1>16. Power[14] = {0, 1, 4}
  <2>1. Doubled(Power[13], Power[14])
    BY <1>1
  <2> QED BY <1>15, <2>1 DEF Doubled
<1>17. Power[15] = {1, 2, 5}
  <2>1. Doubled(Power[14], Power[15])
    BY <1>1
  <2> QED BY <1>16, <2>1 DEF Doubled
<1>18. Power[16] = {2, 3, 6}
  <2>1. Doubled(Power[15], Power[16])
    BY <1>1
  <2> QED BY <1>17, <2>1 DEF Doubled
<1>19. Power[17] = {3, 4, 7}
  <2>1. Doubled(Power[16], Power[17])
    BY <1>1
  <2> QED BY <1>18, <2>1 DEF Doubled
<1>20. Power[18] = {0, 2, 3, 5}
  <2>1. Doubled(Power[17], Power[18])
    BY <1>1
  <2> QED BY <1>19, <2>1 DEF Doubled
<1>21. Power[19] = {1, 3, 4, 6}
  <2>1. Doubled(Power[18], Power[19])
    BY <1>1
  <2> QED BY <1>20, <2>1 DEF Doubled
<1>22. Power[20] = {2, 4, 5, 7}
  <2>1. Doubled(Power[19], Power[20])
    BY <1>1
  <2> QED BY <1>21, <2>1 DEF Doubled
<1>23. Power[21] = {0, 2, 4, 5, 6}
  <2>1. Doubled(Power[20], Power[21])
    BY <1>1
  <2> QED BY <1>22, <2>1 DEF Doubled
<1> QED BY <1>2, <1>3, <1>4, <1>5, <1>6, <1>7, <1>8, <1>9, <1>10, <1>11, <1>12, <1>13, <1>14, <1>15, <1>16, <1>17, <1>18, <1>19, <1>20, <1>21, <1>22, <1>23

(* The least trinomial with the generator as a root is of degree 21. *)
LEMMA NoTrinomial ==
    ASSUME NEW i \in 1..20, NEW j \in 1..20
    PROVE  Xor(Power[i], Power[j]) # One
BY FirstPowers DEF Xor, One

LEMMA Trinomial == Xor(Xor(One, Power[10]), Power[21]) = Zero
BY FirstPowers DEF Xor, One, Zero

-----------------------------------------------------------------------------
(* Elements apart from each other *)

LEMMA XorOfDifferent ==
    ASSUME NEW a \in Byte, NEW b \in Byte, a # b
    PROVE  Xor(a, b) \in Byte /\ Xor(a, b) # Zero
BY DEF Xor, Byte, Zero

(* Two equations in two bytes whose determinant is not zero. *)
Crossed(p, q, r, t, y, z) ==
    /\ Mul(One, p, y) = Mul(One, q, z)
    /\ Mul(One, r, y) = Mul(One, t, z)
    /\ Mul(One, p, t) # Mul(One, q, r)

LEMMA TwoByTwo ==
    ASSUME NEW p \in Byte, NEW q \in Byte, NEW r \in Byte, NEW t \in Byte,
           NEW y \in Byte, NEW z \in Byte, Crossed(p, q, r, t, y, z)
    PROVE  y = Zero
<1>1. Mul(One, Mul(One, p, t), y) = Mul(One, t, Mul(One, p, y))
  BY MulAssociates, MulCommutes
<1>2. Mul(One, t, Mul(One, q, z)) = Mul(One, q, Mul(One, t, z))
  <2>1. Mul(One, Mul(One, t, q), z) = Mul(One, t, Mul(One, q, z))
    BY MulAssociates
  <2>2. Mul(One, Mul(One, q, t), z) = Mul(One, q, Mul(One, t, z))
    BY MulAssociates
  <2> QED BY <2>1, <2>2, MulCommutes
<1>3. Mul(One, q, Mul(One, r, y)) = Mul(One, Mul(One, q, r), y)
  BY MulAssociates
<1>4. PICK m \in Byte, n \in Byte : m = Mul(One, p, t) /\ n = Mul(One, q, r)
  BY MulType
<1>5. Mul(One, m, y) = Mul(One, n, y)
  BY <1>1, <1>2, <1>3, <1>4 DEF Crossed
<1>6. Xor(m, n) \in Byte /\ Xor(m, n) # Zero
  BY <1>4, XorOfDifferent DEF Crossed
<1>7. Mul(One, y, Xor(m, n)) = Zero
  <2>1. Mul(One, y, Xor(m, n)) = Xor(Mul(One, y, m), Mul(One, y, n))
    BY MulDistributes
  <2> QED BY <1>5, <2>1, MulType, MulCommutes, XorLaws
<1> QED BY <1>6, <1>7, NoZeroDivisors

(* v^2 + uv and w^2 + uw differ by v + w times u + v + w. *)
LEMMA SquaresApart ==
    ASSUME NEW u \in Byte, NEW v \in Byte, NEW w \in Byte, v # w, Xor(v, w) # u
    PROVE  Mul(One, v, Xor(v, u)) # Mul(One, w, Xor(w, u))
<1> SUFFICES ASSUME Mul(One, v, Xor(v, u)) = Mul(One, w, Xor(w, u))
             PROVE  FALSE
  OBVIOUS
<1>1. PICK s \in Byte : s = Xor(v, w) /\ s # Zero
  BY XorOfDifferent
<1>2. PICK vv \in Byte, ww \in Byte, vu \in Byte, wu \in Byte :
          /\ vv = Mul(One, v, v) /\ ww = Mul(One, w, w)
          /\ vu = Mul(One, v, u) /\ wu = Mul(One, w, u)
  BY MulType
<1>3. Xor(vv, vu) = Xor(ww, wu)
  BY <1>2, MulDistributes
<1>4. Xor(vv, ww) = Xor(vu, wu)
  BY <1>3 DEF Xor
<1>5. Mul(One, s, s) = Xor(vv, ww)
  BY <1>1, <1>2, SquareOfSum
<1>6. Mul(One, s, u) = Xor(vu, wu)
  <2>1. Mul(One, u, s) = Xor(Mul(One, u, v), Mul(One, u, w))
    BY <1>1, MulDistributes
  <2> QED BY <1>2, <2>1, MulCommutes
<1>7. Mul(One, s, Xor(s, u)) = Zero
  BY <1>4, <1>5, <1>6, MulDistributes, MulType, XorLaws
<1>8. Xor(s, u) \in Byte /\ Xor(s, u) # Zero
  BY <1>1, XorOfDifferent
<1> QED BY <1>1, <1>7, <1>8, NoZeroDivisors

(* v^2 (w + u) and w^2 (v + u) differ by v + w times uv + uw + vw. *)
LEMMA ProductsApart ==
    ASSUME NEW u \in Byte, NEW v \in Byte, NEW w \in Byte, v # w,
           Mul(One, u, Xor(v, w)) # Mul(One, v, w)
    PROVE  Mul(One, Mul(One, v, v), Xor(w, u)) # Mul(One, Mul(One, w, w), Xor(v, u))
<1> SUFFICES ASSUME Mul(One, Mul(One, v, v), Xor(w, u)) = Mul(One, Mul(One, w, w), Xor(v, u))
             PROVE  FALSE
  OBVIOUS
<1>1. PICK s \in Byte : s = Xor(v, w) /\ s # Zero
  BY XorOfDifferent
<1>2. PICK vv \in Byte, ww \in Byte, vw \in Byte :
          vv = Mul(One, v, v) /\ ww = Mul(One, w, w) /\ vw = Mul(One, v, w)
  BY MulType
<1>3. PICK vvw \in Byte, vvu \in Byte, wwv \in Byte, wwu \in Byte :
          /\ vvw = Mul(One, vv, w) /\ vvu = Mul(One, vv, u)
          /\ wwv = Mul(One, ww, v) /\ wwu = Mul(One, ww, u)
  BY MulType
<1>4. Xor(vvw, vvu) = Xor(wwv, wwu)
  BY <1>2, <1>3, MulDistributes
<1>5. Xor(vvw, wwv) = Xor(vvu, wwu)
  BY <1>4 DEF Xor
<1>6. Mul(One, s, vw) = Xor(vvw, wwv)
  <2>1. Mul(One, vw, s) = Xor(Mul(One, vw, v), Mul(One, vw, w))
    BY <1>1, MulDistributes
  <2>2. Mul(One, vw, v) = vvw
    <3>1. Mul(One, v, Mul(One, v, w)) = Mul(One, Mul(One, v, v), w)
      BY MulAssociates
    <3> QED BY <1>2, <1>3, <3>1, MulCommutes
  <2>3. Mul(One, vw, w) = wwv
    <3>1. Mul(One, Mul(One, v, w), w) = Mul(One, v, Mul(One, w, w))
      BY MulAssociates
    <3> QED BY <1>2, <1>3, <3>1, MulCommutes
  <2> QED BY <2>1, <2>2, <2>3, MulCommutes
<1>7. Mul(One, s, Mul(One, u, s)) = Xor(vvu, wwu)
  <2>1. Mul(One, s, Mul(One, u, s)) = Mul(One, u, Mul(One, s, s))
    BY MulAssociates, MulCommutes
  <2>2. Mul(One, s, s) = Xor(vv, ww)
    BY <1>1, <1>2, SquareOfSum
  <2>3. Mul(One, u, Xor(vv, ww)) = Xor(Mul(One, u, vv), Mul(One, u, ww))
    BY MulDistributes
  <2> QED BY <1>3, <2>1, <2>2, <2>3, MulCommutes
<1>8. PICK us \in Byte : us = Mul(One, u, s)
  BY MulType
<1>9. Mul(One, s, Xor(vw, us)) = Zero
  BY <1>5, <1>6, <1>7, <1>8, MulDistributes, MulType, XorLaws
<1>10. Xor(vw, us) \in Byte /\ Xor(vw, us) # Zero
  BY <1>1, <1>2, <1>8 DEF Xor, Byte, Zero
<1> QED BY <1>1, <1>9, <1>10, NoZeroDivisors

(* Neither u + v + w nor uv + uw + vw is zero. *)
Apart(u, v, w) ==
    /\ Xor(Xor(u, v), w) # Zero
    /\ Xor(Xor(Mul(One, u, v), Mul(One, u, w)), Mul(One, v, w)) # Zero

LEMMA ApartInSmallBlock ==
    ASSUME NEW a \in 0..20, NEW b \in 0..20, NEW c \in 0..20, a < b, b < c
    PROVE  Apart(Power[a], Power[b], Power[c])
<1>1. PICK u \in Byte, v \in Byte, w \in Byte :
          /\ u = Power[a] /\ v = Power[b] /\ w = Power[c]
          /\ u # Zero /\ v # Zero /\ w # Zero
  <2>1. a \in 0..254 /\ b \in 0..254 /\ c \in 0..254
    OBVIOUS
  <2> QED BY <2>1, PowerType
<1>2. PICK i \in 1..20, j \in 1..20, l \in 1..20 : i = b - a /\ j = c - a /\ l = c - b
  <2>1. b - a \in 1..20 /\ c - a \in 1..20 /\ c - b \in 1..20
    OBVIOUS
  <2> QED BY <2>1, Zenon
<1>3. PICK pi \in Byte, pj \in Byte, pl \in Byte :
          pi = Power[i] /\ pj = Power[j] /\ pl = Power[l]
  <2>1. i \in 0..254 /\ j \in 0..254 /\ l \in 0..254
    OBVIOUS
  <2> QED BY <2>1, PowerType
<1>4. v = Mul(One, u, pi) /\ w = Mul(One, u, pj) /\ w = Mul(One, v, pl)
  <2>1. \A m, n \in 0..20 : Mul(One, Power[m], Power[n]) = Power[m + n]
    <3> SUFFICES ASSUME NEW m \in 0..20, NEW n \in 0..20
                 PROVE  Mul(One, Power[m], Power[n]) = Power[m + n]
      OBVIOUS
    <3>1. m \in 0..254 /\ n \in 0..254 /\ (m + n) % 255 = m + n
      OBVIOUS
    <3>2. Mul(One, Power[m], Power[n]) = Power[(m + n) % 255]
      BY <3>1, MulOfPowers, ZenonT(40)
    <3> QED BY <3>1, <3>2
  <2>2. a + i = b /\ a + j = c /\ b + l = c
    BY <1>2
  <2>3. i \in 0..20 /\ j \in 0..20 /\ l \in 0..20
    OBVIOUS
  <2>4. Mul(One, Power[a], Power[i]) = Power[b]
    BY <2>1, <2>2, <2>3
  <2>5. Mul(One, Power[a], Power[j]) = Power[c]
    BY <2>1, <2>2, <2>3
  <2>6. Mul(One, Power[b], Power[l]) = Power[c]
    BY <2>1, <2>2, <2>3
  <2> QED BY <1>1, <1>3, <2>4, <2>5, <2>6
<1>5. Xor(pi, pj) # One /\ Xor(pj, pl) # One
  BY <1>3, NoTrinomial
<1>6. Xor(v, w) # u
  <2> SUFFICES ASSUME Xor(v, w) = u
               PROVE  FALSE
    OBVIOUS
  <2>1. PICK y \in Byte : y = Xor(pi, pj)
    BY XorLaws
  <2>2. Mul(One, u, y) = u
    <3>1. Mul(One, u, Xor(pi, pj)) = Xor(Mul(One, u, pi), Mul(One, u, pj))
      BY MulDistributes
    <3> QED BY <1>4, <2>1, <3>1
  <2>3. Mul(One, u, Xor(y, One)) = Zero
    BY <2>2, MulDistributes, MulOne, XorLaws
  <2>4. Xor(y, One) \in Byte /\ Xor(y, One) # Zero
    BY <1>5, <2>1, XorOfDifferent, XorLaws
  <2> QED BY <1>1, <2>3, <2>4, NoZeroDivisors
<1>7. Mul(One, u, Xor(v, w)) # Mul(One, v, w)
  <2> SUFFICES ASSUME Mul(One, u, Xor(v, w)) = Mul(One, v, w)
               PROVE  FALSE
    OBVIOUS
  <2>1. PICK uv \in Byte : uv = Mul(One, u, v) /\ uv # Zero
    BY <1>1, MulType, NoZeroDivisors, ZenonT(40)
  <2>2. Mul(One, v, w) = Mul(One, uv, pj)
    <3>1. Mul(One, v, Mul(One, u, pj)) = Mul(One, Mul(One, v, u), pj)
      BY MulAssociates
    <3> QED BY <1>4, <2>1, <3>1, MulCommutes
  <2>3. Mul(One, u, w) = Mul(One, uv, pl)
    <3>1. Mul(One, u, Mul(One, v, pl)) = Mul(One, Mul(One, u, v), pl)
      BY MulAssociates
    <3> QED BY <1>4, <2>1, <3>1
  <2>4. Mul(One, uv, Xor(pj, pl)) = uv
    <3>1. Mul(One, u, Xor(v, w)) = Xor(uv, Mul(One, uv, pl))
      BY <2>1, <2>3, MulDistributes
    <3>2. PICK e \in Byte, f \in Byte : e = Mul(One, uv, pj) /\ f = Mul(One, uv, pl)
      BY MulType
    <3>3. Xor(uv, f) = e
      BY <2>2, <3>1, <3>2
    <3>4. Xor(e, f) = uv
      BY <3>3 DEF Xor
    <3> QED BY <3>2, <3>4, MulDistributes
  <2>5. PICK y \in Byte : y = Xor(pj, pl)
    BY XorLaws
  <2>6. Mul(One, uv, Xor(y, One)) = Zero
    BY <2>4, <2>5, MulDistributes, MulOne, XorLaws
  <2>7. Xor(y, One) \in Byte /\ Xor(y, One) # Zero
    BY <1>5, <2>5, XorOfDifferent, XorLaws
  <2> QED BY <2>1, <2>6, <2>7, NoZeroDivisors
<1>8. Xor(Xor(u, v), w) # Zero
  BY <1>6 DEF Xor, Zero
<1>9. Xor(Xor(Mul(One, u, v), Mul(One, u, w)), Mul(One, v, w)) # Zero
  <2>1. Xor(Mul(One, u, v), Mul(One, u, w)) # Mul(One, v, w)
    BY <1>7, MulDistributes
  <2>2. PICK e \in Byte, f \in Byte :
            e = Xor(Mul(One, u, v), Mul(One, u, w)) /\ f = Mul(One, v, w)
    BY MulType, XorLaws
  <2> QED BY <2>1, <2>2, XorOfDifferent
<1> QED BY <1>1, <1>8, <1>9 DEF Apart

LEMMA ApartInAnyOrder ==
    ASSUME NEW u \in Byte, NEW v \in Byte, NEW w \in Byte, Apart(u, v, w)
    PROVE  Apart(u, w, v) /\ Apart(v, u, w)
<1>1. PICK uv \in Byte, uw \in Byte, vw \in Byte :
          /\ uv = Mul(One, u, v) /\ uw = Mul(One, u, w) /\ vw = Mul(One, v, w)
          /\ uv = Mul(One, v, u) /\ vw = Mul(One, w, v)
  BY MulType, MulCommutes
<1>2. Xor(Xor(u, v), w) # Zero /\ Xor(Xor(uv, uw), vw) # Zero
  BY <1>1 DEF Apart
<1>3. Xor(Xor(u, w), v) # Zero /\ Xor(Xor(v, u), w) # Zero
  BY <1>2 DEF Xor, Zero
<1>4. Xor(Xor(uw, uv), vw) # Zero /\ Xor(Xor(uv, vw), uw) # Zero
  BY <1>2 DEF Xor, Zero
<1> QED BY <1>1, <1>3, <1>4 DEF Apart

(* Products are taken in any order. *)
LEMMA Rearranged ==
    ASSUME NEW r \in Byte, NEW v \in Byte, NEW x \in Byte, NEW p \in Byte
    PROVE  /\ Mul(One, r, Mul(One, x, Mul(One, p, p))) = Mul(One, p, Mul(One, r, Mul(One, x, p)))
           /\ Mul(One, Mul(One, r, v), x) = Mul(One, v, Mul(One, r, x))
<1>1. PICK xp \in Byte : xp = Mul(One, x, p)
  BY MulType
<1>2. Mul(One, x, Mul(One, p, p)) = Mul(One, xp, p)
  BY <1>1, MulAssociates
<1>3. Mul(One, r, Mul(One, xp, p)) = Mul(One, Mul(One, r, xp), p)
  BY MulAssociates
<1>4. Mul(One, Mul(One, r, xp), p) = Mul(One, p, Mul(One, r, xp))
  BY MulCommutes, MulType
<1>5. Mul(One, Mul(One, v, r), x) = Mul(One, v, Mul(One, r, x))
  BY MulAssociates
<1>6. Mul(One, v, r) = Mul(One, r, v)
  BY MulCommutes
<1> QED BY <1>1, <1>2, <1>3, <1>4, <1>5, <1>6

LEMMA ApartIfDistinct ==
    ASSUME NEW a \in 0..20, NEW b \in 0..20, NEW c \in 0..20, a # b, a # c, b # c
    PROVE  Apart(Power[a], Power[b], Power[c])
<1>1. Power[a] \in Byte /\ Power[b] \in Byte /\ Power[c] \in Byte
  <2>1. a \in 0..254 /\ b \in 0..254 /\ c \in 0..254
    OBVIOUS
  <2> QED BY <2>1, PowerType
<1>2. PICK u \in Byte, v \in Byte, w \in Byte : u = Power[a] /\ v = Power[b] /\ w = Power[c]
  BY <1>1
<1>3. \/ Apart(u, v, w) \/ Apart(u, w, v) \/ Apart(v, u, w)
      \/ Apart(v, w, u) \/ Apart(w, u, v) \/ Apart(w, v, u)
  <2>1. \A l, m, n \in 0..20 : l < m /\ m < n => Apart(Power[l], Power[m], Power[n])
    BY ApartInSmallBlock
  <2>2. \/ (a < b /\ b < c) \/ (a < c /\ c < b) \/ (b < a /\ a < c)
        \/ (b < c /\ c < a) \/ (c < a /\ a < b) \/ (c < b /\ b < a)
    OBVIOUS
  <2> QED BY <1>2, <2>1, <2>2
<1>4. \A p, q, r \in Byte : Apart(p, q, r) => Apart(p, r, q) /\ Apart(q, p, r)
  BY ApartInAnyOrder
<1>5. Apart(u, v, w)
  BY <1>3, <1>4
<1> QED BY <1>2, <1>5

=============================================================================
