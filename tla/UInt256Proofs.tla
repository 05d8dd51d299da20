---------------------------- MODULE UInt256Proofs ----------------------------
(***************************************************************************)
(* What the functions of uint256.c compute, for words of any width of at   *)
(* least four bits: the code's are of 64.  Powers of two are counted as    *)
(* subsets, and what holds of every natural number is shown by looking at  *)
(* the least that breaks it.                                               *)
(***************************************************************************)
EXTENDS UInt256, FiniteSetTheorems, WellFoundedInduction, TLAPS

(* Induction, for a set of natural numbers.                                *)
LEMMA NaturalsByInduction ==
  ASSUME NEW S, S \subseteq Nat, 0 \in S, \A n \in S : n + 1 \in S
  PROVE  S = Nat
<1> DEFINE T == Nat \ S
<1> SUFFICES ASSUME T # {} PROVE FALSE
  OBVIOUS
<1>1. T \subseteq Nat
  OBVIOUS
<1>2. PICK x \in T : \A y \in T : ~ (<<y, x>> \in OpToRel(<, Nat))
  BY <1>1, NatLessThanWellFounded, WFMin
<1>3. \A y \in T : ~(y < x)
  BY <1>2 DEF OpToRel
<1>4. x - 1 \in Nat /\ x - 1 \notin T
  BY <1>3
<1> QED
  BY <1>4

-----------------------------------------------------------------------------
(* Powers of two. *)

LEMMA PowerIsPositive ==
  ASSUME NEW n \in Nat
  PROVE  2^n \in Nat /\ 2^n > 0
<1>1. IsFiniteSet(1..n) /\ Cardinality(1..n) = n
  BY FS_Interval
<1>2. /\ IsFiniteSet(SUBSET (1..n))
      /\ Cardinality(SUBSET (1..n)) = 2^n
  BY <1>1, FS_SUBSET
<1>3. SUBSET (1..n) # {}
  OBVIOUS
<1> QED
  BY <1>2, <1>3, FS_EmptySet, FS_CardinalityType

(* A subset of two disjoint sets is a subset of each.                      *)
LEMMA SubsetsOfTwo ==
  ASSUME NEW A, NEW B, A \cap B = {}
  PROVE  ExistsBijection((SUBSET A) \X (SUBSET B), SUBSET (A \cup B))
<1> DEFINE Both == (SUBSET A) \X (SUBSET B)
           f    == [p \in Both |-> p[1] \cup p[2]]
<1>1. f \in [Both -> SUBSET (A \cup B)]
  OBVIOUS
<1>2. ASSUME NEW p \in Both, NEW q \in Both, f[p] = f[q]
      PROVE  p = q
  <2>1. p[1] \cup p[2] = q[1] \cup q[2]
    BY <1>2
  <2>2. /\ p[1] \subseteq A /\ p[2] \subseteq B
        /\ q[1] \subseteq A /\ q[2] \subseteq B
    OBVIOUS
  <2>3. p[1] = q[1] /\ p[2] = q[2]
    BY <2>1, <2>2
  <2> QED
    BY <2>3
<1>3. ASSUME NEW T \in SUBSET (A \cup B)
      PROVE  \E p \in Both : f[p] = T
  <2>1. <<T \cap A, T \cap B>> \in Both
    OBVIOUS
  <2>2. f[<<T \cap A, T \cap B>>] = T
    BY <2>1
  <2> QED
    BY <2>1, <2>2
<1>4. f \in Bijection(Both, SUBSET (A \cup B))
  BY <1>1, <1>2, <1>3
  DEF Bijection, Injection, Surjection, IsInjective
<1> QED
  BY <1>4 DEF ExistsBijection

LEMMA PowerOfSum ==
  ASSUME NEW m \in Nat, NEW n \in Nat
  PROVE  2^(m + n) = 2^m * 2^n
<1> DEFINE A == 1..m
           B == (m + 1)..(m + n)
<1>1. IsFiniteSet(A) /\ Cardinality(A) = m
  BY FS_Interval
<1>6. IsFiniteSet(1..(m + n)) /\ Cardinality(1..(m + n)) = m + n
  <2>1. PICK k \in Nat : k = m + n
    OBVIOUS
  <2>2. IsFiniteSet(1..k) /\ Cardinality(1..k) = k
    BY FS_Interval
  <2> QED
    BY <2>1, <2>2
<1>2. IsFiniteSet(B) /\ Cardinality(B) = n
  <2>1. m + 1 \in Int /\ m + n \in Int
    OBVIOUS
  <2>2. IsFiniteSet(B)
          /\ Cardinality(B) = IF m + 1 > m + n THEN 0 ELSE m + n - (m + 1) + 1
    BY <2>1, FS_Interval
  <2> QED
    BY <2>2
<1>3. 1..(m + n) = A \cup B /\ A \cap B = {}
  OBVIOUS
<1> HIDE DEF A, B
<1>4. /\ IsFiniteSet(SUBSET A) /\ Cardinality(SUBSET A) = 2^m
      /\ IsFiniteSet(SUBSET B) /\ Cardinality(SUBSET B) = 2^n
      /\ Cardinality(SUBSET (A \cup B)) = 2^(m + n)
  BY <1>1, <1>2, <1>3, <1>6, FS_SUBSET
<1>5. /\ IsFiniteSet((SUBSET A) \X (SUBSET B))
      /\ Cardinality((SUBSET A) \X (SUBSET B)) = 2^m * 2^n
  BY <1>4, FS_Product
<1> QED
  BY <1>3, <1>4, <1>5, SubsetsOfTwo, FS_Bijection

LEMMA PowerSteps ==
  /\ 2^0 = 1
  /\ \A n \in Nat : 2^(n + 1) = 2 * 2^n
<1>1. 2^0 = 1 /\ 2^1 = 2
  OBVIOUS
<1>2. ASSUME NEW n \in Nat PROVE 2^(n + 1) = 2 * 2^n
  <2>1. 2^n \in Nat
    BY PowerIsPositive
  <2>2. 2^(n + 1) = 2^n * 2^1
    BY PowerOfSum
  <2> QED
    BY <1>1, <2>1, <2>2
<1> QED
  BY <1>1, <1>2

LEMMA PowersGrow ==
  ASSUME NEW m \in Nat, NEW n \in Nat, m <= n
  PROVE  /\ 2^n = 2^m * 2^(n - m) /\ 2^(n - m) \in Nat /\ 2^(n - m) > 0
         /\ 2^m <= 2^n
<1>1. n - m \in Nat /\ m + (n - m) = n
  OBVIOUS
<1>2. /\ 2^m \in Nat /\ 2^m > 0 /\ 2^(n - m) \in Nat /\ 2^(n - m) > 0
      /\ 2^n = 2^m * 2^(n - m)
  BY <1>1, PowerIsPositive, PowerOfSum
<1>3. \A a, b \in Nat : b > 0 => a <= a * b
  OBVIOUS
<1> QED
  BY <1>2, <1>3

-----------------------------------------------------------------------------
(* Quotients and remainders. *)

LEMMA DivMod ==
  ASSUME NEW n \in Int, NEW K \in Nat, K > 0
  PROVE  /\ n \div K \in Int /\ n % K \in Nat /\ n % K < K
         /\ n = (n \div K) * K + (n % K)
         /\ n >= 0 => n \div K \in Nat /\ n \div K <= n /\ n % K <= n
  OBVIOUS

LEMMA DivModUnique ==
  ASSUME NEW K \in Nat, K > 0, NEW q \in Int, NEW r \in Nat, r < K
  PROVE  (q * K + r) \div K = q /\ (q * K + r) % K = r
<1> DEFINE n == q * K + r
<1>1. n \in Int
  OBVIOUS
<1>2. PICK a \in Int, b \in Nat :
        a = n \div K /\ b = n % K /\ b < K /\ n = a * K + b
  BY <1>1, DivMod
<1>3. (a - q) * K = r - b
  BY <1>2
<1>4. a - q < 1
  <2> SUFFICES ASSUME a - q >= 1 PROVE FALSE
    BY <1>2
  <2>1. (a - q) * K >= K
    BY <1>2
  <2> QED
    BY <1>2, <1>3, <2>1
<1>5. a - q > -1
  <2> SUFFICES ASSUME a - q <= -1 PROVE FALSE
    BY <1>2
  <2>1. (a - q) * K <= -K
    BY <1>2
  <2> QED
    BY <1>2, <1>3, <2>1
<1>6. a = q
  BY <1>2, <1>4, <1>5
<1> QED
  BY <1>2, <1>3, <1>6

(* A sum of at least two summands is reduced as well early as late.        *)
LEMMA ModOfMod ==
  ASSUME NEW m \in Int, NEW n \in Int, NEW K \in Nat, K > 0
  PROVE  /\ ((m % K) + n) % K = (m + n) % K
         /\ ((m % K) - n) % K = (m - n) % K
<1>1. PICK q \in Int, r \in Nat : m = q * K + r /\ r = m % K
  BY DivMod
<1>2. ASSUME NEW k \in Int PROVE (r + k) % K = (m + k) % K
  <2>1. PICK a \in Int, b \in Nat :
          r + k = a * K + b /\ b < K /\ b = (r + k) % K
    BY DivMod
  <2>2. m + k = (a + q) * K + b /\ a + q \in Int
    BY <1>1, <2>1
  <2> QED
    BY <2>1, <2>2, DivModUnique
<1>3. (r + (-n)) % K = (m + (-n)) % K
  BY <1>2
<1>4. r + (-n) = r - n /\ m + (-n) = m - n
  OBVIOUS
<1> QED
  BY <1>1, <1>2, <1>3, <1>4

-----------------------------------------------------------------------------
(* Numbers of two digits. *)

(* What two digits stand for.                                              *)
Two(M, u, l) == u * M + l

LEMMA TwoDigits ==
  ASSUME NEW M \in Nat, M > 0, NEW u \in 0..(M - 1), NEW l \in 0..(M - 1)
  PROVE  Two(M, u, l) \in 0..(M * M - 1)
<1>1. u * M >= 0 /\ u * M <= (M - 1) * M
  OBVIOUS
<1>2. (M - 1) * M = M * M - M
  OBVIOUS
<1> QED
  BY <1>1, <1>2 DEF Two

(* The upper digits decide which of two numbers is greater.               *)
InOrder(M, u, l, v, k) ==
  /\ Two(M, u, l) > Two(M, v, k) <=> u > v \/ (u = v /\ l > k)
  /\ Two(M, u, l) = Two(M, v, k) <=> u = v /\ l = k

LEMMA TwoDigitsInOrder ==
  ASSUME NEW M \in Nat, M > 0,
         NEW u \in Int, NEW l \in 0..(M - 1),
         NEW v \in Int, NEW k \in 0..(M - 1)
  PROVE  InOrder(M, u, l, v, k)
<1>1. ASSUME NEW a \in Int, NEW b \in Int, a > b,
             NEW c \in 0..(M - 1), NEW d \in 0..(M - 1)
      PROVE  Two(M, a, c) > Two(M, b, d)
  <2>1. (a - b) * M >= M
    BY <1>1
  <2>2. (a - b) * M = a * M - b * M
    OBVIOUS
  <2> QED
    BY <2>1, <2>2 DEF Two
<1>2. CASE u > v
  <2>1. Two(M, u, l) > Two(M, v, k)
    BY <1>1, <1>2
  <2> QED
    BY <1>2, <2>1 DEF Two, InOrder
<1>3. CASE v > u
  <2>1. Two(M, v, k) > Two(M, u, l)
    BY <1>1, <1>3
  <2> QED
    BY <1>3, <2>1 DEF Two, InOrder
<1>4. CASE u = v
  BY <1>4 DEF Two, InOrder
<1> QED
  BY <1>2, <1>3, <1>4

(* What the lower digit cannot hold goes to the upper one, which is        *)
(* reduced: so is the number then, modulo both.                            *)
Reduced(M, x, c, l) ==
  /\ (x + c) % M \in 0..(M - 1)
  /\ Two(M, (x + c) % M, l) = Two(M, x, c * M + l) % (M * M)

LEMMA TwoDigitMod ==
  ASSUME NEW M \in Nat, M > 0, NEW x \in Int,
         NEW c \in Int, NEW l \in 0..(M - 1)
  PROVE  Reduced(M, x, c, l)
<1>1. PICK n \in Int : n = x + c
  OBVIOUS
<1>2. PICK d \in Int, u \in Int :
        n = d * M + u /\ u \in 0..(M - 1) /\ u = n % M
  BY DivMod
<1>3. PICK K \in Nat, v \in Nat : K = M * M /\ v = Two(M, u, l) /\ v < K
  <2>1. M * M \in Nat /\ Two(M, u, l) \in 0..(M * M - 1)
    BY <1>2, TwoDigits
  <2> QED
    BY <2>1
<1>4. Two(M, x, c * M + l) = d * K + v
  <2>1. x * M + (c * M + l) = n * M + l
    BY <1>1
  <2>2. (d * M + u) * M + l = d * (M * M) + (u * M + l)
    BY <1>2
  <2> QED
    BY <1>2, <1>3, <2>1, <2>2 DEF Two
<1>5. K > 0 /\ (d * K + v) % K = v
  <2>1. K > 0
    BY <1>3
  <2> QED
    BY <1>3, <2>1, DivModUnique
<1> QED
  BY <1>1, <1>2, <1>3, <1>4, <1>5 DEF Reduced

(* A carry shows in a lower digit that is less than a summand's, a borrow  *)
(* in one that is more than what it was taken from.                        *)
LEMMA Carry ==
  ASSUME NEW M \in Nat, M > 0, NEW a \in 0..(M - 1), NEW b \in 0..(M - 1)
  PROVE  LET l == (a + b) % M
         IN  l \in 0..(M - 1) /\ a + b = (IF l < a THEN 1 ELSE 0) * M + l
<1>1. CASE a + b < M
  <2>1. a + b = 0 * M + (a + b)
    OBVIOUS
  <2>2. (a + b) % M = a + b
    BY <1>1, <2>1, DivModUnique
  <2> QED
    BY <1>1, <2>2
<1>2. CASE a + b >= M
  <2>1. a + b = 1 * M + (a + b - M) /\ a + b - M \in Nat /\ a + b - M < M
    BY <1>2
  <2>2. (a + b) % M = a + b - M
    BY <2>1, DivModUnique
  <2> QED
    BY <1>2, <2>2
<1> QED
  BY <1>1, <1>2

LEMMA Borrow ==
  ASSUME NEW M \in Nat, M > 0, NEW a \in 0..(M - 1), NEW b \in 0..(M - 1)
  PROVE  LET l == (a - b) % M
         IN  l \in 0..(M - 1) /\ a - b = -(IF l > a THEN 1 ELSE 0) * M + l
<1>1. CASE a >= b
  <2>1. a - b = 0 * M + (a - b) /\ a - b \in Nat /\ a - b < M
    BY <1>1
  <2>2. (a - b) % M = a - b
    BY <2>1, DivModUnique
  <2> QED
    BY <1>1, <2>2
<1>2. CASE a < b
  <2>1. a - b = (-1) * M + (a - b + M) /\ a - b + M \in Nat /\ a - b + M < M
    BY <1>2
  <2>2. (a - b) % M = a - b + M
    BY <2>1, DivModUnique
  <2> QED
    BY <1>2, <2>2
<1> QED
  BY <1>1, <1>2

(* Sums and differences digit by digit.                                    *)
Sums(M, au, al, bu, bl) ==
  LET l == (al + bl) % M
      u == (au + bu + (IF l < al THEN 1 ELSE 0)) % M
  IN  /\ u \in 0..(M - 1) /\ l \in 0..(M - 1)
      /\ Two(M, u, l) = (Two(M, au, al) + Two(M, bu, bl)) % (M * M)

Differences(M, au, al, bu, bl) ==
  LET l == (al - bl) % M
      u == (au - bu - (IF l > al THEN 1 ELSE 0)) % M
  IN  /\ u \in 0..(M - 1) /\ l \in 0..(M - 1)
      /\ Two(M, u, l) = (Two(M, au, al) - Two(M, bu, bl)) % (M * M)

LEMMA TwoDigitSum ==
  ASSUME NEW M \in Nat, M > 0,
         NEW au \in Int, NEW al \in 0..(M - 1),
         NEW bu \in Int, NEW bl \in 0..(M - 1)
  PROVE  Sums(M, au, al, bu, bl)
<1>1. PICK l \in 0..(M - 1), c \in Int :
        /\ l = (al + bl) % M /\ c = (IF l < al THEN 1 ELSE 0)
        /\ al + bl = c * M + l
  BY Carry
<1>2. PICK x \in Int : x = au + bu
  OBVIOUS
<1>3. Reduced(M, x, c, l)
  BY <1>1, <1>2, TwoDigitMod
<1>4. Two(M, x, c * M + l) = Two(M, au, al) + Two(M, bu, bl)
  BY <1>1, <1>2 DEF Two
<1> QED
  BY <1>1, <1>2, <1>3, <1>4 DEF Reduced, Sums

LEMMA TwoDigitDifference ==
  ASSUME NEW M \in Nat, M > 0,
         NEW au \in Int, NEW al \in 0..(M - 1),
         NEW bu \in Int, NEW bl \in 0..(M - 1)
  PROVE  Differences(M, au, al, bu, bl)
<1>1. PICK l \in 0..(M - 1), c \in Int :
        /\ l = (al - bl) % M /\ c = -(IF l > al THEN 1 ELSE 0)
        /\ al - bl = c * M + l
  BY Borrow
<1>2. PICK x \in Int : x = au - bu
  OBVIOUS
<1>3. Reduced(M, x, c, l)
  BY <1>1, <1>2, TwoDigitMod
<1>4. Two(M, x, c * M + l) = Two(M, au, al) - Two(M, bu, bl)
  BY <1>1, <1>2 DEF Two
<1> QED
  BY <1>1, <1>2, <1>3, <1>4 DEF Reduced, Differences

-----------------------------------------------------------------------------
(* Words, and the numbers they make. *)

LEMMA Sizes ==
  /\ WordBits \in Nat /\ WordBits >= 4
  /\ Half \in Nat /\ Half >= 4 /\ Modulus = Half * Half
  /\ Modulus \in Nat /\ Modulus >= 16
  /\ 0 \in Word /\ 1 \in Word
<1>1. HalfBits \in Nat /\ HalfBits >= 2 /\ 2 \in Nat /\ 2 <= HalfBits
  BY WordAssumption
<1>2. Half \in Nat /\ 2^2 <= Half
  BY <1>1, PowerIsPositive, PowersGrow DEF Half
<1>3. 2^2 = 4
  OBVIOUS
<1>4. 2^(HalfBits + HalfBits) = Half * Half
  BY <1>1, PowerOfSum DEF Half
<1>5. WordBits = HalfBits + HalfBits
  BY <1>1 DEF WordBits
<1>6. Modulus = Half * Half
  BY <1>4, <1>5 DEF Modulus
<1>7. \A n \in Nat : n >= 4 => n * n \in Nat /\ n * n >= 16
  OBVIOUS
<1>8. Half >= 4
  BY <1>2, <1>3
<1>9. Modulus \in Nat /\ Modulus >= 16
  BY <1>2, <1>6, <1>7, <1>8
<1> QED
  BY <1>1, <1>2, <1>5, <1>6, <1>8, <1>9 DEF Word

LEMMA WrapIsWord ==
  ASSUME NEW n \in Int
  PROVE  Wrap(n) \in Word
BY Sizes DEF Wrap, Word

LEMMA PairsAreNumbers ==
  /\ \A a : a \in UInt128 <=> \E u, l \in Word : a = Pair(u, l)
  /\ \A a : a \in UInt256 <=> \E u, l \in UInt128 : a = Pair(u, l)
  /\ \A u, l : Pair(u, l).upper = u /\ Pair(u, l).lower = l
BY DEF Pair, UInt128, UInt256

LEMMA HalvesAreNumbers ==
  /\ \A a \in UInt128 : a.upper \in Word /\ a.lower \in Word
                          /\ a = Pair(a.upper, a.lower)
  /\ \A a \in UInt256 : a.upper \in UInt128 /\ a.lower \in UInt128
                          /\ a = Pair(a.upper, a.lower)
BY DEF Pair, UInt128, UInt256

LEMMA ValueOfPair ==
  ASSUME NEW u, NEW l
  PROVE  /\ Value128(Pair(u, l)) = Two(Modulus, u, l)
         /\ Value(Pair(u, l)) = Two(Modulus * Modulus, Value128(u), Value128(l))
BY PairsAreNumbers DEF Value128, Value, Two

LEMMA Value128InRange ==
  ASSUME NEW a \in UInt128
  PROVE  Value128(a) \in 0..(Modulus * Modulus - 1)
<1>1. PICK M \in Nat, u \in Int, l \in Int :
        /\ M = Modulus /\ u = a.upper /\ l = a.lower /\ M > 0
        /\ u \in 0..(M - 1) /\ l \in 0..(M - 1)
  BY Sizes, HalvesAreNumbers DEF Word
<1>2. Two(M, u, l) \in 0..(M * M - 1)
  BY <1>1, TwoDigits
<1> QED
  BY <1>1, <1>2 DEF Two, Value128

LEMMA ValueInRange ==
  ASSUME NEW a \in UInt256
  PROVE  Value(a) \in 0..((Modulus * Modulus) * (Modulus * Modulus) - 1)
<1>1. PICK K \in Nat, u \in Int, l \in Int :
        /\ K = Modulus * Modulus /\ K > 0
        /\ u = Value128(a.upper) /\ l = Value128(a.lower)
        /\ u \in 0..(K - 1) /\ l \in 0..(K - 1)
  <2>1. a.upper \in UInt128 /\ a.lower \in UInt128
    BY HalvesAreNumbers
  <2>2. Modulus * Modulus \in Nat /\ Modulus * Modulus > 0
    BY Sizes
  <2> QED
    BY <2>1, <2>2, Value128InRange
<1>2. Two(K, u, l) \in 0..(K * K - 1)
  BY <1>1, TwoDigits
<1> QED
  BY <1>1, <1>2 DEF Two, Value

LEMMA SmallNumbers ==
  ASSUME NEW n \in Word
  PROVE  /\ Small128(n) \in UInt128 /\ Value128(Small128(n)) = n
         /\ Small256(n) \in UInt256 /\ Value(Small256(n)) = n
<1>1. n \in Int /\ Modulus \in Nat /\ 0 \in Word
  BY Sizes DEF Word
<1>2. \A m \in Word : Small128(m) \in UInt128 /\ Value128(Small128(m)) = m
  BY Sizes, ValueOfPair DEF Small128, UInt128, Pair, Two, Word
<1>3. Small256(n) \in UInt256
  BY <1>1, <1>2 DEF Small256, UInt256, Pair
<1>4. Value(Small256(n)) = n
  <2>1. Value(Small256(n)) = 0 * (Modulus * Modulus) + n
    BY <1>1, <1>2, ValueOfPair DEF Small256, Two
  <2>2. Modulus * Modulus \in Nat
    BY <1>1
  <2> QED
    BY <1>1, <2>1, <2>2
<1> QED
  BY <1>2, <1>3, <1>4

(* Comparing the upper halves first is comparing the numbers.              *)
LEMMA Order128 ==
  ASSUME NEW a \in UInt128, NEW b \in UInt128
  PROVE  /\ Gt128(a, b) <=> Value128(a) > Value128(b)
         /\ a = b <=> Value128(a) = Value128(b)
<1>1. PICK M \in Nat, u \in Int, l \in Int, v \in Int, k \in Int :
        /\ M = Modulus /\ M > 0 /\ a = Pair(u, l) /\ b = Pair(v, k)
        /\ l \in 0..(M - 1) /\ k \in 0..(M - 1)
  BY Sizes, HalvesAreNumbers DEF Word
<1>2. InOrder(M, u, l, v, k)
  BY <1>1, TwoDigitsInOrder
<1>3. Value128(a) = Two(M, u, l) /\ Value128(b) = Two(M, v, k)
  BY <1>1, ValueOfPair
<1>4. Gt128(a, b) <=> u > v \/ (u = v /\ l > k)
  BY <1>1, PairsAreNumbers DEF Gt128
<1>5. a = b <=> u = v /\ l = k
  BY <1>1, PairsAreNumbers
<1> QED
  BY <1>2, <1>3, <1>4, <1>5 DEF InOrder

LEMMA Order256 ==
  ASSUME NEW a \in UInt256, NEW b \in UInt256
  PROVE  /\ Gt256(a, b) <=> Value(a) > Value(b)
         /\ Gte256(a, b) <=> Value(a) >= Value(b)
         /\ a = b <=> Value(a) = Value(b)
<1>1. PICK K \in Nat, u \in Int, l \in Int, v \in Int, k \in Int :
        /\ K = Modulus * Modulus /\ K > 0
        /\ u = Value128(a.upper) /\ l = Value128(a.lower)
        /\ v = Value128(b.upper) /\ k = Value128(b.lower)
        /\ l \in 0..(K - 1) /\ k \in 0..(K - 1)
  <2>1. Modulus * Modulus \in Nat /\ Modulus * Modulus > 0
    BY Sizes
  <2> QED
    BY <2>1, HalvesAreNumbers, Value128InRange
<1>2. InOrder(K, u, l, v, k)
  BY <1>1, TwoDigitsInOrder
<1>3. Value(a) = Two(K, u, l) /\ Value(b) = Two(K, v, k)
  BY <1>1 DEF Value, Two
<1>4. /\ Gt128(a.upper, b.upper) <=> u > v
      /\ Gt128(a.lower, b.lower) <=> l > k
      /\ a.upper = b.upper <=> u = v
      /\ a.lower = b.lower <=> l = k
  BY <1>1, HalvesAreNumbers, Order128
<1>5. a = b <=> u = v /\ l = k
  BY <1>4, HalvesAreNumbers
<1>6. Gt256(a, b) <=> u > v \/ (u = v /\ l > k)
  BY <1>4 DEF Gt256
<1>7. Value(a) \in Int /\ Value(b) \in Int
  BY ValueInRange
<1>8. Value(a) >= Value(b) <=> Value(a) > Value(b) \/ Value(a) = Value(b)
  BY <1>7
<1> QED
  BY <1>2, <1>3, <1>5, <1>6, <1>8 DEF Gte256, InOrder

-----------------------------------------------------------------------------
(* Sums and differences. *)

LEMMA Add128Adds ==
  ASSUME NEW a \in UInt128, NEW b \in UInt128
  PROVE  /\ Add128(a, b) \in UInt128
         /\ Value128(Add128(a, b))
              = (Value128(a) + Value128(b)) % (Modulus * Modulus)
<1>1. PICK M \in Nat, u \in Int, l \in Int, v \in Int, k \in Int :
        /\ M = Modulus /\ M > 0 /\ a = Pair(u, l) /\ b = Pair(v, k)
        /\ l \in 0..(M - 1) /\ k \in 0..(M - 1)
  BY Sizes, HalvesAreNumbers DEF Word
<1>2. Sums(M, u, l, v, k)
  BY <1>1, TwoDigitSum
<1>3. PICK t, w :
        /\ w = (l + k) % M /\ t = (u + v + (IF w < l THEN 1 ELSE 0)) % M
        /\ t \in 0..(M - 1) /\ w \in 0..(M - 1)
        /\ Two(M, t, w) = (Two(M, u, l) + Two(M, v, k)) % (M * M)
  BY <1>2 DEF Sums
<1>4. Add128(a, b) = Pair(t, w)
  <2>1. a.upper = u /\ a.lower = l /\ b.upper = v /\ b.lower = k
    BY <1>1, PairsAreNumbers
  <2> QED
    BY <1>1, <1>3, <2>1 DEF Add128, Wrap, One
<1>5. Pair(t, w) \in UInt128
  BY <1>1, <1>3, PairsAreNumbers DEF Word
<1>6. /\ Value128(a) = Two(M, u, l) /\ Value128(b) = Two(M, v, k)
      /\ Value128(Pair(t, w)) = Two(M, t, w)
  BY <1>1, ValueOfPair
<1> QED
  BY <1>1, <1>3, <1>4, <1>5, <1>6

LEMMA Minus128Subtracts ==
  ASSUME NEW a \in UInt128, NEW b \in UInt128
  PROVE  /\ Minus128(a, b) \in UInt128
         /\ Value128(Minus128(a, b))
              = (Value128(a) - Value128(b)) % (Modulus * Modulus)
<1>1. PICK M \in Nat, u \in Int, l \in Int, v \in Int, k \in Int :
        /\ M = Modulus /\ M > 0 /\ a = Pair(u, l) /\ b = Pair(v, k)
        /\ l \in 0..(M - 1) /\ k \in 0..(M - 1)
  BY Sizes, HalvesAreNumbers DEF Word
<1>2. Differences(M, u, l, v, k)
  BY <1>1, TwoDigitDifference
<1>3. PICK t, w :
        /\ w = (l - k) % M /\ t = (u - v - (IF w > l THEN 1 ELSE 0)) % M
        /\ t \in 0..(M - 1) /\ w \in 0..(M - 1)
        /\ Two(M, t, w) = (Two(M, u, l) - Two(M, v, k)) % (M * M)
  BY <1>2 DEF Differences
<1>4. Minus128(a, b) = Pair(t, w)
  <2>1. a.upper = u /\ a.lower = l /\ b.upper = v /\ b.lower = k
    BY <1>1, PairsAreNumbers
  <2> QED
    BY <1>1, <1>3, <2>1 DEF Minus128, Wrap, One
<1>5. Pair(t, w) \in UInt128
  BY <1>1, <1>3, PairsAreNumbers DEF Word
<1>6. /\ Value128(a) = Two(M, u, l) /\ Value128(b) = Two(M, v, k)
      /\ Value128(Pair(t, w)) = Two(M, t, w)
  BY <1>1, ValueOfPair
<1> QED
  BY <1>1, <1>3, <1>4, <1>5, <1>6

(* The number one after the widest.                                        *)
Capacity == (Modulus * Modulus) * (Modulus * Modulus)

LEMMA Add256Adds ==
  ASSUME NEW a \in UInt256, NEW b \in UInt256
  PROVE  /\ Add256(a, b) \in UInt256
         /\ Value(Add256(a, b)) = (Value(a) + Value(b)) % Capacity
<1> DEFINE upper == Add128(a.upper, b.upper)
           lower == Add128(a.lower, b.lower)
           carried == Add128(upper, Small128(1))
<1>1. PICK K \in Nat, u \in Int, l \in Int, v \in Int, k \in Int :
        /\ K = Modulus * Modulus /\ K > 0
        /\ u = Value128(a.upper) /\ l = Value128(a.lower)
        /\ v = Value128(b.upper) /\ k = Value128(b.lower)
        /\ l \in 0..(K - 1) /\ k \in 0..(K - 1)
  <2>1. Modulus * Modulus \in Nat /\ Modulus * Modulus > 0
    BY Sizes
  <2> QED
    BY <2>1, HalvesAreNumbers, Value128InRange
<1>2. Sums(K, u, l, v, k)
  BY <1>1, TwoDigitSum
<1>3. PICK t, w, c :
        /\ w = (l + k) % K /\ c = (IF w < l THEN 1 ELSE 0)
        /\ t = (u + v + c) % K
        /\ t \in 0..(K - 1) /\ w \in 0..(K - 1)
        /\ Two(K, t, w) = (Two(K, u, l) + Two(K, v, k)) % (K * K)
  BY <1>2 DEF Sums
<1>4. /\ a.upper \in UInt128 /\ a.lower \in UInt128
      /\ b.upper \in UInt128 /\ b.lower \in UInt128
      /\ Small128(1) \in UInt128 /\ Value128(Small128(1)) = 1
  BY Sizes, HalvesAreNumbers, SmallNumbers
<1>5. upper \in UInt128 /\ Value128(upper) = (u + v) % K
  BY <1>1, <1>4, Add128Adds
<1>6. lower \in UInt128 /\ Value128(lower) = w
  BY <1>1, <1>3, <1>4, Add128Adds
<1>7. carried \in UInt128 /\ Value128(carried) = (Value128(upper) + 1) % K
  BY <1>1, <1>4, <1>5, Add128Adds
<1>8. (((u + v) % K) + 1) % K = (u + v + 1) % K
  <2>1. PICK n \in Int : n = u + v
    OBVIOUS
  <2>2. ((n % K) + 1) % K = (n + 1) % K
    BY <1>1, ModOfMod
  <2> QED
    BY <2>1, <2>2
<1>9. Gt128(a.lower, lower) <=> w < l
  BY <1>1, <1>3, <1>4, <1>6, Order128
<1> DEFINE half == IF Gt128(a.lower, lower) THEN carried ELSE upper
<1>10. half \in UInt128 /\ Value128(half) = t
  <2>1. CASE w < l
    <3>1. half = carried /\ t = (u + v + 1) % K
      BY <1>3, <1>9, <2>1
    <3> QED
      BY <1>5, <1>7, <1>8, <3>1
  <2>2. CASE ~(w < l)
    <3>1. half = upper /\ t = (u + v + 0) % K /\ u + v + 0 = u + v
      BY <1>3, <1>9, <2>2
    <3> QED
      BY <1>5, <3>1
  <2> QED
    BY <2>1, <2>2
<1>11. Add256(a, b) = Pair(half, lower)
  BY DEF Add256
<1> HIDE DEF half, lower
<1>12. Pair(half, lower) \in UInt256
  BY <1>6, <1>10, PairsAreNumbers
<1>13. Value(Pair(half, lower)) = Two(K, t, w)
  BY <1>1, <1>6, <1>10, ValueOfPair
<1>14. Value(a) = Two(K, u, l) /\ Value(b) = Two(K, v, k)
  BY <1>1 DEF Value, Two
<1> QED
  BY <1>1, <1>3, <1>11, <1>12, <1>13, <1>14 DEF Capacity

LEMMA Minus256Subtracts ==
  ASSUME NEW a \in UInt256, NEW b \in UInt256
  PROVE  /\ Minus256(a, b) \in UInt256
         /\ Value(Minus256(a, b)) = (Value(a) - Value(b)) % Capacity
<1> DEFINE upper == Minus128(a.upper, b.upper)
           lower == Minus128(a.lower, b.lower)
           borrowed == Minus128(upper, Small128(1))
<1>1. PICK K \in Nat, u \in Int, l \in Int, v \in Int, k \in Int :
        /\ K = Modulus * Modulus /\ K > 0
        /\ u = Value128(a.upper) /\ l = Value128(a.lower)
        /\ v = Value128(b.upper) /\ k = Value128(b.lower)
        /\ l \in 0..(K - 1) /\ k \in 0..(K - 1)
  <2>1. Modulus * Modulus \in Nat /\ Modulus * Modulus > 0
    BY Sizes
  <2> QED
    BY <2>1, HalvesAreNumbers, Value128InRange
<1>2. Differences(K, u, l, v, k)
  BY <1>1, TwoDigitDifference
<1>3. PICK t, w, c :
        /\ w = (l - k) % K /\ c = (IF w > l THEN 1 ELSE 0)
        /\ t = (u - v - c) % K
        /\ t \in 0..(K - 1) /\ w \in 0..(K - 1)
        /\ Two(K, t, w) = (Two(K, u, l) - Two(K, v, k)) % (K * K)
  BY <1>2 DEF Differences
<1>4. /\ a.upper \in UInt128 /\ a.lower \in UInt128
      /\ b.upper \in UInt128 /\ b.lower \in UInt128
      /\ Small128(1) \in UInt128 /\ Value128(Small128(1)) = 1
  BY Sizes, HalvesAreNumbers, SmallNumbers
<1>5. upper \in UInt128 /\ Value128(upper) = (u - v) % K
  BY <1>1, <1>4, Minus128Subtracts
<1>6. lower \in UInt128 /\ Value128(lower) = w
  BY <1>1, <1>3, <1>4, Minus128Subtracts
<1>7. borrowed \in UInt128 /\ Value128(borrowed) = (Value128(upper) - 1) % K
  BY <1>1, <1>4, <1>5, Minus128Subtracts
<1>8. (((u - v) % K) - 1) % K = (u - v - 1) % K
  <2>1. PICK n \in Int : n = u - v
    OBVIOUS
  <2>2. ((n % K) - 1) % K = (n - 1) % K
    BY <1>1, ModOfMod
  <2> QED
    BY <2>1, <2>2
<1>9. Gt128(lower, a.lower) <=> w > l
  BY <1>1, <1>3, <1>4, <1>6, Order128
<1> DEFINE half == IF Gt128(lower, a.lower) THEN borrowed ELSE upper
<1>10. half \in UInt128 /\ Value128(half) = t
  <2>1. CASE w > l
    <3>1. half = borrowed /\ t = (u - v - 1) % K
      BY <1>3, <1>9, <2>1
    <3> QED
      BY <1>5, <1>7, <1>8, <3>1
  <2>2. CASE ~(w > l)
    <3>1. half = upper /\ t = (u - v - 0) % K /\ u - v - 0 = u - v
      BY <1>3, <1>9, <2>2
    <3> QED
      BY <1>5, <3>1
  <2> QED
    BY <2>1, <2>2
<1>11. Minus256(a, b) = Pair(half, lower)
  BY DEF Minus256
<1> HIDE DEF half, lower
<1>12. Pair(half, lower) \in UInt256
  BY <1>6, <1>10, PairsAreNumbers
<1>13. Value(Pair(half, lower)) = Two(K, t, w)
  BY <1>1, <1>6, <1>10, ValueOfPair
<1>14. Value(a) = Two(K, u, l) /\ Value(b) = Two(K, v, k)
  BY <1>1 DEF Value, Two
<1> QED
  BY <1>1, <1>3, <1>11, <1>12, <1>13, <1>14 DEF Capacity

-----------------------------------------------------------------------------
(* Numbers of two digits, shifted. *)

(* What is a multiple more has the same remainder.                         *)
LEMMA ModOfMultiple ==
  ASSUME NEW q \in Int, NEW n \in Int, NEW K \in Nat, K > 0
  PROVE  (q * K + n) % K = n % K
<1>1. PICK a \in Int, b \in Nat : n = a * K + b /\ b < K /\ b = n % K
  BY DivMod
<1>2. q * K + n = (q + a) * K + b /\ q + a \in Int
  BY <1>1
<1> QED
  BY <1>1, <1>2, DivModUnique

(* A digit of P times Q, moved to the left by P: what it loses is what it  *)
(* has above Q, and the digit above takes that up.                         *)
ShiftsLeft(M, P, Q, u, l) ==
  LET k == (l * P) % M
      t == (((u * P) % M) + (l \div Q)) % M
  IN  /\ t \in 0..(M - 1) /\ k \in 0..(M - 1)
      /\ Two(M, t, k) = (Two(M, u, l) * P) % (M * M)

LEMMA TwoDigitsLeft ==
  ASSUME NEW P \in Nat, P > 0, NEW Q \in Nat, Q > 0, NEW M \in Nat, M = P * Q,
         NEW u \in 0..(M - 1), NEW l \in 0..(M - 1)
  PROVE  ShiftsLeft(M, P, Q, u, l)
<1>1. M > 0
  OBVIOUS
<1>2. PICK c \in Int, r \in Nat : c = l \div Q /\ l = c * Q + r /\ r < Q
  BY DivMod
<1>3. PICK k \in Nat : k = r * P
  OBVIOUS
<1>4. l * P = c * M + k /\ k < M
  <2>1. (c * Q + r) * P = c * (P * Q) + r * P
    BY <1>2
  <2>2. r * P < Q * P
    BY <1>2
  <2> QED
    BY <1>2, <1>3, <2>1, <2>2
<1>5. (l * P) % M = k
  BY <1>1, <1>4, DivModUnique
<1>6. PICK x \in Int : x = u * P
  OBVIOUS
<1>10. c \in Int /\ x \in Int /\ k \in 0..(M - 1)
  BY <1>2, <1>3, <1>4, <1>6
<1>7. Reduced(M, x, c, k)
  BY <1>1, <1>10, TwoDigitMod
<1>8. ((x % M) + c) % M = (x + c) % M
  BY <1>1, <1>10, ModOfMod
<1>9. Two(M, x, c * M + k) = Two(M, u, l) * P
  <2>1. (u * M + l) * P = (u * P) * M + l * P
    OBVIOUS
  <2> QED
    BY <1>4, <1>6, <2>1 DEF Two
<1> QED
  BY <1>2, <1>5, <1>6, <1>7, <1>8, <1>9, <1>10 DEF Reduced, ShiftsLeft

(* By a digit and P more.                                                  *)
ShiftsFarLeft(M, P, u, l) ==
  /\ (l * P) % M \in 0..(M - 1)
  /\ Two(M, (l * P) % M, 0) = (Two(M, u, l) * (M * P)) % (M * M)

LEMMA TwoDigitsFarLeft ==
  ASSUME NEW P \in Nat, NEW M \in Nat, M > 0,
         NEW u \in 0..(M - 1), NEW l \in 0..(M - 1)
  PROVE  ShiftsFarLeft(M, P, u, l)
<1>1. PICK x \in Int, q \in Int : x = l * P /\ q = u * P
  OBVIOUS
<1>2. PICK K \in Nat : K = M * M /\ K > 0
  OBVIOUS
<1>3. Reduced(M, x, 0, 0)
  BY TwoDigitMod
<1>4. (x + 0) % M \in 0..(M - 1) /\ Two(M, (x + 0) % M, 0) = (x * M) % K
  <2>1. Two(M, x, 0 * M + 0) = x * M
    BY <1>1 DEF Two
  <2> QED
    BY <1>2, <1>3, <2>1 DEF Reduced
<1>5. PICK n \in Int : n = x * M
  BY <1>1
<1>6. Two(M, u, l) * (M * P) = q * K + n
  <2>1. (u * M + l) * (M * P) = (u * P) * (M * M) + (l * P) * M
    OBVIOUS
  <2> QED
    BY <1>1, <1>2, <1>5, <2>1 DEF Two
<1>7. (q * K + n) % K = n % K
  BY <1>2, ModOfMultiple
<1>8. x + 0 = x
  OBVIOUS
<1> QED
  BY <1>1, <1>2, <1>4, <1>5, <1>6, <1>7, <1>8 DEF ShiftsFarLeft

(* To the right by P: the digit below takes up what the upper one loses.   *)
ShiftsRight(M, P, Q, u, l) ==
  LET t == u \div P
      k == (((u * Q) % M) + (l \div P)) % M
  IN  /\ t \in 0..(M - 1) /\ k \in 0..(M - 1)
      /\ Two(M, t, k) = Two(M, u, l) \div P

LEMMA TwoDigitsRight ==
  ASSUME NEW P \in Nat, P > 0, NEW Q \in Nat, Q > 0, NEW M \in Nat, M = P * Q,
         NEW u \in 0..(M - 1), NEW l \in 0..(M - 1)
  PROVE  ShiftsRight(M, P, Q, u, l)
<1>1. M > 0
  OBVIOUS
<1>2. PICK t \in Nat, r \in Nat :
        t = u \div P /\ u = t * P + r /\ r < P /\ t <= u
  BY DivMod
<1>3. PICK s \in Nat, z \in Nat : s = l \div P /\ l = s * P + z /\ z < P
  BY DivMod
<1>4. s < Q
  <2> SUFFICES ASSUME s >= Q PROVE FALSE
    BY <1>3
  <2>1. s * P >= Q * P
    BY <1>3
  <2> QED
    BY <1>3, <2>1
<1>5. PICK h \in Nat, k \in Nat : h = r * Q /\ k = h + s
  BY <1>2, <1>3
<1>6. h + Q <= M
  <2>1. (r + 1) * Q <= P * Q
    BY <1>2
  <2> QED
    BY <1>5, <2>1
<1>7. (u * Q) % M = h
  <2>1. (t * P + r) * Q = t * (P * Q) + r * Q
    OBVIOUS
  <2>2. u * Q = t * M + h
    BY <1>2, <1>5, <2>1
  <2>3. h \in Nat /\ h < M /\ t \in Int
    BY <1>2, <1>5, <1>6
  <2> QED
    BY <1>1, <2>2, <2>3, DivModUnique
<1>8. k < M /\ k % M = k
  <2>1. k < M /\ k = 0 * M + k
    BY <1>3, <1>4, <1>5, <1>6
  <2> QED
    BY <1>1, <2>1, DivModUnique
<1>9. PICK n \in Nat : n = t * M + k
  BY <1>2
<1>10. Two(M, u, l) = n * P + z
  <2>1. (t * P + r) * M + (s * P + z) = (t * M + r * Q + s) * P + z
    <3>1. (t * P + r) * M = (t * M) * P + r * M
      OBVIOUS
    <3>2. r * M = (r * Q) * P
      OBVIOUS
    <3>3. (t * M + r * Q + s) * P = (t * M) * P + (r * Q) * P + s * P
      OBVIOUS
    <3> QED
      BY <3>1, <3>2, <3>3
  <2> QED
    BY <1>2, <1>3, <1>5, <1>9, <2>1 DEF Two
<1>11. (n * P + z) \div P = n
  BY <1>3, DivModUnique
<1>12. t \in 0..(M - 1) /\ k \in 0..(M - 1)
  BY <1>2, <1>8
<1> QED
  BY <1>2, <1>3, <1>5, <1>7, <1>8, <1>9, <1>10, <1>11, <1>12
  DEF ShiftsRight, Two

(* By a digit and P more.                                                  *)
ShiftsFarRight(M, P, u, l) ==
  /\ u \div P \in 0..(M - 1)
  /\ u \div P = Two(M, u, l) \div (M * P)

LEMMA TwoDigitsFarRight ==
  ASSUME NEW P \in Nat, P > 0, NEW M \in Nat, M > 0,
         NEW u \in 0..(M - 1), NEW l \in 0..(M - 1)
  PROVE  ShiftsFarRight(M, P, u, l)
<1>1. PICK t \in Nat, r \in Nat :
        t = u \div P /\ u = t * P + r /\ r < P /\ t <= u
  BY DivMod
<1>2. PICK K \in Nat, z \in Nat : K = M * P /\ z = r * M + l /\ K > 0
  BY <1>1
<1>3. z < K
  <2>1. (r + 1) * M <= P * M
    BY <1>1
  <2> QED
    BY <1>2, <2>1
<1>4. Two(M, u, l) = t * K + z
  <2>1. (t * P + r) * M + l = t * (M * P) + (r * M + l)
    BY <1>1
  <2> QED
    BY <1>1, <1>2, <2>1 DEF Two
<1>5. (t * K + z) \div K = t
  BY <1>2, <1>3, DivModUnique
<1> QED
  BY <1>1, <1>2, <1>4, <1>5 DEF ShiftsFarRight

-----------------------------------------------------------------------------
(* Shifts. *)

LEMMA Widths ==
  /\ 2^WordBits = Modulus
  /\ 2^(2 * WordBits) = Modulus * Modulus
  /\ 2^(4 * WordBits) = Capacity
<1>1. PICK w \in Nat : w = WordBits
  BY Sizes
<1>2. 2^(w + w) = 2^w * 2^w /\ 2^((w + w) + (w + w)) = 2^(w + w) * 2^(w + w)
  BY PowerOfSum
<1>3. w + w = 2 * w /\ (w + w) + (w + w) = 4 * w
  OBVIOUS
<1> QED
  BY <1>1, <1>2, <1>3 DEF Modulus, Capacity

(* A word of P times Q: P is the power of a shift, Q of what it leaves.    *)
LEMMA WordSplit ==
  ASSUME NEW w \in Nat, NEW v \in 0..w
  PROVE  /\ 2^v \in Nat /\ 2^v > 0
         /\ 2^(w - v) \in Nat /\ 2^(w - v) > 0
         /\ 2^w = 2^v * 2^(w - v)
BY PowersGrow, PowerIsPositive

LEMMA NothingIsLeft ==
  ASSUME NEW n \in Int, NEW w \in Nat, NEW v \in Nat, v >= w
  PROVE  (n * 2^v) % 2^w = 0
<1>1. PICK K \in Nat, P \in Nat : K = 2^w /\ K > 0 /\ 2^v = K * P
  <2>1. 2^v = 2^w * 2^(v - w) /\ 2^(v - w) \in Nat
    BY PowersGrow
  <2>2. 2^w \in Nat /\ 2^w > 0
    BY PowerIsPositive
  <2> QED
    BY <2>1, <2>2
<1>2. n * (K * P) = (n * P) * K + 0 /\ n * P \in Int
  BY <1>1
<1>3. ((n * P) * K + 0) % K = 0
  BY <1>1, <1>2, DivModUnique
<1> QED
  BY <1>1, <1>2, <1>3

LEMMA NothingIsRight ==
  ASSUME NEW n \in Nat, NEW w \in Nat, n < 2^w, NEW v \in Nat, v >= w
  PROVE  n \div 2^v = 0
<1>1. PICK P \in Nat : P = 2^v /\ P > 0 /\ n < P
  BY PowersGrow, PowerIsPositive
<1>2. n = 0 * P + n
  OBVIOUS
<1>3. (0 * P + n) \div P = 0
  BY <1>1, DivModUnique
<1> QED
  BY <1>1, <1>2, <1>3

(* What four cases of a shift amount to.                                   *)
LEMMA Shiftl128Cases ==
  ASSUME NEW a, NEW v \in Nat
  PROVE  /\ v >= 2 * WordBits => Shiftl128(a, v) = Small128(0)
         /\ v = 0 => Shiftl128(a, v) = a
         /\ v > 0 /\ v < WordBits =>
              Shiftl128(a, v)
                = Pair(Wrap(Left(a.upper, v) + Right(a.lower, WordBits - v)),
                       Left(a.lower, v))
         /\ v >= WordBits /\ v < 2 * WordBits =>
              Shiftl128(a, v) = Pair(Left(a.lower, v - WordBits), 0)
BY Sizes DEF Shiftl128

LEMMA Shiftr128Cases ==
  ASSUME NEW a, NEW v \in Nat
  PROVE  /\ v >= 2 * WordBits => Shiftr128(a, v) = Small128(0)
         /\ v = 0 => Shiftr128(a, v) = a
         /\ v > 0 /\ v < WordBits =>
              Shiftr128(a, v)
                = Pair(Right(a.upper, v),
                       Wrap(Left(a.upper, WordBits - v) + Right(a.lower, v)))
         /\ v >= WordBits /\ v < 2 * WordBits =>
              Shiftr128(a, v) = Pair(0, Right(a.upper, v - WordBits))
BY Sizes DEF Shiftr128

LEMMA Shiftl256Cases ==
  ASSUME NEW a, NEW v \in Nat
  PROVE  /\ v >= 4 * WordBits => Shiftl256(a, v) = Small256(0)
         /\ v = 0 => Shiftl256(a, v) = a
         /\ v > 0 /\ v < 2 * WordBits =>
              Shiftl256(a, v)
                = Pair(Add128(Shiftl128(a.upper, v),
                              Shiftr128(a.lower, 2 * WordBits - v)),
                       Shiftl128(a.lower, v))
         /\ v >= 2 * WordBits /\ v < 4 * WordBits =>
              Shiftl256(a, v)
                = Pair(Shiftl128(a.lower, v - 2 * WordBits), Small128(0))
BY Sizes DEF Shiftl256

LEMMA Shiftr256Cases ==
  ASSUME NEW a, NEW v \in Nat
  PROVE  /\ v >= 4 * WordBits => Shiftr256(a, v) = Small256(0)
         /\ v = 0 => Shiftr256(a, v) = a
         /\ v > 0 /\ v < 2 * WordBits =>
              Shiftr256(a, v)
                = Pair(Shiftr128(a.upper, v),
                       Add128(Shiftr128(a.lower, v),
                              Shiftl128(a.upper, 2 * WordBits - v)))
         /\ v >= 2 * WordBits /\ v < 4 * WordBits =>
              Shiftr256(a, v)
                = Pair(Small128(0), Shiftr128(a.upper, v - 2 * WordBits))
BY Sizes DEF Shiftr256

LEMMA Shiftl128Shifts ==
  ASSUME NEW a \in UInt128, NEW v \in Nat
  PROVE  /\ Shiftl128(a, v) \in UInt128
         /\ Value128(Shiftl128(a, v))
              = (Value128(a) * 2^v) % (Modulus * Modulus)
<1>1. PICK M \in Nat, w \in Nat, u \in Int, l \in Int :
        /\ M = Modulus /\ w = WordBits /\ M > 0 /\ M = 2^w
        /\ u = a.upper /\ l = a.lower
        /\ u \in 0..(M - 1) /\ l \in 0..(M - 1)
  BY Sizes, Widths, HalvesAreNumbers DEF Word
<1>2. PICK K \in Nat, n \in Nat :
        /\ K = M * M /\ K > 0 /\ n < K /\ K = 2^(2 * w)
        /\ n = Value128(a) /\ n = Two(M, u, l)
  <2>1. M * M \in Nat /\ M * M > 0
    BY <1>1
  <2> QED
    BY <1>1, <2>1, Widths, Value128InRange DEF Value128, Two
<1>3. CASE v >= 2 * w
  <2>1. (n * 2^v) % 2^(2 * w) = 0
    BY <1>3, NothingIsLeft
  <2> QED
    BY <1>1, <1>2, <1>3, <2>1, Sizes, Shiftl128Cases, SmallNumbers
<1>4. CASE v = 0
  <2>1. n * 2^v = n /\ n = 0 * K + n
    BY <1>4
  <2>2. (0 * K + n) % K = n
    BY <1>2, DivModUnique
  <2> QED
    BY <1>1, <1>2, <1>4, <2>1, <2>2, Shiftl128Cases
<1>5. CASE v > 0 /\ v < w
  <2>1. PICK P \in Nat, Q \in Nat :
          /\ P = 2^v /\ P > 0 /\ Q = 2^(w - v) /\ Q > 0 /\ M = P * Q
    BY <1>1, <1>5, WordSplit
  <2>2. ShiftsLeft(M, P, Q, u, l)
    BY <1>1, <2>1, TwoDigitsLeft
  <2>3. Shiftl128(a, v)
          = Pair((((u * P) % M) + (l \div Q)) % M, (l * P) % M)
    BY <1>1, <1>5, <2>1, Shiftl128Cases DEF Left, Right, Wrap
  <2> QED
    BY <1>1, <1>2, <2>1, <2>2, <2>3, PairsAreNumbers, ValueOfPair
    DEF ShiftsLeft, Word
<1>6. CASE v >= w /\ v < 2 * w
  <2>1. PICK x \in Nat, P \in Nat : x = v - w /\ P = 2^x /\ 2^v = M * P
    <3>1. v - w \in Nat /\ w + (v - w) = v
      BY <1>6
    <3> QED
      BY <1>1, <3>1, PowerOfSum, PowerIsPositive
  <2>2. ShiftsFarLeft(M, P, u, l)
    BY <1>1, TwoDigitsFarLeft
  <2>3. Shiftl128(a, v) = Pair((l * P) % M, 0)
    BY <1>1, <1>6, <2>1, Shiftl128Cases DEF Left, Wrap
  <2>4. PICK t \in 0..(M - 1) :
          t = (l * P) % M /\ Two(M, t, 0) = (n * 2^v) % K
    BY <1>2, <2>1, <2>2 DEF ShiftsFarLeft
  <2>5. Value128(Pair(t, 0)) = Two(M, t, 0)
    BY <1>1, ValueOfPair
  <2>6. Pair(t, 0) \in UInt128
    BY <1>1, <2>4, Sizes, PairsAreNumbers DEF Word
  <2> QED
    BY <1>1, <1>2, <2>3, <2>4, <2>5, <2>6
<1> QED
  BY <1>3, <1>4, <1>5, <1>6

LEMMA Shiftr128Shifts ==
  ASSUME NEW a \in UInt128, NEW v \in Nat
  PROVE  /\ Shiftr128(a, v) \in UInt128
         /\ Value128(Shiftr128(a, v)) = Value128(a) \div 2^v
<1>1. PICK M \in Nat, w \in Nat, u \in Int, l \in Int :
        /\ M = Modulus /\ w = WordBits /\ M > 0 /\ M = 2^w
        /\ u = a.upper /\ l = a.lower
        /\ u \in 0..(M - 1) /\ l \in 0..(M - 1)
  BY Sizes, Widths, HalvesAreNumbers DEF Word
<1>2. PICK K \in Nat, n \in Nat :
        /\ K = M * M /\ K > 0 /\ n < K /\ K = 2^(2 * w)
        /\ n = Value128(a) /\ n = Two(M, u, l)
  <2>1. M * M \in Nat /\ M * M > 0
    BY <1>1
  <2> QED
    BY <1>1, <2>1, Widths, Value128InRange DEF Value128, Two
<1>3. CASE v >= 2 * w
  <2>1. n \div 2^v = 0
    BY <1>2, <1>3, NothingIsRight
  <2> QED
    BY <1>1, <1>2, <1>3, <2>1, Sizes, Shiftr128Cases, SmallNumbers
<1>4. CASE v = 0
  <2>1. n \div 1 = n /\ 2^0 = 1
    OBVIOUS
  <2> QED
    BY <1>1, <1>2, <1>4, <2>1, Shiftr128Cases
<1>5. CASE v > 0 /\ v < w
  <2>1. PICK P \in Nat, Q \in Nat :
          /\ P = 2^v /\ P > 0 /\ Q = 2^(w - v) /\ Q > 0 /\ M = P * Q
    BY <1>1, <1>5, WordSplit
  <2>2. ShiftsRight(M, P, Q, u, l)
    BY <1>1, <2>1, TwoDigitsRight
  <2>3. Shiftr128(a, v)
          = Pair(u \div P, (((u * Q) % M) + (l \div P)) % M)
    BY <1>1, <1>5, <2>1, Shiftr128Cases DEF Left, Right, Wrap
  <2> QED
    BY <1>1, <1>2, <2>1, <2>2, <2>3, PairsAreNumbers, ValueOfPair
    DEF ShiftsRight, Word
<1>6. CASE v >= w /\ v < 2 * w
  <2>1. PICK x \in Nat, P \in Nat :
          x = v - w /\ P = 2^x /\ P > 0 /\ 2^v = M * P
    <3>1. v - w \in Nat /\ w + (v - w) = v
      BY <1>6
    <3> QED
      BY <1>1, <3>1, PowerOfSum, PowerIsPositive
  <2>2. ShiftsFarRight(M, P, u, l)
    BY <1>1, <2>1, TwoDigitsFarRight
  <2>3. Shiftr128(a, v) = Pair(0, u \div P)
    BY <1>1, <1>6, <2>1, Shiftr128Cases DEF Right
  <2>4. u \div P \in 0..(M - 1) /\ u \div P = n \div 2^v
    BY <1>2, <2>1, <2>2 DEF ShiftsFarRight
  <2>5. Value128(Pair(0, u \div P)) = u \div P
    <3>1. PICK t \in Int : t = u \div P
      BY <2>4
    <3>2. 0 * M + t = t
      OBVIOUS
    <3> QED
      BY <1>1, <3>1, <3>2, ValueOfPair DEF Two
  <2> QED
    BY <1>1, <1>2, <2>3, <2>4, <2>5, Sizes, PairsAreNumbers DEF Word
<1> QED
  BY <1>3, <1>4, <1>5, <1>6

LEMMA Shiftl256Shifts ==
  ASSUME NEW a \in UInt256, NEW v \in Nat
  PROVE  /\ Shiftl256(a, v) \in UInt256
         /\ Value(Shiftl256(a, v)) = (Value(a) * 2^v) % Capacity
<1>1. PICK K \in Nat, w \in Nat, u \in Int, l \in Int :
        /\ K = Modulus * Modulus /\ w = 2 * WordBits /\ K > 0 /\ K = 2^w
        /\ u = Value128(a.upper) /\ l = Value128(a.lower)
        /\ u \in 0..(K - 1) /\ l \in 0..(K - 1)
  <2>1. Modulus * Modulus \in Nat /\ Modulus * Modulus > 0
    BY Sizes
  <2> QED
    BY <2>1, Sizes, Widths, HalvesAreNumbers, Value128InRange
<1>2. PICK C \in Nat, n \in Nat :
        /\ C = K * K /\ C > 0 /\ n < C /\ C = 2^(2 * w) /\ C = Capacity
        /\ n = Value(a) /\ n = Two(K, u, l)
  <2>1. K * K \in Nat /\ K * K > 0
    BY <1>1
  <2>2. 2 * w = 4 * WordBits /\ Capacity = K * K
    BY <1>1, Sizes DEF Capacity
  <2>3. Value(a) \in 0..(Capacity - 1)
    BY ValueInRange DEF Capacity
  <2>4. Value(a) = Two(K, u, l)
    BY <1>1 DEF Value, Two
  <2> QED
    BY <2>1, <2>2, <2>3, <2>4, Widths
<1>3. a.upper \in UInt128 /\ a.lower \in UInt128
  BY HalvesAreNumbers
<1>4. /\ Small128(0) \in UInt128 /\ Value128(Small128(0)) = 0
      /\ Small256(0) \in UInt256 /\ Value(Small256(0)) = 0
  BY Sizes, SmallNumbers
<1>5. 2 * w = 4 * WordBits
  BY <1>1, Sizes
<1>10. K \in Nat /\ w \in Nat /\ K = 2^w
  BY <1>1
<1>6. CASE v >= 2 * w
  <2>1. (n * 2^v) % 2^(2 * w) = 0
    BY <1>6, NothingIsLeft
  <2> QED
    BY <1>2, <1>4, <1>5, <1>6, <2>1, Shiftl256Cases
<1>7. CASE v = 0
  <2>1. n * 2^v = n /\ n = 0 * C + n
    BY <1>7
  <2>2. (0 * C + n) % C = n
    BY <1>2, DivModUnique
  <2> QED
    BY <1>2, <1>7, <2>1, <2>2, Shiftl256Cases
<1>8. CASE v > 0 /\ v < w
  <2>1. PICK P \in Nat, Q \in Nat :
          /\ P = 2^v /\ P > 0 /\ Q = 2^(w - v) /\ Q > 0 /\ K = P * Q
    BY <1>8, <1>10, WordSplit
  <2>2. ShiftsLeft(K, P, Q, u, l)
    BY <1>1, <2>1, TwoDigitsLeft
  <2>3. PICK t \in 0..(K - 1), k \in 0..(K - 1) :
          /\ k = (l * P) % K
          /\ t = (((u * P) % K) + (l \div Q)) % K
          /\ Two(K, t, k) = (Two(K, u, l) * P) % (K * K)
    BY <2>2 DEF ShiftsLeft
  <2> DEFINE high == Shiftl128(a.upper, v)
             from == Shiftr128(a.lower, w - v)
             low  == Shiftl128(a.lower, v)
             half == Add128(high, from)
  <2>4. high \in UInt128 /\ Value128(high) = (u * P) % K
    BY <1>1, <1>3, <2>1, Shiftl128Shifts
  <2>5. low \in UInt128 /\ Value128(low) = k
    BY <1>1, <1>3, <2>1, <2>3, Shiftl128Shifts
  <2>6. from \in UInt128 /\ Value128(from) = l \div Q
    <3>1. w - v \in Nat
      BY <1>8
    <3> QED
      BY <1>1, <1>3, <2>1, <3>1, Shiftr128Shifts
  <2>7. half \in UInt128 /\ Value128(half) = t
    BY <1>1, <2>3, <2>4, <2>6, Add128Adds
  <2>8. Shiftl256(a, v) = Pair(half, low)
    BY <1>1, <1>8, Shiftl256Cases
  <2> HIDE DEF half, low
  <2>9. Pair(half, low) \in UInt256 /\ Value(Pair(half, low)) = Two(K, t, k)
    BY <1>1, <2>5, <2>7, PairsAreNumbers, ValueOfPair
  <2> QED
    BY <1>2, <2>1, <2>3, <2>8, <2>9
<1>9. CASE v >= w /\ v < 2 * w
  <2>1. PICK x \in Nat, P \in Nat : x = v - w /\ P = 2^x /\ 2^v = K * P
    <3>1. v - w \in Nat /\ w + (v - w) = v
      BY <1>9
    <3> QED
      BY <1>10, <3>1, PowerOfSum, PowerIsPositive
  <2>2. ShiftsFarLeft(K, P, u, l)
    BY <1>1, TwoDigitsFarLeft
  <2>3. PICK t \in 0..(K - 1) :
          t = (l * P) % K /\ Two(K, t, 0) = (n * 2^v) % C
    BY <1>2, <2>1, <2>2 DEF ShiftsFarLeft
  <2> DEFINE half == Shiftl128(a.lower, x)
  <2>4. half \in UInt128 /\ Value128(half) = t
    <3>1. x \in Nat /\ a.lower \in UInt128
      BY <1>3, <2>1
    <3>2. /\ half \in UInt128
          /\ Value128(half)
               = (Value128(a.lower) * 2^x) % (Modulus * Modulus)
      BY <3>1, Shiftl128Shifts
    <3>3. Value128(a.lower) = l /\ 2^x = P /\ Modulus * Modulus = K
      BY <1>1, <2>1
    <3> QED
      BY <2>3, <3>2, <3>3
  <2>5. Shiftl256(a, v) = Pair(half, Small128(0))
    BY <1>1, <1>5, <1>9, <2>1, Shiftl256Cases
  <2> HIDE DEF half
  <2>6. /\ Pair(half, Small128(0)) \in UInt256
        /\ Value(Pair(half, Small128(0))) = Two(K, t, 0)
    BY <1>1, <1>4, <2>4, PairsAreNumbers, ValueOfPair
  <2> QED
    BY <1>2, <2>3, <2>5, <2>6
<1> QED
  BY <1>6, <1>7, <1>8, <1>9

LEMMA Shiftr256Shifts ==
  ASSUME NEW a \in UInt256, NEW v \in Nat
  PROVE  /\ Shiftr256(a, v) \in UInt256
         /\ Value(Shiftr256(a, v)) = Value(a) \div 2^v
<1>1. PICK K \in Nat, w \in Nat, u \in Int, l \in Int :
        /\ K = Modulus * Modulus /\ w = 2 * WordBits /\ K > 0 /\ K = 2^w
        /\ u = Value128(a.upper) /\ l = Value128(a.lower)
        /\ u \in 0..(K - 1) /\ l \in 0..(K - 1)
  <2>1. Modulus * Modulus \in Nat /\ Modulus * Modulus > 0
    BY Sizes
  <2> QED
    BY <2>1, Sizes, Widths, HalvesAreNumbers, Value128InRange
<1>2. PICK C \in Nat, n \in Nat :
        /\ C = K * K /\ C > 0 /\ n < C /\ C = 2^(2 * w) /\ C = Capacity
        /\ n = Value(a) /\ n = Two(K, u, l)
  <2>1. K * K \in Nat /\ K * K > 0
    BY <1>1
  <2>2. 2 * w = 4 * WordBits /\ Capacity = K * K
    BY <1>1, Sizes DEF Capacity
  <2>3. Value(a) \in 0..(Capacity - 1)
    BY ValueInRange DEF Capacity
  <2>4. Value(a) = Two(K, u, l)
    BY <1>1 DEF Value, Two
  <2> QED
    BY <2>1, <2>2, <2>3, <2>4, Widths
<1>3. a.upper \in UInt128 /\ a.lower \in UInt128
  BY HalvesAreNumbers
<1>4. /\ Small128(0) \in UInt128 /\ Value128(Small128(0)) = 0
      /\ Small256(0) \in UInt256 /\ Value(Small256(0)) = 0
  BY Sizes, SmallNumbers
<1>5. 2 * w = 4 * WordBits
  BY <1>1, Sizes
<1>10. K \in Nat /\ w \in Nat /\ K = 2^w
  BY <1>1
<1>6. CASE v >= 2 * w
  <2>1. n \div 2^v = 0
    BY <1>2, <1>6, NothingIsRight
  <2> QED
    BY <1>2, <1>4, <1>5, <1>6, <2>1, Shiftr256Cases
<1>7. CASE v = 0
  <2>1. n \div 1 = n /\ 2^0 = 1
    OBVIOUS
  <2> QED
    BY <1>2, <1>7, <2>1, Shiftr256Cases
<1>8. CASE v > 0 /\ v < w
  <2>1. PICK P \in Nat, Q \in Nat :
          /\ P = 2^v /\ P > 0 /\ Q = 2^(w - v) /\ Q > 0 /\ K = P * Q
    BY <1>8, <1>10, WordSplit
  <2>2. ShiftsRight(K, P, Q, u, l)
    BY <1>1, <2>1, TwoDigitsRight
  <2>3. PICK t \in 0..(K - 1), k \in 0..(K - 1) :
          /\ t = u \div P
          /\ k = (((u * Q) % K) + (l \div P)) % K
          /\ Two(K, t, k) = Two(K, u, l) \div P
    BY <2>2 DEF ShiftsRight
  <2> DEFINE high == Shiftr128(a.upper, v)
             from == Shiftl128(a.upper, w - v)
             low  == Shiftr128(a.lower, v)
             half == Add128(low, from)
  <2>4. high \in UInt128 /\ Value128(high) = t
    BY <1>1, <1>3, <2>1, <2>3, Shiftr128Shifts
  <2>5. low \in UInt128 /\ Value128(low) = l \div P
    BY <1>1, <1>3, <2>1, Shiftr128Shifts
  <2>6. from \in UInt128 /\ Value128(from) = (u * Q) % K
    <3>1. w - v \in Nat
      BY <1>8
    <3> QED
      BY <1>1, <1>3, <2>1, <3>1, Shiftl128Shifts
  <2>7. half \in UInt128 /\ Value128(half) = k
    <3>1. PICK x \in Int, y \in Int : x = (u * Q) % K /\ y = l \div P
      BY <1>1, <2>1
    <3>2. y + x = x + y
      OBVIOUS
    <3> QED
      BY <1>1, <2>3, <2>5, <2>6, <3>1, <3>2, Add128Adds
  <2>8. Shiftr256(a, v) = Pair(high, half)
    BY <1>1, <1>8, Shiftr256Cases
  <2> HIDE DEF high, half
  <2>9. Pair(high, half) \in UInt256 /\ Value(Pair(high, half)) = Two(K, t, k)
    BY <1>1, <2>4, <2>7, PairsAreNumbers, ValueOfPair
  <2> QED
    BY <1>2, <2>1, <2>3, <2>8, <2>9
<1>9. CASE v >= w /\ v < 2 * w
  <2>1. PICK x \in Nat, P \in Nat :
          x = v - w /\ P = 2^x /\ P > 0 /\ 2^v = K * P
    <3>1. v - w \in Nat /\ w + (v - w) = v
      BY <1>9
    <3> QED
      BY <1>10, <3>1, PowerOfSum, PowerIsPositive
  <2>2. ShiftsFarRight(K, P, u, l)
    BY <1>1, <2>1, TwoDigitsFarRight
  <2>3. PICK t \in 0..(K - 1) : t = u \div P /\ t = n \div 2^v
    BY <1>2, <2>1, <2>2 DEF ShiftsFarRight
  <2> DEFINE half == Shiftr128(a.upper, x)
  <2>4. half \in UInt128 /\ Value128(half) = t
    BY <1>1, <1>3, <2>1, <2>3, Shiftr128Shifts
  <2>5. Shiftr256(a, v) = Pair(Small128(0), half)
    BY <1>1, <1>5, <1>9, <2>1, Shiftr256Cases
  <2> HIDE DEF half
  <2>6. /\ Pair(Small128(0), half) \in UInt256
        /\ Value(Pair(Small128(0), half)) = Two(K, 0, t)
    BY <1>1, <1>4, <2>4, PairsAreNumbers, ValueOfPair
  <2>7. Two(K, 0, t) = t
    BY DEF Two
  <2> QED
    BY <1>2, <2>3, <2>5, <2>6, <2>7
<1> QED
  BY <1>6, <1>7, <1>8, <1>9

-----------------------------------------------------------------------------
(* The number of bits. *)

LEMMA LeastNatural ==
  ASSUME NEW S, S \subseteq Nat, S # {}
  PROVE  \E n \in S : \A m \in S : n <= m
<1>1. PICK x \in S : \A y \in S : ~ (<<y, x>> \in OpToRel(<, Nat))
  BY NatLessThanWellFounded, WFMin
<1>2. \A y \in S : ~(y < x)
  BY <1>1 DEF OpToRel
<1> QED
  BY <1>2

(* n is the number of bits of m.                                           *)
Bitlength(m, n) == m < 2^n /\ (n = 0 \/ m >= 2^(n - 1))

LEMMA BitlengthExists ==
  ASSUME NEW m \in Nat, NEW w \in Nat, m < 2^w
  PROVE  \E n \in 0..w : Bitlength(m, n)
<1> DEFINE S == {n \in Nat : m < 2^n}
<1>1. S \subseteq Nat /\ w \in S
  OBVIOUS
<1>2. PICK n \in S : \A k \in S : n <= k
  BY <1>1, LeastNatural
<1>3. n \in 0..w
  BY <1>1, <1>2
<1>4. ASSUME n # 0 PROVE m >= 2^(n - 1)
  <2>1. n - 1 \in Nat /\ n - 1 \notin S
    BY <1>2, <1>3, <1>4
  <2>2. 2^(n - 1) \in Nat
    BY <2>1, PowerIsPositive
  <2> QED
    BY <2>1, <2>2
<1> QED
  BY <1>3, <1>4 DEF Bitlength

LEMMA BitsOfWordIsLength ==
  ASSUME NEW m \in Word
  PROVE  BitsOfWord(m) \in 0..WordBits /\ Bitlength(m, BitsOfWord(m))
<1>1. m \in Nat /\ WordBits \in Nat /\ m < 2^WordBits
  BY Sizes, Widths DEF Word
<1>2. \E n \in 0..WordBits : Bitlength(m, n)
  BY <1>1, BitlengthExists
<1>3. BitsOfWord(m) = CHOOSE n \in 0..WordBits : Bitlength(m, n)
  BY DEF BitsOfWord, Bitlength
<1> QED
  BY <1>2, <1>3

(* The bits of an upper digit that is not zero come before the lower one's *)
(* width.                                                                  *)
LEMMA BitsOfTwoDigits ==
  ASSUME NEW w \in Nat, NEW u \in Nat, NEW l \in Nat, l < 2^w, u > 0,
         NEW n \in Nat, Bitlength(u, n)
  PROVE  Bitlength(Two(2^w, u, l), w + n)
<1>1. PICK M \in Nat, N \in Nat :
        /\ M = 2^w /\ N = 2^n /\ M > 0 /\ l < M /\ u < N
        /\ 2^(w + n) = M * N
  <2>1. /\ 2^w \in Nat /\ 2^w > 0 /\ 2^n \in Nat
        /\ 2^(w + n) = 2^w * 2^n
    BY PowerIsPositive, PowerOfSum
  <2> QED
    BY <2>1 DEF Bitlength
<1>2. u * M + l < M * N
  <2>1. (u + 1) * M <= N * M
    BY <1>1
  <2> QED
    BY <1>1, <2>1
<1>3. n # 0
  <2> SUFFICES ASSUME n = 0 PROVE FALSE
    OBVIOUS
  <2>1. 2^0 = 1
    OBVIOUS
  <2>2. N = 1 /\ u < N
    BY <1>1, <2>1
  <2> QED
    BY <2>2
<1>4. PICK k \in Nat, L \in Nat :
        k = n - 1 /\ L = 2^k /\ u >= L /\ 2^(w + k) = M * L
  <2>1. n - 1 \in Nat /\ u >= 2^(n - 1)
    BY <1>3 DEF Bitlength
  <2> QED
    BY <1>1, <2>1, PowerIsPositive, PowerOfSum
<1>5. u * M + l >= M * L
  BY <1>1, <1>4
<1>6. w + n - 1 = w + k
  BY <1>4
<1> QED
  BY <1>1, <1>2, <1>4, <1>5, <1>6 DEF Bitlength, Two

LEMMA Bits128IsLength ==
  ASSUME NEW a \in UInt128
  PROVE  /\ Bits128(a) \in 0..(2 * WordBits)
         /\ Bitlength(Value128(a), Bits128(a))
<1>1. PICK w \in Nat, u \in Nat, l \in Nat :
        /\ w = WordBits /\ Modulus = 2^w /\ u = a.upper /\ l = a.lower
        /\ u \in Word /\ l \in Word /\ l < 2^w
  BY Sizes, Widths, HalvesAreNumbers DEF Word
<1>2. Value128(a) = Two(2^w, u, l)
  BY <1>1 DEF Value128, Two
<1>3. CASE u # 0
  <2>1. PICK n \in 0..w : n = BitsOfWord(u) /\ Bitlength(u, n)
    BY <1>1, BitsOfWordIsLength
  <2>2. u > 0 /\ n \in Nat
    BY <1>3
  <2>3. Bitlength(Two(2^w, u, l), w + n)
    BY <1>1, <2>1, <2>2, BitsOfTwoDigits
  <2>4. Bits128(a) = w + n
    BY <1>1, <1>3, <2>1 DEF Bits128
  <2> QED
    BY <1>1, <1>2, <2>3, <2>4
<1>4. CASE u = 0
  <2>1. PICK n \in 0..w : n = BitsOfWord(l) /\ Bitlength(l, n)
    BY <1>1, BitsOfWordIsLength
  <2>2. Bits128(a) = n
    BY <1>1, <1>4, <2>1 DEF Bits128
  <2>3. Two(2^w, u, l) = l
    <3>1. 2^w \in Nat
      BY PowerIsPositive
    <3> QED
      BY <1>4, <3>1 DEF Two
  <2> QED
    BY <1>1, <1>2, <2>1, <2>2, <2>3
<1> QED
  BY <1>3, <1>4

LEMMA Bits256IsLength ==
  ASSUME NEW a \in UInt256
  PROVE  /\ Bits256(a) \in 0..(4 * WordBits)
         /\ Bitlength(Value(a), Bits256(a))
<1>1. PICK w \in Nat, u \in Nat, l \in Nat :
        /\ w = 2 * WordBits /\ Modulus * Modulus = 2^w
        /\ u = Value128(a.upper) /\ l = Value128(a.lower) /\ l < 2^w
  <2>1. a.upper \in UInt128 /\ a.lower \in UInt128
    BY HalvesAreNumbers
  <2>2. 2 * WordBits \in Nat /\ 2^(2 * WordBits) \in Nat
    BY Sizes, PowerIsPositive
  <2> QED
    BY <2>1, <2>2, Widths, Value128InRange
<1>2. Value(a) = Two(2^w, u, l)
  BY <1>1 DEF Value, Two
<1>3. /\ a.upper \in UInt128 /\ a.lower \in UInt128
      /\ a.upper = Small128(0) <=> u = 0
  BY <1>1, Sizes, HalvesAreNumbers, SmallNumbers, Order128
<1>4. CASE u # 0
  <2>1. PICK n \in 0..w : n = Bits128(a.upper) /\ Bitlength(u, n)
    BY <1>1, <1>3, Bits128IsLength
  <2>2. u > 0 /\ n \in Nat
    BY <1>4
  <2>3. w \in Nat /\ u \in Nat /\ l \in Nat /\ l < 2^w
    BY <1>1
  <2>4. Bitlength(Two(2^w, u, l), w + n)
    BY <2>1, <2>2, <2>3, BitsOfTwoDigits
  <2>5. Bits256(a) = w + n
    BY <1>1, <1>3, <1>4, <2>1 DEF Bits256
  <2>6. w + n \in 0..(4 * WordBits)
    BY <1>1, <2>1, Sizes
  <2> QED
    BY <1>2, <2>4, <2>5, <2>6
<1>5. CASE u = 0
  <2>1. PICK n \in 0..w : n = Bits128(a.lower) /\ Bitlength(l, n)
    BY <1>1, <1>3, Bits128IsLength
  <2>2. Bits256(a) = n
    BY <1>1, <1>3, <1>5, <2>1 DEF Bits256
  <2>3. Two(2^w, u, l) = l
    <3>1. 2^w \in Nat
      BY PowerIsPositive
    <3> QED
      BY <1>5, <3>1 DEF Two
  <2>4. n \in 0..(4 * WordBits)
    BY <1>1, <2>1, Sizes
  <2> QED
    BY <1>2, <2>1, <2>2, <2>3, <2>4
<1> QED
  BY <1>4, <1>5

-----------------------------------------------------------------------------
(* Bits by themselves. *)

Bit(m, i) == (m \div 2^i) % 2

(* The lower bits of a number, one more and one less.                      *)
LEMMA LowBits ==
  ASSUME NEW m \in Nat, NEW i \in Nat
  PROVE  /\ Bit(m, i) \in {0, 1}
         /\ m % 2^(i + 1) = Bit(m, i) * 2^i + (m % 2^i)
<1>1. PICK P \in Nat, K \in Nat :
        P = 2^i /\ P > 0 /\ K = 2^(i + 1) /\ K = 2 * P
  BY PowerIsPositive, PowerSteps
<1>2. PICK q \in Nat, r \in Nat :
        q = m \div P /\ r = m % P /\ m = q * P + r /\ r < P
  BY <1>1, DivMod
<1>3. PICK d \in Int, b \in {0, 1} : b = q % 2 /\ q = d * 2 + b
  BY DivMod
<1>4. m = d * K + (b * P + r)
  BY <1>1, <1>2, <1>3
<1>5. b * P + r \in Nat /\ b * P + r < K
  BY <1>1, <1>2, <1>3
<1>6. PICK s \in Nat : s = b * P + r /\ s < K
  BY <1>5
<1>7. (d * K + s) % K = s
  BY <1>1, <1>6, DivModUnique
<1> QED
  BY <1>1, <1>2, <1>3, <1>4, <1>6, <1>7 DEF Bit

LEMMA SameBits ==
  ASSUME NEW m \in Nat, NEW n \in Nat, NEW w \in Nat, m < 2^w, n < 2^w,
         \A i \in 0..(w - 1) : Bit(m, i) = Bit(n, i)
  PROVE  m = n
<1> DEFINE S == {i \in Nat : i <= w => m % 2^i = n % 2^i}
<1>1. S \subseteq Nat
  OBVIOUS
<1>2. 0 \in S
  <2>1. 2^0 = 1 /\ m % 1 = 0 /\ n % 1 = 0
    OBVIOUS
  <2> QED
    BY <2>1
<1>3. ASSUME NEW i \in S PROVE i + 1 \in S
  <2> SUFFICES ASSUME i + 1 <= w PROVE m % 2^(i + 1) = n % 2^(i + 1)
    OBVIOUS
  <2>1. i \in Nat /\ i \in 0..(w - 1) /\ m % 2^i = n % 2^i
    BY <1>3
  <2>2. Bit(m, i) = Bit(n, i)
    BY <2>1
  <2>3. /\ m % 2^(i + 1) = Bit(m, i) * 2^i + (m % 2^i)
        /\ n % 2^(i + 1) = Bit(n, i) * 2^i + (n % 2^i)
    BY <2>1, LowBits
  <2> QED
    BY <2>1, <2>2, <2>3
<1>4. S = Nat
  BY <1>1, <1>2, <1>3, NaturalsByInduction
<1>5. m % 2^w = n % 2^w
  BY <1>4
<1>6. \A k \in Nat : k < 2^w => k % 2^w = k
  <2>1. PICK K \in Nat : K = 2^w /\ K > 0
    BY PowerIsPositive
  <2>2. ASSUME NEW k \in Nat, k < K PROVE k % K = k
    <3>1. (0 * K + k) % K = k
      BY <2>1, <2>2, DivModUnique
    <3> QED
      BY <3>1
  <2> QED
    BY <2>1, <2>2
<1> QED
  BY <1>5, <1>6

LEMMA NoBitsOfZero ==
  ASSUME NEW i \in Nat
  PROVE  Bit(0, i) = 0
<1>1. PICK P \in Nat : P = 2^i /\ P > 0
  BY PowerIsPositive
<1>2. (0 * P + 0) \div P = 0
  BY <1>1, DivModUnique
<1> QED
  BY <1>1, <1>2 DEF Bit

(* A number all of whose bits up to the j-th are free, with that bit.      *)
BitAdded(m, j, i) == Bit(m + 2^j, i) = IF i = j THEN 1 ELSE Bit(m, i)

LEMMA BitAbove ==
  ASSUME NEW m \in Nat, NEW j \in Nat, m % 2^(j + 1) = 0,
         NEW i \in Nat, i > j
  PROVE  /\ (m + 2^j) \div 2^i = m \div 2^i
         /\ m < 2^i => m + 2^j < 2^i
<1>1. PICK J \in Nat, D \in Nat :
        J = 2^j /\ J > 0 /\ D = 2^(j + 1) /\ D = 2 * J
  BY PowerIsPositive, PowerSteps
<1>2. PICK e \in Nat, I \in Nat : e > 0 /\ I = 2^i /\ I = D * e
  <2>1. j + 1 \in Nat /\ j + 1 <= i
    OBVIOUS
  <2>2. 2^i = 2^(j + 1) * 2^(i - (j + 1)) /\ 2^(i - (j + 1)) \in Nat
          /\ 2^(i - (j + 1)) > 0
    BY <2>1, PowersGrow
  <2>3. 2^i \in Nat
    BY PowerIsPositive
  <2> QED
    BY <1>1, <2>2, <2>3
<1>3. PICK q \in Nat : m = q * D
  BY <1>1, DivMod
<1>13. e \in Nat /\ e > 0
  BY <1>2
<1>4. PICK a \in Nat, b \in Nat : q = a * e + b /\ b < e
  <2>1. /\ q \div e \in Nat /\ q % e \in Nat /\ q % e < e
        /\ q = (q \div e) * e + (q % e)
    BY <1>13, DivMod
  <2> QED
    BY <2>1
<1>5. PICK r \in Nat : r = b * D
  BY <1>4
<1>6. m = a * I + r
  <2>1. (a * e + b) * D = a * (D * e) + b * D
    OBVIOUS
  <2> QED
    BY <1>2, <1>3, <1>4, <1>5, <2>1
<1>7. r + J < I
  <2>1. (b + 1) * D <= e * D
    BY <1>4
  <2>2. (b + 1) * D = b * D + D /\ e * D = D * e
    OBVIOUS
  <2>3. r + D <= I
    BY <1>2, <1>5, <2>1, <2>2
  <2> QED
    BY <1>1, <2>3
<1>8. m + J = a * I + (r + J) /\ r + J \in Nat
  BY <1>1, <1>6
<1>9. r \in Nat /\ J \in Nat /\ a \in Int /\ I \in Nat /\ I > 0 /\ r < I
  BY <1>1, <1>7
<1>10. PICK s \in Nat : s = r + J /\ s < I
  BY <1>7, <1>8
<1>11. (a * I + r) \div I = a /\ (a * I + s) \div I = a
  BY <1>9, <1>10, DivModUnique
<1>12. ASSUME m < I PROVE m + J < I
  <2>1. a = 0
    <3> SUFFICES ASSUME a >= 1 PROVE FALSE
      BY <1>9
    <3>1. a * I >= I
      BY <1>9
    <3> QED
      BY <1>6, <1>9, <1>12, <3>1
  <2>2. m = r
    BY <1>6, <2>1
  <2> QED
    BY <1>7, <2>2
<1> QED
  BY <1>1, <1>2, <1>6, <1>8, <1>10, <1>11, <1>12

LEMMA BitIsAdded ==
  ASSUME NEW m \in Nat, NEW j \in Nat, m % 2^(j + 1) = 0, NEW i \in Nat
  PROVE  BitAdded(m, j, i) /\ (i = j => Bit(m, i) = 0)
<1>1. PICK J \in Nat, D \in Nat :
        J = 2^j /\ J > 0 /\ D = 2^(j + 1) /\ D = 2 * J
  BY PowerIsPositive, PowerSteps
<1>2. PICK q \in Nat : m = q * D
  BY <1>1, DivMod
<1>3. CASE i > j
  <2>1. (m + 2^j) \div 2^i = m \div 2^i
    BY <1>3, BitAbove
  <2>2. Bit(m + 2^j, i) = Bit(m, i)
    BY <2>1 DEF Bit
  <2> QED
    BY <1>3, <2>2 DEF BitAdded
<1>4. CASE i = j
  <2>1. m = (2 * q) * J + 0 /\ m + J = (2 * q + 1) * J + 0
    BY <1>1, <1>2
  <2>2. PICK x \in Int, y \in Int : x = 2 * q /\ y = 2 * q + 1
    OBVIOUS
  <2>3. (x * J + 0) \div J = x /\ (y * J + 0) \div J = y
    BY <1>1, DivModUnique
  <2>4. x % 2 = 0 /\ y % 2 = 1
    BY <2>2
  <2> QED
    BY <1>1, <1>4, <2>1, <2>2, <2>3, <2>4 DEF BitAdded, Bit
<1>5. CASE i < j
  <2>1. PICK I \in Nat, e \in Nat : I = 2^i /\ I > 0 /\ J = (2 * I) * e
    <3>1. i + 1 \in Nat /\ i + 1 <= j
      BY <1>5
    <3>2. 2^j = 2^(i + 1) * 2^(j - (i + 1)) /\ 2^(j - (i + 1)) \in Nat
      BY <3>1, PowersGrow
    <3>3. 2^i \in Nat /\ 2^i > 0 /\ 2^(i + 1) = 2 * 2^i
      BY PowerIsPositive, PowerSteps
    <3> QED
      BY <1>1, <3>2, <3>3
  <2>2. PICK k \in Int : k = q * (2 * e)
    OBVIOUS
  <2>3. m = (2 * k) * I + 0
    <3>1. q * (2 * ((2 * I) * e)) = (2 * (q * (2 * e))) * I
      OBVIOUS
    <3> QED
      BY <1>1, <1>2, <2>1, <2>2, <3>1
  <2>4. m + J = (2 * (k + e)) * I + 0
    <3>1. (2 * I) * e = (2 * e) * I
      OBVIOUS
    <3>2. (2 * (k + e)) * I = (2 * k) * I + (2 * e) * I
      OBVIOUS
    <3> QED
      BY <2>1, <2>3, <3>1, <3>2
  <2>5. PICK x \in Int, y \in Int : x = 2 * k /\ y = 2 * (k + e)
    OBVIOUS
  <2>6. (x * I + 0) \div I = x /\ (y * I + 0) \div I = y
    BY <2>1, DivModUnique
  <2>7. x % 2 = 0 /\ y % 2 = 0
    BY <2>5
  <2>8. Bit(m, i) = 0
    BY <2>1, <2>3, <2>5, <2>6, <2>7 DEF Bit
  <2>9. Bit(m + J, i) = 0
    BY <2>1, <2>4, <2>5, <2>6, <2>7 DEF Bit
  <2> QED
    BY <1>1, <1>5, <2>8, <2>9 DEF BitAdded
<1> QED
  BY <1>3, <1>4, <1>5

LEMMA InBitSet ==
  ASSUME NEW m, NEW i
  PROVE  i \in BitSet(m) <=> i \in 0..(WordBits - 1) /\ Bit(m, i) = 1
BY DEF BitSet, Bit

LEMMA OrWordIs ==
  ASSUME NEW v \in Word, NEW x \in Word, NEW n \in Word,
         BitSet(n) = BitSet(v) \cup BitSet(x)
  PROVE  OrWord(v, x) = n
<1>1. ASSUME NEW m \in Word, BitSet(m) = BitSet(v) \cup BitSet(x)
      PROVE  m = n
  <2>1. /\ m \in Nat /\ n \in Nat /\ WordBits \in Nat
        /\ m < 2^WordBits /\ n < 2^WordBits
    BY Sizes, Widths DEF Word
  <2>2. ASSUME NEW i \in 0..(WordBits - 1) PROVE Bit(m, i) = Bit(n, i)
    <3>4. i \in Nat
      BY <2>1
    <3>1. Bit(m, i) \in {0, 1} /\ Bit(n, i) \in {0, 1}
      BY <2>1, <3>4, LowBits
    <3>2. i \in BitSet(m) <=> i \in BitSet(n)
      BY <1>1
    <3>3. Bit(m, i) = 1 <=> Bit(n, i) = 1
      BY <3>2, InBitSet
    <3> QED
      BY <3>1, <3>3
  <2> QED
    BY <2>1, <2>2, SameBits
<1>2. \A m \in Word : BitSet(m) = BitSet(v) \cup BitSet(x) <=> m = n
  BY <1>1
<1> QED
  BY <1>2 DEF OrWord

LEMMA OrWordNothing ==
  ASSUME NEW v \in Word
  PROVE  OrWord(v, 0) = v
<1>1. 0 \in Word
  BY Sizes
<1>2. BitSet(0) = {}
  <2>1. \A i \in 0..(WordBits - 1) : i \in Nat /\ Bit(0, i) = 0
    BY Sizes, NoBitsOfZero
  <2> QED
    BY <2>1, InBitSet
<1> QED
  BY <1>1, <1>2, OrWordIs

LEMMA OrWordBit ==
  ASSUME NEW v \in Word, NEW j \in 0..(WordBits - 1), v % 2^(j + 1) = 0
  PROVE  /\ 2^j \in Word /\ v + 2^j \in Word
         /\ OrWord(v, 2^j) = v + 2^j
<1>1. /\ v \in Nat /\ j \in Nat /\ WordBits \in Nat /\ WordBits > j
      /\ v < 2^WordBits /\ 0 < 2^WordBits
  BY Sizes, Widths DEF Word
<1>2. v + 2^j < 2^WordBits
  BY <1>1, BitAbove
<1>3. 0 % 2^(j + 1) = 0
  <2>1. PICK D \in Nat : D = 2^(j + 1) /\ D > 0
    BY <1>1, PowerIsPositive
  <2>2. (0 * D + 0) % D = 0
    BY <2>1, DivModUnique
  <2> QED
    BY <2>1, <2>2
<1>4. 0 + 2^j < 2^WordBits
  BY <1>1, <1>3, BitAbove
<1>5. PICK J \in Nat, M \in Nat : J = 2^j /\ M = 2^WordBits /\ M = Modulus
  BY <1>1, PowerIsPositive, Widths
<1>6. J \in Word /\ v + J \in Word
  BY <1>1, <1>2, <1>4, <1>5 DEF Word
<1>7. ASSUME NEW i \in 0..(WordBits - 1)
      PROVE  i \in BitSet(v + J) <=> i \in BitSet(v) \cup BitSet(J)
  <2>1. i \in Nat /\ 0 + J = J
    BY <1>1
  <2>2. BitAdded(v, j, i) /\ BitAdded(0, j, i) /\ Bit(0, i) = 0
    BY <1>1, <1>3, <2>1, BitIsAdded, NoBitsOfZero
  <2>3. /\ Bit(v + J, i) = IF i = j THEN 1 ELSE Bit(v, i)
        /\ Bit(J, i) = IF i = j THEN 1 ELSE 0
    BY <1>5, <2>1, <2>2 DEF BitAdded
  <2>4. Bit(v + J, i) = 1 <=> Bit(v, i) = 1 \/ Bit(J, i) = 1
    BY <2>3
  <2> QED
    BY <2>4, InBitSet
<1>8. BitSet(v + J) = BitSet(v) \cup BitSet(J)
  BY <1>7 DEF BitSet
<1> QED
  BY <1>5, <1>6, <1>8, OrWordIs

-----------------------------------------------------------------------------
(* A bit that is free is set by adding it. *)

(* Up to which place the digits of a number are free that is free up to    *)
(* the d-th.                                                               *)
LEMMA FreeDigits ==
  ASSUME NEW w \in Nat, NEW M \in Nat, M = 2^w,
         NEW u \in 0..(M - 1), NEW l \in 0..(M - 1),
         NEW d \in Nat, Two(M, u, l) % 2^(d + 1) = 0
  PROVE  /\ d < w => l % 2^(d + 1) = 0
         /\ d >= w => u % 2^((d - w) + 1) = 0
<1>1. PICK D \in Nat : D = 2^(d + 1) /\ D > 0
  BY PowerIsPositive
<1>2. M > 0
  OBVIOUS
<1>3. PICK z \in Int : u * M + l = z * D + 0
  <2>1. PICK n \in Int : n = Two(M, u, l)
    BY DEF Two
  <2>2. n = (n \div D) * D + (n % D) /\ n \div D \in Int /\ n % D = 0
    BY <1>1, <2>1, DivMod
  <2> QED
    BY <2>1, <2>2 DEF Two
<1>4. CASE d < w
  <2>1. PICK e \in Nat : M = D * e
    <3>1. d + 1 \in Nat /\ d + 1 <= w
      BY <1>4
    <3>2. 2^w = 2^(d + 1) * 2^(w - (d + 1)) /\ 2^(w - (d + 1)) \in Nat
      BY <3>1, PowersGrow
    <3> QED
      BY <1>1, <3>2
  <2>2. PICK y \in Int : y = z - u * e
    OBVIOUS
  <2>3. l = y * D + 0
    <3>1. u * (D * e) = (u * e) * D
      OBVIOUS
    <3>2. (z - u * e) * D = z * D - (u * e) * D
      OBVIOUS
    <3> QED
      BY <1>3, <2>1, <2>2, <3>1, <3>2
  <2>4. (y * D + 0) % D = 0
    BY <1>1, DivModUnique
  <2> QED
    BY <1>1, <1>4, <2>3, <2>4
<1>5. CASE d >= w
  <2>1. PICK E \in Nat : E = 2^((d - w) + 1) /\ E > 0 /\ D = M * E
    <3>1. PICK k \in Nat : k = (d - w) + 1 /\ w + k = d + 1
      BY <1>5
    <3>2. 2^(w + k) = 2^w * 2^k /\ 2^k \in Nat /\ 2^k > 0
      BY PowerIsPositive, PowerOfSum
    <3> QED
      BY <1>1, <3>1, <3>2
  <2>2. PICK x \in Int : x = z * E
    OBVIOUS
  <2>3. u * M + l = x * M + 0
    <3>1. z * (M * E) = (z * E) * M
      OBVIOUS
    <3> QED
      BY <1>3, <2>1, <2>2, <3>1
  <2>4. (u * M + l) \div M = u /\ (x * M + 0) \div M = x
    BY <1>2, DivModUnique
  <2>5. u = z * E + 0
    BY <2>2, <2>3, <2>4
  <2>6. E \in Nat /\ E > 0
    BY <2>1
  <2>7. (z * E + 0) % E = 0
    BY <2>6, DivModUnique
  <2> QED
    BY <1>5, <2>1, <2>5, <2>7
<1> QED
  BY <1>4, <1>5

LEMMA Or128Bit ==
  ASSUME NEW a \in UInt128, NEW b \in UInt128,
         NEW d \in 0..(2 * WordBits - 1), Value128(b) = 2^d,
         Value128(a) % 2^(d + 1) = 0
  PROVE  /\ Or128(a, b) \in UInt128
         /\ Value128(Or128(a, b)) = Value128(a) + 2^d
<1>1. PICK M \in Nat, w \in Nat, u \in Int, l \in Int :
        /\ M = Modulus /\ w = WordBits /\ M > 0 /\ M = 2^w
        /\ u = a.upper /\ l = a.lower
        /\ u \in 0..(M - 1) /\ l \in 0..(M - 1)
  BY Sizes, Widths, HalvesAreNumbers DEF Word
<1>2. Value128(a) = Two(M, u, l) /\ d \in Nat /\ d < 2 * w
  BY <1>1, Sizes DEF Value128, Two
<1>3. /\ d < w => l % 2^(d + 1) = 0
      /\ d >= w => u % 2^((d - w) + 1) = 0
  BY <1>1, <1>2, FreeDigits
<1>4. CASE d < w
  <2>1. /\ 2^d \in Word /\ l + 2^d \in Word
        /\ OrWord(l, 2^d) = l + 2^d /\ OrWord(u, 0) = u
    <3>1. u \in Word /\ l \in Word /\ d \in 0..(WordBits - 1)
      BY <1>1, <1>2, <1>4 DEF Word
    <3> QED
      BY <1>3, <1>4, <3>1, OrWordBit, OrWordNothing
  <2>2. PICK J \in Nat : J = 2^d
    BY <1>2, PowerIsPositive
  <2>3. b = Pair(0, J)
    <3>1. Pair(0, J) \in UInt128
      BY <2>1, <2>2, Sizes, PairsAreNumbers
    <3>2. Value128(Pair(0, J)) = J
      BY <1>1, ValueOfPair DEF Two
    <3> QED
      BY <2>2, <3>1, <3>2, Order128
  <2>4. Or128(a, b) = Pair(u, l + J)
    BY <1>1, <2>1, <2>2, <2>3, PairsAreNumbers DEF Or128
  <2>5. Pair(u, l + J) \in UInt128
    BY <1>1, <2>1, <2>2, HalvesAreNumbers, PairsAreNumbers
  <2>6. Value128(Pair(u, l + J)) = Two(M, u, l) + J
    BY <1>1, ValueOfPair DEF Two
  <2> QED
    BY <1>2, <2>2, <2>4, <2>5, <2>6
<1>5. CASE d >= w
  <2>1. PICK j \in Nat, J \in Nat :
          j = d - w /\ J = 2^j /\ 2^d = M * J /\ j < w
    <3>1. PICK x \in Nat : x = d - w /\ w + x = d /\ x < w
      BY <1>2, <1>5
    <3>2. 2^(w + x) = 2^w * 2^x /\ 2^x \in Nat
      BY PowerIsPositive, PowerOfSum
    <3> QED
      BY <1>1, <3>1, <3>2
  <2>2. /\ 2^j \in Word /\ u + 2^j \in Word
        /\ OrWord(u, 2^j) = u + 2^j /\ OrWord(l, 0) = l
    <3>1. u \in Word /\ l \in Word /\ j \in 0..(WordBits - 1)
      BY <1>1, <2>1 DEF Word
    <3>2. u % 2^(j + 1) = 0
      BY <1>3, <1>5, <2>1
    <3> QED
      BY <3>1, <3>2, OrWordBit, OrWordNothing
  <2>3. b = Pair(J, 0)
    <3>1. Pair(J, 0) \in UInt128
      BY <2>1, <2>2, Sizes, PairsAreNumbers
    <3>2. Value128(Pair(J, 0)) = J * M
      BY <1>1, ValueOfPair DEF Two
    <3>3. J * M = M * J
      OBVIOUS
    <3> QED
      BY <2>1, <3>1, <3>2, <3>3, Order128
  <2>4. Or128(a, b) = Pair(u + J, l)
    BY <1>1, <2>1, <2>2, <2>3, PairsAreNumbers DEF Or128
  <2>5. Pair(u + J, l) \in UInt128
    BY <1>1, <2>1, <2>2, HalvesAreNumbers, PairsAreNumbers
  <2>6. Value128(Pair(u + J, l)) = Two(M, u, l) + M * J
    <3>1. (u + J) * M + l = (u * M + l) + M * J
      OBVIOUS
    <3> QED
      BY <1>1, <3>1, ValueOfPair DEF Two
  <2> QED
    BY <1>2, <2>1, <2>4, <2>5, <2>6
<1> QED
  BY <1>2, <1>4, <1>5

LEMMA Or128Nothing ==
  ASSUME NEW a \in UInt128
  PROVE  Or128(a, Small128(0)) = a
BY HalvesAreNumbers, PairsAreNumbers, OrWordNothing DEF Or128, Small128

LEMMA Or256Bit ==
  ASSUME NEW a \in UInt256, NEW b \in UInt256,
         NEW d \in 0..(4 * WordBits - 1), Value(b) = 2^d,
         Value(a) % 2^(d + 1) = 0
  PROVE  /\ Or256(a, b) \in UInt256
         /\ Value(Or256(a, b)) = Value(a) + 2^d
<1>1. PICK K \in Nat, w \in Nat, u \in Int, l \in Int :
        /\ K = Modulus * Modulus /\ w = 2 * WordBits /\ K > 0 /\ K = 2^w
        /\ u = Value128(a.upper) /\ l = Value128(a.lower)
        /\ u \in 0..(K - 1) /\ l \in 0..(K - 1)
  <2>1. Modulus * Modulus \in Nat /\ Modulus * Modulus > 0
    BY Sizes
  <2> QED
    BY <2>1, Sizes, Widths, HalvesAreNumbers, Value128InRange
<1>2. Value(a) = Two(K, u, l) /\ d \in Nat /\ d < 2 * w
  BY <1>1, Sizes DEF Value, Two
<1>3. K = 2^w /\ w \in Nat /\ K \in Nat
  BY <1>1
<1>4. /\ d < w => l % 2^(d + 1) = 0
      /\ d >= w => u % 2^((d - w) + 1) = 0
  <2>1. /\ u \in 0..(K - 1) /\ l \in 0..(K - 1) /\ d \in Nat
        /\ Two(K, u, l) % 2^(d + 1) = 0
    BY <1>1, <1>2
  <2> QED
    BY <1>3, <2>1, FreeDigits
<1>5. /\ a.upper \in UInt128 /\ a.lower \in UInt128
      /\ b.upper \in UInt128 /\ b.lower \in UInt128
      /\ a = Pair(a.upper, a.lower) /\ b = Pair(b.upper, b.lower)
      /\ Small128(0) \in UInt128 /\ Value128(Small128(0)) = 0
  BY Sizes, HalvesAreNumbers, SmallNumbers
<1>6. PICK v \in Int, k \in 0..(K - 1) :
        /\ v = Value128(b.upper) /\ k = Value128(b.lower)
        /\ Value(b) = Two(K, v, k)
  BY <1>1, <1>5, Value128InRange DEF Value, Two
<1>7. CASE d < w
  <2>1. PICK J \in Nat : J = 2^d /\ J < K
    <3>1. d + 1 \in Nat /\ d + 1 <= w /\ 2^(d + 1) = 2 * 2^d
            /\ 2^d \in Nat /\ 2^d > 0
      BY <1>2, <1>7, PowerIsPositive, PowerSteps
    <3>2. 2^(d + 1) <= 2^w
      BY <1>3, <3>1, PowersGrow
    <3> QED
      BY <1>3, <3>1, <3>2
  <2>2. v = 0 /\ k = J
    <3>1. /\ J \in 0..(K - 1) /\ K > 0 /\ 0 \in Int
          /\ v \in Int /\ k \in 0..(K - 1)
      BY <1>1, <1>6, <2>1
    <3>2. InOrder(K, v, k, 0, J)
      BY <3>1, TwoDigitsInOrder
    <3>3. Two(K, 0, J) = J
      BY <3>1 DEF Two
    <3> QED
      BY <1>6, <2>1, <3>2, <3>3 DEF InOrder
  <2>3. b.upper = Small128(0)
    BY <1>5, <1>6, <2>2, Order128
  <2>4. d \in 0..(2 * WordBits - 1)
    BY <1>1, <1>2, <1>7
  <2> DEFINE low == Or128(a.lower, b.lower)
  <2>5. low \in UInt128 /\ Value128(low) = l + J
    <3>1. Value128(b.lower) = 2^d /\ Value128(a.lower) % 2^(d + 1) = 0
      BY <1>1, <1>4, <1>6, <1>7, <2>1, <2>2
    <3>2. low \in UInt128 /\ Value128(low) = Value128(a.lower) + 2^d
      BY <1>5, <2>4, <3>1, Or128Bit
    <3> QED
      BY <1>1, <2>1, <3>2
  <2>6. Or256(a, b) = Pair(a.upper, low)
    BY <1>5, <2>3, Or128Nothing DEF Or256
  <2> HIDE DEF low
  <2>7. Pair(a.upper, low) \in UInt256
    BY <1>5, <2>5, PairsAreNumbers
  <2>8. Value(Pair(a.upper, low)) = Two(K, u, l) + J
    BY <1>1, <2>5, ValueOfPair DEF Two
  <2> QED
    BY <1>2, <2>1, <2>6, <2>7, <2>8
<1>8. CASE d >= w
  <2>1. PICK j \in Nat, J \in Nat :
          j = d - w /\ J = 2^j /\ 2^d = K * J /\ j < w
    <3>1. PICK x \in Nat : x = d - w /\ w + x = d /\ x < w
      BY <1>2, <1>8
    <3>2. 2^(w + x) = 2^w * 2^x /\ 2^x \in Nat
      BY <1>3, PowerIsPositive, PowerOfSum
    <3> QED
      BY <1>3, <3>1, <3>2
  <2>2. v = J /\ k = 0
    <3>1. /\ 0 \in 0..(K - 1) /\ K > 0 /\ J \in Int
          /\ v \in Int /\ k \in 0..(K - 1)
      BY <1>1, <1>6, <2>1
    <3>2. InOrder(K, v, k, J, 0)
      BY <3>1, TwoDigitsInOrder
    <3>3. Two(K, J, 0) = K * J
      BY DEF Two
    <3> QED
      BY <1>6, <2>1, <3>2, <3>3 DEF InOrder
  <2>3. b.lower = Small128(0)
    BY <1>5, <1>6, <2>2, Order128
  <2>4. j \in 0..(2 * WordBits - 1)
    BY <1>1, <2>1
  <2>5. u % 2^(j + 1) = 0
    BY <1>4, <1>8, <2>1
  <2> DEFINE high == Or128(a.upper, b.upper)
  <2>6. high \in UInt128 /\ Value128(high) = u + J
    <3>1. Value128(b.upper) = 2^j /\ Value128(a.upper) % 2^(j + 1) = 0
      BY <1>1, <1>6, <2>1, <2>2, <2>5
    <3>2. high \in UInt128 /\ Value128(high) = Value128(a.upper) + 2^j
      BY <1>5, <2>4, <3>1, Or128Bit
    <3> QED
      BY <1>1, <2>1, <3>2
  <2>7. Or256(a, b) = Pair(high, a.lower)
    BY <1>5, <2>3, Or128Nothing DEF Or256
  <2> HIDE DEF high
  <2>8. Pair(high, a.lower) \in UInt256
    BY <1>5, <2>6, PairsAreNumbers
  <2>9. Value(Pair(high, a.lower)) = Two(K, u, l) + K * J
    <3>1. (u + J) * K + l = (u * K + l) + K * J
      OBVIOUS
    <3> QED
      BY <1>1, <2>6, <3>1, ValueOfPair DEF Two
  <2> QED
    BY <1>2, <2>1, <2>7, <2>8, <2>9
<1> QED
  BY <1>2, <1>7, <1>8

-----------------------------------------------------------------------------
(* Where a division begins, and how its steps go on. *)

(* A number less than the capacity is not reduced.                         *)
LEMMA NotReduced ==
  ASSUME NEW n \in Nat, n < Capacity
  PROVE  n % Capacity = n
<1>1. PICK C \in Nat : C = Capacity /\ C > 0
  <2>1. Modulus * Modulus \in Nat /\ Modulus * Modulus > 0
    BY Sizes
  <2>2. \A x \in Nat : x > 0 => x * x \in Nat /\ x * x > 0
    OBVIOUS
  <2> QED
    BY <2>1, <2>2 DEF Capacity
<1>2. (0 * C + n) % C = n
  BY <1>1, DivModUnique
<1> QED
  BY <1>1, <1>2

(* A divisor is moved to where the dividend's bits end.                    *)
BeginsAt(n, m, b, d) ==
  /\ d \in 0..(4 * WordBits - 1)
  /\ Shiftl256(m, d) \in UInt256
  /\ Value(Shiftl256(m, d)) = b * 2^d
  /\ Shiftl256(Small256(1), d) \in UInt256
  /\ Value(Shiftl256(Small256(1), d)) = 2^d
  /\ Value(n) < 2 * (b * 2^d)

LEMMA DivisionBegins ==
  ASSUME NEW n \in UInt256, NEW m \in UInt256, NEW b \in Nat,
         b = Value(m), b > 0, Value(n) >= b
  PROVE  BeginsAt(n, m, b, Bits256(n) - Bits256(m))
<1>1. PICK v \in Nat : v = Value(n) /\ v >= b
  BY ValueInRange
<1>2. PICK N \in 0..(4 * WordBits) :
        N = Bits256(n) /\ N \in Nat /\ Bitlength(v, N)
  BY <1>1, Sizes, Bits256IsLength
<1>3. PICK B \in 0..(4 * WordBits) :
        B = Bits256(m) /\ B \in Nat /\ Bitlength(b, B)
  BY Sizes, Bits256IsLength
<1>4. B # 0
  <2> SUFFICES ASSUME B = 0 PROVE FALSE
    OBVIOUS
  <2>1. b < 2^B /\ 2^0 = 1
    BY <1>3 DEF Bitlength
  <2>2. b < 1
    BY <2>1
  <2> QED
    BY <2>2
<1>5. PICK k \in Nat, L \in Nat, H \in Nat :
        /\ B = k + 1 /\ L = 2^k /\ H = 2^B /\ H = 2 * L
        /\ b >= L /\ b < H /\ k = B - 1
  <2>1. PICK k \in Nat : k = B - 1 /\ B = k + 1
    BY <1>3, <1>4
  <2>2. b >= 2^k /\ b < 2^B
    BY <1>3, <1>4, <2>1 DEF Bitlength
  <2>3. 2^(k + 1) = 2 * 2^k /\ 2^k \in Nat
    BY PowerIsPositive, PowerSteps
  <2>4. 2^B = 2 * 2^k
    BY <2>1, <2>3
  <2> QED
    BY <2>1, <2>2, <2>3, <2>4
<1>6. N >= B
  <2> SUFFICES ASSUME N < B PROVE FALSE
    BY <1>2, <1>3
  <2>1. N <= k
    BY <1>2, <1>5
  <2>2. 2^N <= 2^k /\ 2^N \in Nat
    BY <1>2, <2>1, PowersGrow, PowerIsPositive
  <2>3. v < 2^N
    BY <1>2 DEF Bitlength
  <2> QED
    BY <1>1, <1>5, <2>2, <2>3
<1>7. PICK d \in Nat, D \in Nat :
        /\ d = N - B /\ D = 2^d /\ D > 0 /\ 2^N = D * H
        /\ d \in 0..(4 * WordBits - 1)
  <2>1. PICK d \in Nat : d = N - B /\ d + B = N /\ d \in 0..(4 * WordBits - 1)
    BY <1>2, <1>3, <1>4, <1>6, Sizes
  <2>2. 2^(d + B) = 2^d * 2^B /\ 2^d \in Nat /\ 2^d > 0
    BY <1>3, PowerIsPositive, PowerOfSum
  <2> QED
    BY <1>5, <2>1, <2>2
<1>8. PICK T \in Nat : T = 2^N /\ T <= Capacity /\ v < T
  <2>1. PICK w \in Nat : w = 4 * WordBits /\ N <= w /\ 2^w = Capacity
    BY <1>2, Sizes, Widths
  <2>2. 2^N <= 2^w /\ 2^N \in Nat
    BY <1>2, <2>1, PowersGrow, PowerIsPositive
  <2> QED
    BY <1>2, <2>1, <2>2 DEF Bitlength
<1>9. PICK c \in Nat : c = b * D /\ c < T /\ D <= c
  <2>1. (b + 1) * D <= H * D
    BY <1>5, <1>7
  <2>2. (b + 1) * D = b * D + D /\ H * D = D * H
    OBVIOUS
  <2>3. 1 * D <= b * D
    OBVIOUS
  <2> QED
    BY <1>7, <1>8, <2>1, <2>2, <2>3
<1>10. Capacity \in Int
  BY Sizes DEF Capacity
<1>11. /\ Shiftl256(m, d) \in UInt256
       /\ Value(Shiftl256(m, d)) = c
  <2>1. /\ Shiftl256(m, d) \in UInt256
        /\ Value(Shiftl256(m, d)) = (b * 2^d) % Capacity
    BY Shiftl256Shifts
  <2>2. c % Capacity = c
    BY <1>8, <1>9, <1>10, NotReduced
  <2> QED
    BY <1>7, <1>9, <2>1, <2>2
<1>12. /\ Shiftl256(Small256(1), d) \in UInt256
       /\ Value(Shiftl256(Small256(1), d)) = D
  <2>1. Small256(1) \in UInt256 /\ Value(Small256(1)) = 1
    BY Sizes, SmallNumbers
  <2>2. /\ Shiftl256(Small256(1), d) \in UInt256
        /\ Value(Shiftl256(Small256(1), d)) = (1 * 2^d) % Capacity
    BY <2>1, Shiftl256Shifts
  <2>3. D % Capacity = D /\ 1 * D = D
    BY <1>8, <1>9, <1>10, NotReduced
  <2> QED
    BY <1>7, <2>2, <2>3
<1>13. v < 2 * c
  <2>1. D * (2 * L) <= D * (2 * b)
    BY <1>5
  <2>2. D * (2 * b) = 2 * (b * D)
    OBVIOUS
  <2> QED
    BY <1>5, <1>7, <1>8, <1>9, <2>1, <2>2
<1> QED
  BY <1>1, <1>2, <1>3, <1>7, <1>9, <1>11, <1>12, <1>13 DEF BeginsAt

(* Half of a multiple of a power of two.                                   *)
LEMMA HalfOfPower ==
  ASSUME NEW a \in UInt256, NEW c \in Nat, NEW d \in Nat,
         Value(a) = c * 2^d
  PROVE  /\ Shiftr256(a, 1) \in UInt256
         /\ Value(Shiftr256(a, 1)) = Value(a) \div 2
         /\ d > 0 => Value(Shiftr256(a, 1)) = c * 2^(d - 1)
<1>1. 2^1 = 2 /\ 1 \in Nat
  OBVIOUS
<1>2. /\ Shiftr256(a, 1) \in UInt256
      /\ Value(Shiftr256(a, 1)) = Value(a) \div 2
  BY <1>1, Shiftr256Shifts
<1>3. ASSUME d > 0 PROVE (c * 2^d) \div 2 = c * 2^(d - 1)
  <2>1. PICK k \in Nat : k = d - 1 /\ d = k + 1
    BY <1>3
  <2>2. PICK D \in Nat : D = 2^k /\ 2^d = 2 * D
    BY <2>1, PowerIsPositive, PowerSteps
  <2>3. PICK x \in Int : x = c * D
    OBVIOUS
  <2>4. c * (2 * D) = x * 2 + 0
    BY <2>3
  <2>5. (x * 2 + 0) \div 2 = x
    BY <2>3
  <2> QED
    BY <2>1, <2>2, <2>3, <2>4, <2>5
<1> QED
  BY <1>2, <1>3

-----------------------------------------------------------------------------
(* Products by hand. *)

(* Four digits of one number times four of another, gathered by place:     *)
(* what is beyond the fourth place is a multiple of its weight.            *)
InPlaces(H, a0, a1, a2, a3, b0, b1, b2, b3) ==
  \E z \in Int :
    ((a0 * H + a1) * (H * H) + (a2 * H + a3))
         * ((b0 * H + b1) * (H * H) + (b2 * H + b3))
      = z * ((H * H) * (H * H))
          + (a3 * b3 + H * (a3 * b2 + a2 * b3)
              + (H * H) * (a3 * b1 + a2 * b2 + a1 * b3)
              + (H * H * H) * (a3 * b0 + a2 * b1 + a1 * b2 + a0 * b3))

LEMMA Places ==
  ASSUME NEW H \in Int,
         NEW a0 \in Int, NEW a1 \in Int, NEW a2 \in Int, NEW a3 \in Int,
         NEW b0 \in Int, NEW b1 \in Int, NEW b2 \in Int, NEW b3 \in Int
  PROVE  InPlaces(H, a0, a1, a2, a3, b0, b1, b2, b3)
<1>1. PICK z \in Int :
        z = (a0 * b0) * (H * H) + (a0 * b1 + a1 * b0) * H
              + (a0 * b2 + a1 * b1 + a2 * b0)
  OBVIOUS
<1>2. ((a0 * H + a1) * (H * H) + (a2 * H + a3))
           * ((b0 * H + b1) * (H * H) + (b2 * H + b3))
        = ((a0 * b0) * (H * H) + (a0 * b1 + a1 * b0) * H
               + (a0 * b2 + a1 * b1 + a2 * b0)) * ((H * H) * (H * H))
            + (a3 * b3 + H * (a3 * b2 + a2 * b3)
                + (H * H) * (a3 * b1 + a2 * b2 + a1 * b3)
                + (H * H * H) * (a3 * b0 + a2 * b1 + a1 * b2 + a0 * b3))
  OBVIOUS
<1> QED
  BY <1>1, <1>2 DEF InPlaces

(* The products' upper digits are counted in the next place.               *)
LEMMA PlacesCarried ==
  ASSUME NEW H \in Int,
         NEW l03 \in Int, NEW l02 \in Int, NEW l13 \in Int,
         NEW l01 \in Int, NEW l12 \in Int, NEW l23 \in Int,
         NEW l00 \in Int, NEW l11 \in Int, NEW l22 \in Int, NEW l33 \in Int,
         NEW h03 \in Int, NEW h02 \in Int, NEW h13 \in Int,
         NEW h01 \in Int, NEW h12 \in Int, NEW h23 \in Int,
         NEW h00 \in Int, NEW h11 \in Int, NEW h22 \in Int, NEW h33 \in Int
  PROVE  (h03 * H + l03) + H * ((h02 * H + l02) + (h13 * H + l13))
           + (H * H) * ((h01 * H + l01) + (h12 * H + l12) + (h23 * H + l23))
           + (H * H * H) * ((h00 * H + l00) + (h11 * H + l11)
                              + (h22 * H + l22) + (h33 * H + l33))
         = (h00 + h11 + h22 + h33) * ((H * H) * (H * H))
             + (l03 + H * (l02 + h03 + l13)
                 + (H * H) * (l01 + h02 + l12 + h13 + l23)
                 + (H * H * H) * (l00 + h01 + l11 + h12 + l22 + h23 + l33))
OBVIOUS

(* The two digits of a word or of the product of two digits.               *)
TwoOf(H, n) ==
  /\ n \div H \in 0..(H - 1) /\ n % H \in 0..(H - 1)
  /\ n = (n \div H) * H + (n % H)

LEMMA DigitsOf ==
  ASSUME NEW H \in Nat, H > 0, NEW n \in Nat, n < H * H
  PROVE  TwoOf(H, n)
<1>1. PICK q \in Nat, r \in Nat :
        q = n \div H /\ r = n % H /\ n = q * H + r /\ r < H
  BY DivMod
<1>2. q < H
  <2> SUFFICES ASSUME q >= H PROVE FALSE
    BY <1>1
  <2>1. q * H >= H * H
    BY <1>1
  <2> QED
    BY <1>1, <2>1
<1> QED
  BY <1>1, <1>2 DEF TwoOf

LEMMA DigitProduct ==
  ASSUME NEW H \in Nat, H > 0, NEW x \in 0..(H - 1), NEW y \in 0..(H - 1)
  PROVE  TwoOf(H, x * y)
<1>1. x * y <= (H - 1) * (H - 1)
  <2>1. x * y <= (H - 1) * y
    OBVIOUS
  <2>2. (H - 1) * y <= (H - 1) * (H - 1)
    OBVIOUS
  <2>3. x * y \in Int /\ (H - 1) * y \in Int /\ (H - 1) * (H - 1) \in Int
    OBVIOUS
  <2> QED
    BY <2>1, <2>2, <2>3
<1>2. (H - 1) * (H - 1) = H * H - H - H + 1
  OBVIOUS
<1>3. x * y \in Nat
  OBVIOUS
<1>4. x * y < H * H
  BY <1>1, <1>2, <1>3
<1>5. PICK n \in Nat : n = x * y /\ n < H * H
  BY <1>3, <1>4
<1> QED
  BY <1>5, DigitsOf

(* The four places put together.                                           *)
Together(fourth, third, second, first) ==
  Add128(Small128(fourth),
         Add128(Pair(second, 0),
                Add128(Pair(Left(first, HalfBits), 0),
                       Pair(Right(third, HalfBits), Left(third, HalfBits)))))

PutsTogether(H, x, t, y, f) ==
  /\ Together(x, t, y, Wrap(f)) \in UInt128
  /\ Value128(Together(x, t, y, Wrap(f)))
       = (x + H * t + (H * H) * y + (H * H * H) * f) % (Modulus * Modulus)

LEMMA PutTogether ==
  ASSUME NEW H \in Nat, H = Half, NEW x \in Word, NEW t \in Word,
         NEW y \in Word, NEW f \in Nat
  PROVE  PutsTogether(H, x, t, y, f)
<1>1. PICK M \in Nat, K \in Nat :
        /\ M = Modulus /\ K = Modulus * Modulus /\ K > 0
        /\ M = H * H /\ M > 0 /\ H > 0 /\ K = M * M
  <2>1. Modulus * Modulus \in Nat /\ Modulus * Modulus > 0
    BY Sizes
  <2> QED
    BY <2>1, Sizes
<1>2. M \in Nat /\ M > 0 /\ H \in Nat /\ H > 0 /\ K \in Nat /\ K > 0
  BY <1>1
<1>3. \A n \in Nat : /\ Left(n, HalfBits) = (n * H) % M
                    /\ Right(n, HalfBits) = n \div H
  BY <1>1 DEF Left, Right, Wrap, Half
<1>4. /\ x \in Nat /\ t \in Nat /\ y \in Nat /\ 0 \in Word
      /\ Wrap(f) \in Word /\ Wrap(f) \in Nat
  BY Sizes, WrapIsWord DEF Word
<1> DEFINE lower == Pair(Right(t, HalfBits), Left(t, HalfBits))
           upper == Pair(Left(Wrap(f), HalfBits), 0)
           middle == Pair(y, 0)
<1>5. lower \in UInt128 /\ Value128(lower) = t * H
  <2>1. PICK c \in Nat, r \in Nat :
          c = t \div H /\ t = c * H + r /\ r < H /\ c <= t
    BY <1>2, <1>4, DivMod
  <2>2. PICK k \in Nat : k = r * H
    OBVIOUS
  <2>3. t * H = c * M + k /\ k < M
    <3>1. (c * H + r) * H = c * (H * H) + r * H
      OBVIOUS
    <3>2. r * H < H * H
      BY <2>1
    <3> QED
      BY <1>1, <2>1, <2>2, <3>1, <3>2
  <2>4. c \in Int /\ k \in Nat /\ k < M
    BY <2>3
  <2>5. (c * M + k) % M = k
    BY <1>2, <2>4, DivModUnique
  <2>6. lower = Pair(c, k)
    BY <1>3, <1>4, <2>1, <2>3, <2>5
  <2>7. c \in Word /\ k \in Word
    <3>1. t < M
      BY <1>1, Sizes DEF Word
    <3>2. c < M
      BY <2>1, <3>1
    <3> QED
      BY <1>1, <2>4, <3>2 DEF Word
  <2>8. Value128(Pair(c, k)) = c * M + k
    BY <1>1, ValueOfPair DEF Two
  <2> QED
    BY <2>3, <2>6, <2>7, <2>8, PairsAreNumbers
<1>6. PICK q \in Int :
        upper \in UInt128 /\ Value128(upper) = q * K + (H * H * H) * f
  <2>1. PICK j \in Int, g \in Nat : g = Wrap(f) /\ f = j * M + g
    BY <1>1, <1>2, DivMod DEF Wrap
  <2>2. PICK n \in Nat : n = g * H
    OBVIOUS
  <2>3. PICK k \in Int, r \in Nat : r = n % M /\ n = k * M + r /\ r < M
    BY <1>2, DivMod
  <2>4. upper = Pair(r, 0) /\ r \in Word
    <3>1. Left(g, HalfBits) = n % M
      BY <1>3, <2>2
    <3>2. r \in Word
      BY <1>1, <2>3 DEF Word
    <3> QED
      BY <2>1, <2>3, <3>1, <3>2
  <2>5. Value128(Pair(r, 0)) = r * M
    BY <1>1, ValueOfPair DEF Two
  <2>6. r * M = (-(j * H + k)) * K + (H * H * H) * f
    <3>1. ((j * M + g) * H) * M = (j * H) * (M * M) + (g * H) * M
      OBVIOUS
    <3>2. (k * M + r) * M = k * (M * M) + r * M
      OBVIOUS
    <3>3. (f * H) * M = (j * H) * K + n * M
      BY <1>1, <2>1, <2>2, <3>1
    <3>4. n * M = k * K + r * M
      BY <1>1, <2>3, <3>2
    <3>5. (f * H) * M = (H * H * H) * f
      <4>1. (f * H) * (H * H) = (H * H * H) * f
        OBVIOUS
      <4> QED
        BY <1>1, <4>1
    <3>6. (-(j * H + k)) * K = -((j * H) * K) - k * K
      OBVIOUS
    <3> QED
      BY <3>3, <3>4, <3>5, <3>6
  <2>7. -(j * H + k) \in Int
    OBVIOUS
  <2> QED
    BY <2>4, <2>5, <2>6, <2>7, <1>4, PairsAreNumbers
<1>7. middle \in UInt128 /\ Value128(middle) = (H * H) * y
  <2>1. Value128(middle) = y * M + 0
    BY <1>1, ValueOfPair DEF Two
  <2>2. y * M + 0 = (H * H) * y
    BY <1>1, <1>4
  <2>3. middle \in UInt128
    BY <1>4, PairsAreNumbers
  <2> QED
    BY <2>1, <2>2, <2>3
<1>8. Small128(x) \in UInt128 /\ Value128(Small128(x)) = x
  BY SmallNumbers
<1>9. PICK u \in Int, v \in Int, w \in Int :
        u = q * K + (H * H * H) * f /\ v = t * H /\ w = (H * H) * y
  BY <1>4
<1> HIDE DEF lower, upper, middle
<1>10. /\ Add128(upper, lower) \in UInt128
       /\ Value128(Add128(upper, lower)) = (u + v) % K
  BY <1>1, <1>5, <1>6, <1>9, Add128Adds
<1>11. /\ Add128(middle, Add128(upper, lower)) \in UInt128
       /\ Value128(Add128(middle, Add128(upper, lower)))
            = (w + ((u + v) % K)) % K
  BY <1>1, <1>7, <1>9, <1>10, Add128Adds
<1> DEFINE all == Add128(Small128(x), Add128(middle, Add128(upper, lower)))
<1>12. /\ all \in UInt128
       /\ Value128(all) = (x + ((w + ((u + v) % K)) % K)) % K
  BY <1>1, <1>8, <1>11, Add128Adds
<1>13. (x + ((w + ((u + v) % K)) % K)) % K = (x + w + u + v) % K
  <2>1. ASSUME NEW m \in Int, NEW n \in Int
        PROVE  (n + (m % K)) % K = (n + m) % K
    <3>1. ((m % K) + n) % K = (m + n) % K
      BY <1>2, ModOfMod
    <3>2. PICK r \in Int : r = m % K
      BY <1>2
    <3>3. r + n = n + r /\ m + n = n + m
      OBVIOUS
    <3> QED
      BY <3>1, <3>2, <3>3
  <2>2. PICK m \in Int, r \in Int : m = u + v /\ r = m % K
    BY <1>2
  <2>3. (w + (m % K)) % K = (w + m) % K
    BY <2>1
  <2>4. PICK p \in Int : p = w + m
    OBVIOUS
  <2>5. (x + (p % K)) % K = (x + p) % K
    BY <1>4, <2>1
  <2>6. x + p = x + w + u + v
    BY <1>4, <2>2, <2>4
  <2> QED
    BY <2>2, <2>3, <2>4, <2>5, <2>6
<1>14. (x + w + u + v) % K
         = (x + H * t + (H * H) * y + (H * H * H) * f) % K
  <2>1. PICK n \in Int : n = x + H * t + (H * H) * y + (H * H * H) * f
    BY <1>4
  <2>2. x + w + u + v = q * K + n
    <3>1. t * H = H * t
      BY <1>4
    <3> QED
      BY <1>4, <1>9, <2>1, <3>1
  <2>3. (q * K + n) % K = n % K
    BY <1>2, ModOfMultiple
  <2> QED
    BY <2>1, <2>2, <2>3
<1>15. Together(x, t, y, Wrap(f)) = all
  BY DEF Together, all, middle, upper, lower
<1> QED
  BY <1>1, <1>12, <1>13, <1>14, <1>15 DEF PutsTogether

LEMMA Mul128Multiplies ==
  ASSUME NEW a \in UInt128, NEW b \in UInt128
  PROVE  /\ Mul128(a, b) \in UInt128
         /\ Value128(Mul128(a, b))
              = (Value128(a) * Value128(b)) % (Modulus * Modulus)
<1>1. PICK H \in Nat, M \in Nat :
        H = Half /\ M = H * H /\ M = Modulus /\ H > 0 /\ H >= 4
  BY Sizes
<1>2. H \in Nat /\ H > 0
  BY <1>1
<1>3. ASSUME NEW n \in Word
      PROVE  TwoOf(H, n)
  <2>1. n \in Nat /\ n < H * H
    BY <1>1 DEF Word
  <2> QED
    BY <1>2, <2>1, DigitsOf
<1>4. PICK a0 \in 0..(H - 1), a1 \in 0..(H - 1),
           a2 \in 0..(H - 1), a3 \in 0..(H - 1) :
        /\ a0 = a.upper \div H /\ a1 = a.upper % H
        /\ a2 = a.lower \div H /\ a3 = a.lower % H
        /\ a.upper = a0 * H + a1 /\ a.lower = a2 * H + a3
  <2>1. TwoOf(H, a.upper) /\ TwoOf(H, a.lower)
    BY <1>3, HalvesAreNumbers
  <2> QED
    BY <2>1 DEF TwoOf
<1>5. PICK b0 \in 0..(H - 1), b1 \in 0..(H - 1),
           b2 \in 0..(H - 1), b3 \in 0..(H - 1) :
        /\ b0 = b.upper \div H /\ b1 = b.upper % H
        /\ b2 = b.lower \div H /\ b3 = b.lower % H
        /\ b.upper = b0 * H + b1 /\ b.lower = b2 * H + b3
  <2>1. TwoOf(H, b.upper) /\ TwoOf(H, b.lower)
    BY <1>3, HalvesAreNumbers
  <2> QED
    BY <2>1 DEF TwoOf
<1> DEFINE Lo(n) == n % H
           Hi(n) == n \div H
<1>6. ASSUME NEW x \in 0..(H - 1), NEW y \in 0..(H - 1)
      PROVE  /\ Lo(x * y) \in 0..(H - 1) /\ Hi(x * y) \in 0..(H - 1)
             /\ x * y = Hi(x * y) * H + Lo(x * y)
  BY <1>2, DigitProduct DEF TwoOf
<1> HIDE DEF Lo, Hi
<1> DEFINE fourth == Lo(a3 * b3)
           third  == Lo(a3 * b2) + Hi(a3 * b3) + Lo(a2 * b3)
           second == Lo(a3 * b1) + Hi(a3 * b2) + Lo(a2 * b2) + Hi(a2 * b3)
                       + Lo(a1 * b3)
           first  == Lo(a3 * b0) + Hi(a3 * b1) + Lo(a2 * b1) + Hi(a2 * b2)
                       + Lo(a1 * b2) + Hi(a1 * b3) + Lo(a0 * b3)
<1>7. Mul128(a, b) = Together(fourth, Wrap(third), Wrap(second), Wrap(first))
  BY <1>1, <1>4, <1>5 DEF Mul128, Together, Lo, Hi
<1>8. PICK l03 \in 0..(H - 1), h03 \in 0..(H - 1) :
        /\ l03 = Lo(a3 * b3) /\ h03 = Hi(a3 * b3)
        /\ a3 * b3 = h03 * H + l03
  BY <1>6
<1>9. PICK l02 \in 0..(H - 1), h02 \in 0..(H - 1) :
        /\ l02 = Lo(a3 * b2) /\ h02 = Hi(a3 * b2)
        /\ a3 * b2 = h02 * H + l02
  BY <1>6
<1>10. PICK l13 \in 0..(H - 1), h13 \in 0..(H - 1) :
        /\ l13 = Lo(a2 * b3) /\ h13 = Hi(a2 * b3)
        /\ a2 * b3 = h13 * H + l13
  BY <1>6
<1>11. PICK l01 \in 0..(H - 1), h01 \in 0..(H - 1) :
        /\ l01 = Lo(a3 * b1) /\ h01 = Hi(a3 * b1)
        /\ a3 * b1 = h01 * H + l01
  BY <1>6
<1>12. PICK l12 \in 0..(H - 1), h12 \in 0..(H - 1) :
        /\ l12 = Lo(a2 * b2) /\ h12 = Hi(a2 * b2)
        /\ a2 * b2 = h12 * H + l12
  BY <1>6
<1>13. PICK l23 \in 0..(H - 1), h23 \in 0..(H - 1) :
        /\ l23 = Lo(a1 * b3) /\ h23 = Hi(a1 * b3)
        /\ a1 * b3 = h23 * H + l23
  BY <1>6
<1>14. PICK l00 \in 0..(H - 1), h00 \in 0..(H - 1) :
        /\ l00 = Lo(a3 * b0) /\ h00 = Hi(a3 * b0)
        /\ a3 * b0 = h00 * H + l00
  BY <1>6
<1>15. PICK l11 \in 0..(H - 1), h11 \in 0..(H - 1) :
        /\ l11 = Lo(a2 * b1) /\ h11 = Hi(a2 * b1)
        /\ a2 * b1 = h11 * H + l11
  BY <1>6
<1>16. PICK l22 \in 0..(H - 1), h22 \in 0..(H - 1) :
        /\ l22 = Lo(a1 * b2) /\ h22 = Hi(a1 * b2)
        /\ a1 * b2 = h22 * H + l22
  BY <1>6
<1>17. PICK l33 \in 0..(H - 1), h33 \in 0..(H - 1) :
        /\ l33 = Lo(a0 * b3) /\ h33 = Hi(a0 * b3)
        /\ a0 * b3 = h33 * H + l33
  BY <1>6
<1>18. /\ fourth = l03 /\ third = l02 + h03 + l13
       /\ second = l01 + h02 + l12 + h13 + l23
       /\ first = l00 + h01 + l11 + h12 + l22 + h23 + l33
  BY <1>8, <1>9, <1>10, <1>11, <1>12, <1>13, <1>14, <1>15, <1>16, <1>17
<1> HIDE DEF fourth, third, second, first
<1>19. /\ fourth \in Nat /\ fourth <= H - 1
       /\ third \in Nat /\ third <= 3 * (H - 1)
       /\ second \in Nat /\ second <= 5 * (H - 1)
       /\ first \in Nat
  BY <1>2, <1>18
<1>20. 5 * (H - 1) < M
  <2>1. CASE H = 4
    BY <1>1, <2>1
  <2>2. CASE H # 4
    <3>1. H >= 5
      BY <1>1, <2>2
    <3>2. H * H >= 5 * H
      BY <3>1
    <3> QED
      BY <1>1, <3>2
  <2> QED
    BY <2>1, <2>2
<1>21. ASSUME NEW n \in Nat, n <= 5 * (H - 1)
       PROVE  n \in Word /\ Wrap(n) = n
  <2>1. n < M /\ M \in Nat /\ M > 0
    BY <1>1, <1>20, <1>21
  <2>2. (0 * M + n) % M = n
    BY <2>1, DivModUnique
  <2> QED
    BY <1>1, <2>1, <2>2 DEF Word, Wrap
<1>22. /\ fourth \in Word /\ third \in Word /\ second \in Word
       /\ Wrap(third) = third /\ Wrap(second) = second
  <2>1. fourth <= 5 * (H - 1) /\ third <= 5 * (H - 1)
    BY <1>1, <1>19
  <2> QED
    BY <1>19, <1>21, <2>1
<1>23. PICK K \in Nat : K = Modulus * Modulus /\ K > 0 /\ K = (H * H) * (H * H)
  <2>1. Modulus * Modulus \in Nat /\ Modulus * Modulus > 0
    BY Sizes
  <2> QED
    BY <1>1, <2>1
<1> DEFINE sum == fourth + H * third + (H * H) * second + (H * H * H) * first
<1>24. /\ Mul128(a, b) \in UInt128
       /\ Value128(Mul128(a, b)) = sum % K
  <2>1. PutsTogether(H, fourth, third, second, first)
    BY <1>1, <1>19, <1>22, PutTogether
  <2> QED
    BY <1>7, <1>22, <1>23, <2>1 DEF PutsTogether
<1>25. PICK q \in Int : Value128(a) * Value128(b) = q * K + sum
  <2>1. /\ Value128(a) = (a0 * H + a1) * (H * H) + (a2 * H + a3)
        /\ Value128(b) = (b0 * H + b1) * (H * H) + (b2 * H + b3)
    BY <1>1, <1>4, <1>5 DEF Value128
  <2>2. PICK z \in Int :
          ((a0 * H + a1) * (H * H) + (a2 * H + a3))
               * ((b0 * H + b1) * (H * H) + (b2 * H + b3))
            = z * ((H * H) * (H * H))
                + (a3 * b3 + H * (a3 * b2 + a2 * b3)
                    + (H * H) * (a3 * b1 + a2 * b2 + a1 * b3)
                    + (H * H * H) * (a3 * b0 + a2 * b1 + a1 * b2 + a0 * b3))
    <3>1. /\ a0 \in Int /\ a1 \in Int /\ a2 \in Int /\ a3 \in Int
          /\ b0 \in Int /\ b1 \in Int /\ b2 \in Int /\ b3 \in Int
          /\ H \in Int
      BY <1>2
    <3>2. InPlaces(H, a0, a1, a2, a3, b0, b1, b2, b3)
      BY <3>1, Places
    <3> QED
      BY <3>2 DEF InPlaces
  <2>3. (a3 * b3 + H * (a3 * b2 + a2 * b3)
           + (H * H) * (a3 * b1 + a2 * b2 + a1 * b3)
           + (H * H * H) * (a3 * b0 + a2 * b1 + a1 * b2 + a0 * b3))
          = (h03 * H + l03) + H * ((h02 * H + l02) + (h13 * H + l13))
              + (H * H) * ((h01 * H + l01) + (h12 * H + l12) + (h23 * H + l23))
              + (H * H * H) * ((h00 * H + l00) + (h11 * H + l11)
                                 + (h22 * H + l22) + (h33 * H + l33))
    BY <1>8, <1>9, <1>10, <1>11, <1>12, <1>13, <1>14, <1>15, <1>16, <1>17
  <2>4. (h03 * H + l03) + H * ((h02 * H + l02) + (h13 * H + l13))
           + (H * H) * ((h01 * H + l01) + (h12 * H + l12) + (h23 * H + l23))
           + (H * H * H) * ((h00 * H + l00) + (h11 * H + l11)
                              + (h22 * H + l22) + (h33 * H + l33))
          = (h00 + h11 + h22 + h33) * ((H * H) * (H * H))
              + (l03 + H * (l02 + h03 + l13)
                  + (H * H) * (l01 + h02 + l12 + h13 + l23)
                  + (H * H * H) * (l00 + h01 + l11 + h12 + l22 + h23 + l33))
    BY PlacesCarried
  <2>5. PICK y \in Int : y = h00 + h11 + h22 + h33
    OBVIOUS
  <2>6. Value128(a) * Value128(b) = z * K + (y * K + sum)
    BY <1>18, <1>23, <2>1, <2>2, <2>3, <2>4, <2>5
  <2>7. PICK n \in Int : n = sum
    BY <1>19
  <2>8. z * K + (y * K + n) = (z + y) * K + n /\ z + y \in Int
    BY <1>23
  <2> HIDE DEF sum
  <2> QED
    BY <2>6, <2>7, <2>8
<1>26. (q * K + sum) % K = sum % K
  <2>1. K \in Nat /\ K > 0 /\ sum \in Int
    BY <1>19, <1>23
  <2> HIDE DEF sum
  <2> QED
    BY <2>1, ModOfMultiple
<1> QED
  BY <1>23, <1>24, <1>25, <1>26

-----------------------------------------------------------------------------
(* Numbers from their digits. *)

(* f follows the digits: what each of the first i of them stands for.      *)
Follows(f, digits, n, b) ==
  /\ f \in [0..n -> Nat]
  /\ f[0] = 0
  /\ \A i \in 1..n : f[i] = f[i - 1] * b + digits[i]

LEMMA NumberOfIs ==
  ASSUME NEW digits, NEW n \in Nat, NEW b \in Nat, NEW f,
         Follows(f, digits, n, b)
  PROVE  NumberOf(digits, n, b) = f[n]
<1> DEFINE upTo(g) ==
      [i \in 0..n |-> IF i = 0 THEN 0 ELSE g[i - 1] * b + digits[i]]
    G == CHOOSE g : g = upTo(g)
<1>1. f = upTo(f)
  <2>1. f = [i \in 0..n |-> f[i]]
    BY DEF Follows
  <2>2. ASSUME NEW i \in 0..n
        PROVE  f[i] = IF i = 0 THEN 0 ELSE f[i - 1] * b + digits[i]
    <3>1. i # 0 => i \in 1..n
      OBVIOUS
    <3> QED
      BY <3>1 DEF Follows
  <2> QED
    BY <2>1, <2>2
<1>2. G = upTo(G)
  BY <1>1
<1>3. NumberOf(digits, n, b) = G[n]
  BY DEF NumberOf
<1> HIDE DEF G
<1> DEFINE S == {i \in Nat : i \in 0..n => G[i] = f[i]}
<1>4. S = Nat
  <2>1. 0 \in S
    BY <1>1, <1>2
  <2>2. ASSUME NEW i \in S PROVE i + 1 \in S
    <3> SUFFICES ASSUME i + 1 \in 0..n PROVE G[i + 1] = f[i + 1]
      OBVIOUS
    <3>1. i \in 0..n /\ (i + 1) - 1 = i /\ i + 1 # 0
      OBVIOUS
    <3>2. G[i] = f[i]
      BY <3>1
    <3>3. G[i + 1] = G[i] * b + digits[i + 1]
      BY <1>2, <3>1
    <3>4. f[i + 1] = f[i] * b + digits[i + 1]
      BY <1>1, <3>1
    <3> QED
      BY <3>2, <3>3, <3>4
  <2>3. S \subseteq Nat
    OBVIOUS
  <2> HIDE DEF S
  <2> QED
    BY <2>1, <2>2, <2>3, NaturalsByInduction
<1> QED
  BY <1>3, <1>4

LEMMA DigitsAreFollowed ==
  ASSUME NEW digits, NEW n \in Nat, NEW b \in Nat,
         \A i \in 1..n : digits[i] \in Nat
  PROVE  \E f : Follows(f, digits, n, b)
<1> DEFINE S == {k \in Nat : k \in 0..n => \E f : Follows(f, digits, k, b)}
<1>1. 0 \in S
  <2>1. PICK f : f = [i \in 0..0 |-> 0]
    OBVIOUS
  <2>2. Follows(f, digits, 0, b)
    BY <2>1 DEF Follows
  <2> QED
    BY <2>2
<1>2. ASSUME NEW k \in S PROVE k + 1 \in S
  <2> SUFFICES ASSUME k + 1 \in 0..n
               PROVE  \E f : Follows(f, digits, k + 1, b)
    OBVIOUS
  <2>1. k \in Nat /\ k \in 0..n /\ k + 1 \in 1..n
    OBVIOUS
  <2>2. PICK f : Follows(f, digits, k, b)
    BY <2>1
  <2>3. PICK d \in Nat, v \in Nat : d = digits[k + 1] /\ v = f[k] * b + d
    <3>1. k \in 0..k /\ digits[k + 1] \in Nat
      BY <2>1
    <3>2. f[k] \in Nat
      BY <2>2, <3>1 DEF Follows
    <3>3. \A x, y \in Nat : x * b + y \in Nat
      OBVIOUS
    <3> QED
      BY <3>1, <3>2, <3>3
  <2>4. PICK g : g = [i \in 0..(k + 1) |-> IF i = k + 1 THEN v ELSE f[i]]
    OBVIOUS
  <2>5. g \in [0..(k + 1) -> Nat] /\ g[0] = 0
    <3>1. \A i \in 0..k : f[i] \in Nat /\ k \in 0..k
      BY <2>1, <2>2 DEF Follows
    <3>2. v \in Nat
      BY <2>3, <3>1
    <3>3. \A i \in 0..(k + 1) : i # k + 1 => i \in 0..k
      BY <2>1
    <3>4. f[0] = 0 /\ 0 # k + 1 /\ 0 \in 0..(k + 1)
      BY <2>1, <2>2 DEF Follows
    <3> QED
      BY <2>4, <3>1, <3>2, <3>3, <3>4
  <2>6. ASSUME NEW i \in 1..(k + 1) PROVE g[i] = g[i - 1] * b + digits[i]
    <3>1. CASE i = k + 1
      BY <2>1, <2>3, <2>4, <3>1
    <3>2. CASE i # k + 1
      <4>1. i \in 1..k /\ i \in 0..(k + 1) /\ i - 1 \in 0..(k + 1)
            /\ i - 1 # k + 1
        BY <2>1, <3>2
      <4>2. g[i] = f[i] /\ g[i - 1] = f[i - 1]
        BY <2>4, <3>2, <4>1
      <4> QED
        BY <2>2, <4>1, <4>2 DEF Follows
    <3> QED
      BY <3>1, <3>2
  <2>7. Follows(g, digits, k + 1, b)
    BY <2>5, <2>6 DEF Follows
  <2> QED
    BY <2>7
<1>3. S = Nat
  <2>1. S \subseteq Nat
    OBVIOUS
  <2> HIDE DEF S
  <2> QED
    BY <1>1, <1>2, <2>1, NaturalsByInduction
<1> QED
  BY <1>3

(* Each further digit multiplies what the digits before it stand for.      *)
LEMMA OneDigitAfterAnother ==
  ASSUME NEW digits, NEW n \in Nat, NEW b \in Nat,
         \A i \in 1..n : digits[i] \in Nat
  PROVE  /\ \A j \in 0..n : NumberOf(digits, j, b) \in Nat
         /\ NumberOf(digits, 0, b) = 0
         /\ \A j \in 1..n : NumberOf(digits, j, b)
                              = NumberOf(digits, j - 1, b) * b + digits[j]
<1>1. PICK f : Follows(f, digits, n, b)
  BY DigitsAreFollowed
<1>2. f \in [0..n -> Nat] /\ f[0] = 0 /\ 0 \in 0..n
  BY <1>1 DEF Follows
<1>3. \A i \in 1..n : f[i] = f[i - 1] * b + digits[i]
  BY <1>1 DEF Follows
<1>4. ASSUME NEW j \in 0..n PROVE NumberOf(digits, j, b) = f[j]
  <2>1. PICK g : g = [i \in 0..j |-> f[i]]
    OBVIOUS
  <2>2. \A i \in 0..j : i \in 0..n /\ g[i] = f[i]
    BY <2>1
  <2>3. g \in [0..j -> Nat] /\ g[0] = 0
    BY <1>2, <2>1, <2>2
  <2>4. ASSUME NEW i \in 1..j PROVE g[i] = g[i - 1] * b + digits[i]
    <3>1. i \in 1..n /\ i \in 0..j /\ i - 1 \in 0..j
      OBVIOUS
    <3> QED
      BY <1>3, <2>2, <3>1
  <2>5. Follows(g, digits, j, b)
    BY <2>3, <2>4 DEF Follows
  <2>6. NumberOf(digits, j, b) = g[j] /\ j \in 0..j
    BY <2>5, NumberOfIs
  <2> QED
    BY <2>2, <2>6
<1>5. \A j \in 1..n : j \in 0..n /\ j - 1 \in 0..n
  OBVIOUS
<1>6. \A j \in 0..n : f[j] \in Nat
  BY <1>2
<1> QED
  BY <1>2, <1>3, <1>4, <1>5, <1>6

(* Zeros in front of the digits of a number stand for nothing.             *)
LEMMA LeadingZeros ==
  ASSUME NEW bytes \in Seq(Nat), Len(bytes) <= TmpBytes, NEW b \in Nat
  PROVE  /\ TmpBuffer(bytes) \in [1..TmpBytes -> Nat]
         /\ NumberOf(TmpBuffer(bytes), TmpBytes, b)
              = NumberOf(bytes, Len(bytes), b)
<1>1. PICK n \in Nat, z \in Nat, T \in Nat :
        /\ n = Len(bytes) /\ z = TmpBytes - Len(bytes) /\ T = TmpBytes
        /\ z + n = T
  BY DEF TmpBytes
<1>2. \A i \in 1..n : bytes[i] \in Nat
  BY <1>1
<1>3. PICK d : d = TmpBuffer(bytes)
  OBVIOUS
<1>4. d = [i \in 1..T |-> IF i > z THEN bytes[i - z] ELSE 0]
  BY <1>1, <1>3 DEF TmpBuffer
<1>5. d \in [1..T -> Nat]
  <2>1. ASSUME NEW i \in 1..T, i > z PROVE bytes[i - z] \in Nat
    <3>1. i - z \in 1..n
      BY <1>1, <2>1
    <3> QED
      BY <1>2, <3>1
  <2> QED
    BY <1>4, <2>1
<1>6. PICK f : Follows(f, bytes, n, b)
  BY <1>2, DigitsAreFollowed
<1>7. f \in [0..n -> Nat] /\ f[0] = 0
  BY <1>6 DEF Follows
<1>8. PICK g : g = [i \in 0..T |-> IF i > z THEN f[i - z] ELSE 0]
  OBVIOUS
<1>9. Follows(g, d, T, b)
  <2>1. g \in [0..T -> Nat]
    <3>1. ASSUME NEW i \in 0..T, i > z PROVE f[i - z] \in Nat
      <4>1. i - z \in 0..n
        BY <1>1, <3>1
      <4> QED
        BY <1>7, <4>1
    <3> QED
      BY <1>8, <3>1
  <2>2. g[0] = 0
    BY <1>1, <1>8
  <2>3. ASSUME NEW i \in 1..T PROVE g[i] = g[i - 1] * b + d[i]
    <3>1. i \in 0..T /\ i - 1 \in 0..T
      BY <1>1
    <3>2. CASE i > z
      <4>1. i - z \in 1..n /\ (i - 1) - z = (i - z) - 1
        BY <1>1, <3>2
      <4>2. f[i - z] = f[(i - z) - 1] * b + bytes[i - z]
        BY <1>6, <4>1 DEF Follows
      <4>3. g[i] = f[i - z] /\ d[i] = bytes[i - z]
        BY <1>4, <1>8, <3>1, <3>2
      <4>4. g[i - 1] = f[(i - z) - 1]
        <5>1. CASE i - 1 > z
          BY <1>8, <3>1, <4>1, <5>1
        <5>2. CASE ~(i - 1 > z)
          <6>1. (i - z) - 1 = 0
            BY <1>1, <3>2, <5>2
          <6> QED
            BY <1>7, <1>8, <3>1, <5>2, <6>1
        <5> QED
          BY <5>1, <5>2
      <4> QED
        BY <4>2, <4>3, <4>4
    <3>3. CASE ~(i > z)
      <4>1. ~(i - 1 > z)
        BY <1>1, <3>3
      <4>2. g[i] = 0 /\ g[i - 1] = 0 /\ d[i] = 0
        BY <1>4, <1>8, <3>1, <3>3, <4>1
      <4>3. 0 = 0 * b + 0
        OBVIOUS
      <4> QED
        BY <4>2, <4>3
    <3> QED
      BY <3>2, <3>3
  <2> QED
    BY <2>1, <2>2, <2>3 DEF Follows
<1>10. NumberOf(d, T, b) = g[T] /\ NumberOf(bytes, n, b) = f[n]
  BY <1>6, <1>9, NumberOfIs
<1>11. g[T] = f[n]
  <2>1. n = 0 => g[T] = 0
    BY <1>1, <1>8
  <2>2. n # 0 => g[T] = f[T - z]
    BY <1>1, <1>8
  <2>3. T - z = n
    BY <1>1
  <2> QED
    BY <1>7, <2>1, <2>2, <2>3
<1> QED
  BY <1>1, <1>3, <1>5, <1>10, <1>11

(* Two bytes a word, two words a half, two halves a number.                *)
LEMMA EightDigits ==
  ASSUME NEW d \in [1..TmpBytes -> Nat]
  PROVE  Value(ReadU256BE(d)) = NumberOf(d, TmpBytes, Half)
<1>1. PICK H \in Nat, M \in Nat : H = Half /\ M = Modulus /\ M = H * H
  BY Sizes
<1>2. PICK f : Follows(f, d, TmpBytes, H)
  <2>1. \A i \in 1..TmpBytes : d[i] \in Nat
    OBVIOUS
  <2> QED
    BY <1>1, <2>1, DigitsAreFollowed DEF TmpBytes
<1>3. /\ f[0] = 0 /\ \A i \in 0..8 : f[i] \in Nat
      /\ \A i \in 1..8 : d[i] \in Nat
  BY <1>2 DEF Follows, TmpBytes
<1>4. \A i \in 1..8 : f[i] = f[i - 1] * H + d[i]
  BY <1>2 DEF Follows, TmpBytes
<1>5. ASSUME NEW i \in 0..6
      PROVE  f[i + 2] = f[i] * M + (d[i + 1] * H + d[i + 2])
  <2>1. /\ f[i + 1] = f[i] * H + d[i + 1]
        /\ f[i + 2] = f[i + 1] * H + d[i + 2]
    <3>1. /\ i + 1 \in 1..8 /\ (i + 1) - 1 = i
          /\ i + 2 \in 1..8 /\ (i + 2) - 1 = i + 1
      OBVIOUS
    <3> QED
      BY <1>4, <3>1
  <2>2. PICK x \in Nat, y \in Nat, z \in Nat :
          x = f[i] /\ y = d[i + 1] /\ z = d[i + 2]
    <3>1. i \in 0..8 /\ i + 1 \in 1..8 /\ i + 2 \in 1..8
      OBVIOUS
    <3> QED
      BY <1>3, <3>1
  <2>3. (x * H + y) * H + z = x * (H * H) + (y * H + z)
    OBVIOUS
  <2> QED
    BY <1>1, <2>1, <2>2, <2>3
<1>6. PICK a \in Nat, b \in Nat, c \in Nat, e \in Nat :
        /\ a = d[1] * H + d[2] /\ b = d[3] * H + d[4]
        /\ c = d[5] * H + d[6] /\ e = d[7] * H + d[8]
  <2>1. \A x, y \in Nat : x * H + y \in Nat
    OBVIOUS
  <2>2. /\ d[1] \in Nat /\ d[2] \in Nat /\ d[3] \in Nat /\ d[4] \in Nat
        /\ d[5] \in Nat /\ d[6] \in Nat /\ d[7] \in Nat /\ d[8] \in Nat
    BY <1>3
  <2> QED
    BY <2>1, <2>2
<1>7. /\ f[2] = 0 * M + a /\ f[4] = f[2] * M + b
      /\ f[6] = f[4] * M + c /\ f[8] = f[6] * M + e
  <2>1. /\ f[0 + 2] = f[0] * M + (d[0 + 1] * H + d[0 + 2])
        /\ f[2 + 2] = f[2] * M + (d[2 + 1] * H + d[2 + 2])
        /\ f[4 + 2] = f[4] * M + (d[4 + 1] * H + d[4 + 2])
        /\ f[6 + 2] = f[6] * M + (d[6 + 1] * H + d[6 + 2])
    <3>1. 0 \in 0..6 /\ 2 \in 0..6 /\ 4 \in 0..6 /\ 6 \in 0..6
      OBVIOUS
    <3> QED
      BY <1>5, <3>1
  <2> QED
    BY <1>3, <1>6, <2>1
<1>8. f[8] = (a * M + b) * (M * M) + (c * M + e)
  <2>1. f[4] = a * M + b
    BY <1>7
  <2>2. ((a * M + b) * M + c) * M + e
          = (a * M + b) * (M * M) + (c * M + e)
    OBVIOUS
  <2> QED
    BY <1>7, <2>1, <2>2
<1>9. ReadU256BE(d) = Pair(Pair(a, b), Pair(c, e))
  BY <1>1, <1>6 DEF ReadU256BE, ReadU128BE, ReadUint64BE
<1>10. Value(ReadU256BE(d)) = (a * M + b) * (M * M) + (c * M + e)
  BY <1>1, <1>9, ValueOfPair DEF Two
<1>11. NumberOf(d, TmpBytes, H) = f[8]
  BY <1>2, NumberOfIs DEF TmpBytes
<1> QED
  BY <1>1, <1>8, <1>10, <1>11

(* rlp_readUInt256 reads the big-endian number of the bytes it is given,   *)
(* up to the 32 there are room for.                                        *)
LEMMA ReadsTheBytes ==
  ASSUME NEW bytes \in Seq(Nat), Len(bytes) <= TmpBytes
  PROVE  Value(RlpReadUInt256(bytes)) = NumberOf(bytes, Len(bytes), Half)
<1>1. Half \in Nat
  BY Sizes
<1> QED
  BY <1>1, LeadingZeros, EightDigits DEF RlpReadUInt256
=============================================================================
