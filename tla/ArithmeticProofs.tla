-------------------------- MODULE ArithmeticProofs --------------------------
(***************************************************************************)
(* What tostring256 and divmod256 do with any number, in any base, whatever*)
(* the width of the words.  The invariant of the division: the copy of the *)
(* divisor stands where the quotient's next bit does, a power of two up to *)
(* which no bit of the quotient is set, until it is shifted out and the    *)
(* remainder is less than the divisor.  That of the writing: the quotients *)
(* so far, of which each is the next one and a digit.                      *)
(***************************************************************************)
EXTENDS MCArithmetic, UInt256Proofs

Byte8 == Int \cup {NUL}    \* a digit or the termination

Sizing ==
  /\ baseParam \in Word
  /\ pc # "false" => baseParam >= 2 /\ baseParam <= 16
  /\ outLength \in Nat /\ outLength >= 1

(* There is room for a digit while one is made.                            *)
Room ==
  /\ out \in Seq(Byte8)
  /\ pc \in {"digit", "false"} => Len(out) <= outLength
  /\ pc \in {"divide", "align", "loop", "put"} => Len(out) < outLength
  /\ pc = "true" => Len(out) <= outLength + 1

(* The quotient's next bit is the d-th.                                    *)
NextBit(d) ==
  /\ d \in 0..(4 * WordBits - 1)
  /\ Value(adder) = 2^d
  /\ Value(copyd) = baseParam * 2^d
  /\ Value(resMod) < 2 * (baseParam * 2^d)
  /\ Value(resDiv) % 2^(d + 1) = 0

Aligning ==
  pc = "align" =>
    /\ \E d : NextBit(d)
    /\ Value(resDiv) = 0
    /\ resMod = rDiv /\ Value(rDiv) >= baseParam

Looping ==
  pc = "loop" =>
    /\ Value(rDiv) = Value(resDiv) * baseParam + Value(resMod)
    /\ \/ Value(adder) = 0 /\ Value(resMod) < baseParam
       \/ \E d : NextBit(d)

(* What is written is a digit of the base.                                 *)
Remainder == pc = "put" => Value(rMod) < baseParam

Inv == TypeOK /\ Sizing /\ Room /\ Aligning /\ Looping /\ Remainder

-----------------------------------------------------------------------------
(* The initial states, and the steps that divide. *)

LEMMA BaseIsNumber ==
  ASSUME baseParam \in Word
  PROVE  /\ base \in UInt256 /\ Value(base) = baseParam
         /\ baseParam \in Nat
BY SmallNumbers, Sizes DEF base, Word

LEMMA Zero ==
  /\ Small256(0) \in UInt256 /\ Value(Small256(0)) = 0
  /\ \A a \in UInt256 : Value(a) \in Nat
  /\ \A a \in UInt256 : Value(a) = 0 => a = Small256(0)
<1>1. Small256(0) \in UInt256 /\ Value(Small256(0)) = 0
  BY Sizes, SmallNumbers
<1> QED
  BY <1>1, ValueInRange, Order256

LEMMA InvInit ==
  Init => Inv
<1> SUFFICES ASSUME Init PROVE Inv
  OBVIOUS
<1>1. number \in UInt256 /\ baseParam \in Word
  BY ToStringAssumption DEF Init
<1>2. TypeOK
  BY <1>1, Zero DEF Init, TypeOK
<1>3. Sizing
  <2>1. PICK n \in OutLengths : outLength = n - 1
    BY DEF Init
  <2>2. n \in Nat /\ n # 0 /\ n # 1
    BY ToStringAssumption
  <2>3. outLength \in Nat /\ outLength >= 1
    BY <2>1, <2>2
  <2>4. baseParam \in Int
    BY <1>1, Sizes DEF Word
  <2>5. pc # "false" => ~(baseParam < 2) /\ ~(baseParam > 16)
    BY DEF Init
  <2> QED
    BY <1>1, <2>3, <2>4, <2>5 DEF Sizing
<1>4. Room
  <2>1. out = <<>> /\ pc \in {"digit", "false"}
    BY DEF Init
  <2> QED
    BY <1>3, <2>1 DEF Room, Sizing
<1>5. pc \in {"digit", "false"}
  BY DEF Init
<1> QED
  BY <1>2, <1>3, <1>4, <1>5 DEF Inv, Aligning, Looping, Remainder

LEMMA SmallerStep ==
  Inv /\ DivideSmaller => Inv'
<1> SUFFICES ASSUME Inv, DivideSmaller PROVE Inv'
  OBVIOUS
<1> USE DEF DivideSmaller, input, division
<1>1. TypeOK'
  BY Zero DEF Inv, TypeOK
<1>2. Sizing' /\ Room'
  BY DEF Inv, Sizing, Room
<1>3. (Aligning /\ Looping)'
  BY DEF Aligning, Looping
<1>4. Value(rDiv) < baseParam
  <2>1. rDiv \in UInt256 /\ baseParam \in Word
    BY DEF Inv, TypeOK, Sizing
  <2>2. Value(base) > Value(rDiv)
    BY <2>1, BaseIsNumber, Order256
  <2> QED
    BY <2>1, <2>2, BaseIsNumber, Zero
<1>5. Remainder'
  BY <1>4 DEF Remainder
<1> QED
  BY <1>1, <1>2, <1>3, <1>5 DEF Inv

LEMMA BeginsStep ==
  Inv /\ DivideBegins => Inv'
<1> SUFFICES ASSUME Inv, DivideBegins PROVE Inv'
  OBVIOUS
<1>1. /\ rDiv \in UInt256 /\ base \in UInt256 /\ Value(base) = baseParam
      /\ baseParam \in Nat /\ baseParam >= 2 /\ Value(rDiv) \in Nat
  BY BaseIsNumber, Zero DEF Inv, TypeOK, Sizing, DivideBegins
<1>2. Value(rDiv) >= baseParam
  <2>1. ~(Value(base) > Value(rDiv))
    BY <1>1, Order256 DEF DivideBegins
  <2> QED
    BY <1>1, <2>1
<1>3. baseParam > 0
  BY <1>1
<1>4. PICK d : /\ d = Bits256(rDiv) - Bits256(base)
               /\ BeginsAt(rDiv, base, baseParam, d)
  BY <1>1, <1>2, <1>3, DivisionBegins
<1>5. /\ copyd' = Shiftl256(base, d)
      /\ adder' = Shiftl256(Small256(1), d)
      /\ resDiv' = Small256(0) /\ resMod' = rDiv /\ pc' = "align"
      /\ UNCHANGED <<number, baseParam, outLength, out, rDiv, rMod>>
  BY <1>4 DEF DivideBegins, input
<1>6. TypeOK'
  BY <1>4, <1>5, Zero DEF Inv, TypeOK, BeginsAt
<1>7. Sizing' /\ Room'
  BY <1>5 DEF Inv, Sizing, Room, DivideBegins
<1>8. NextBit(d)'
  <2>1. d \in 0..(4 * WordBits - 1) /\ d \in Nat
    BY <1>4, Sizes DEF BeginsAt
  <2>2. PICK D \in Nat : D = 2^(d + 1) /\ D > 0
    BY <2>1, PowerIsPositive
  <2>3. (0 * D + 0) % D = 0
    BY <2>2, DivModUnique
  <2>4. 0 % 2^(d + 1) = 0
    BY <2>2, <2>3
  <2>5. Value(resDiv') % 2^(d + 1) = 0
    BY <1>5, <2>4, Zero
  <2>6. Value(adder') = 2^d /\ Value(copyd') = baseParam' * 2^d
    BY <1>4, <1>5 DEF BeginsAt
  <2>7. Value(resMod') < 2 * (baseParam' * 2^d)
    BY <1>4, <1>5 DEF BeginsAt
  <2> QED
    BY <2>1, <2>5, <2>6, <2>7 DEF NextBit
<1>9. Aligning'
  BY <1>2, <1>5, <1>8, Zero DEF Aligning
<1>10. (Looping /\ Remainder)'
  BY <1>5 DEF Looping, Remainder
<1> QED
  BY <1>6, <1>7, <1>9, <1>10 DEF Inv

(* One place to the right, the next bit is the one before.                 *)
Moved(b, k, a, d, m, q) ==
  /\ Shiftr256(k, 1) \in UInt256 /\ Shiftr256(a, 1) \in UInt256
  /\ d = 0 => Value(Shiftr256(a, 1)) = 0 /\ m < b
  /\ d # 0 => /\ d - 1 \in 0..(4 * WordBits - 1)
              /\ Value(Shiftr256(a, 1)) = 2^(d - 1)
              /\ Value(Shiftr256(k, 1)) = b * 2^(d - 1)
              /\ m < 2 * (b * 2^(d - 1))
              /\ q % 2^((d - 1) + 1) = 0

LEMMA NextBitMoves ==
  ASSUME NEW b \in Nat, NEW k \in UInt256, NEW a \in UInt256,
         NEW d \in 0..(4 * WordBits - 1), Value(k) = b * 2^d, Value(a) = 2^d,
         NEW m \in Nat, m < b * 2^d, NEW q \in Nat, q % 2^d = 0
  PROVE  Moved(b, k, a, d, m, q)
<1>1. d \in Nat
  BY Sizes
<1>2. PICK D \in Nat : D = 2^d /\ 1 * D = D
  BY <1>1, PowerIsPositive
<1>3. /\ Shiftr256(k, 1) \in UInt256
      /\ d > 0 => Value(Shiftr256(k, 1)) = b * 2^(d - 1)
  BY <1>1, HalfOfPower
<1>4. /\ Shiftr256(a, 1) \in UInt256
      /\ Value(Shiftr256(a, 1)) = Value(a) \div 2
      /\ d > 0 => Value(Shiftr256(a, 1)) = 1 * 2^(d - 1)
  <2>1. Value(a) = 1 * 2^d /\ 1 \in Nat
    BY <1>2
  <2> QED
    BY <1>1, <2>1, HalfOfPower
<1>5. CASE d = 0
  <2>1. D = 1 /\ 1 \div 2 = 0
    <3>1. 2^0 = 1
      OBVIOUS
    <3> QED
      BY <1>2, <1>5, <3>1
  <2>2. Value(Shiftr256(a, 1)) = 0
    BY <1>2, <1>4, <2>1
  <2>3. m < b
    BY <1>2, <2>1
  <2> QED
    BY <1>3, <1>4, <1>5, <2>2, <2>3 DEF Moved
<1>6. CASE d # 0
  <2>1. PICK e \in Nat : e = d - 1 /\ d = e + 1 /\ e \in 0..(4 * WordBits - 1)
    BY <1>1, <1>6, Sizes
  <2>2. PICK E \in Nat : E = 2^e /\ D = 2 * E /\ 1 * E = E
    BY <1>2, <2>1, PowerIsPositive, PowerSteps
  <2>3. m < 2 * (b * E)
    <3>1. b * (2 * E) = 2 * (b * E)
      OBVIOUS
    <3> QED
      BY <1>2, <2>2, <3>1
  <2>4. d > 0
    BY <1>1, <1>6
  <2>5. /\ Value(Shiftr256(a, 1)) = 2^(d - 1)
        /\ Value(Shiftr256(k, 1)) = b * 2^(d - 1)
    BY <1>3, <1>4, <2>1, <2>2, <2>4
  <2>6. q % 2^((d - 1) + 1) = 0
    <3>1. (d - 1) + 1 = d
      BY <1>1
    <3> QED
      BY <3>1
  <2> QED
    BY <1>3, <1>4, <1>6, <2>1, <2>2, <2>3, <2>5, <2>6 DEF Moved
<1> QED
  BY <1>5, <1>6

(* A free place is free one place lower too.                               *)
LEMMA FreeBelow ==
  ASSUME NEW q \in Nat, NEW d \in Nat, q % 2^(d + 1) = 0
  PROVE  q % 2^d = 0 /\ (q + 2^d) % 2^d = 0
<1>1. PICK D \in Nat : D = 2^d /\ D > 0 /\ 2^(d + 1) = 2 * D
  BY PowerIsPositive, PowerSteps
<1>2. PICK z \in Int : q = z * (2 * D) + 0
  <2>1. PICK F \in Nat : F = 2 * D /\ F > 0 /\ q % F = 0
    BY <1>1
  <2>2. q = (q \div F) * F + (q % F) /\ q \div F \in Int
    BY <2>1, DivMod
  <2> QED
    BY <2>1, <2>2
<1>3. PICK x \in Int, y \in Int : x = 2 * z /\ y = 2 * z + 1
  OBVIOUS
<1>4. q = x * D + 0 /\ q + D = y * D + 0
  <2>1. z * (2 * D) = (2 * z) * D /\ (2 * z + 1) * D = (2 * z) * D + D
    OBVIOUS
  <2> QED
    BY <1>2, <1>3, <2>1
<1>5. D \in Nat /\ D > 0 /\ x \in Int /\ y \in Int
  BY <1>1, <1>3
<1>6. (x * D + 0) % D = 0 /\ (y * D + 0) % D = 0
  BY <1>5, DivModUnique
<1> QED
  BY <1>1, <1>4, <1>6

LEMMA Typed ==
  ASSUME Inv
  PROVE  /\ rDiv \in UInt256 /\ rMod \in UInt256
         /\ copyd \in UInt256 /\ adder \in UInt256
         /\ resDiv \in UInt256 /\ resMod \in UInt256
         /\ base \in UInt256 /\ Value(base) = baseParam /\ baseParam \in Nat
         /\ Value(rDiv) \in Nat /\ Value(resDiv) \in Nat
         /\ Value(resMod) \in Nat
BY BaseIsNumber, Zero DEF Inv, TypeOK, Sizing

LEMMA AlignsStep ==
  Inv /\ DivideAligns => Inv'
<1> SUFFICES ASSUME Inv, DivideAligns PROVE Inv'
  OBVIOUS
<1>1. PICK d : NextBit(d)
  BY DEF Inv, Aligning, DivideAligns
<1>2. /\ Value(resDiv) = 0 /\ resMod = rDiv /\ Value(rDiv) >= baseParam
      /\ d \in 0..(4 * WordBits - 1) /\ d \in Nat
  BY <1>1, Sizes DEF Inv, Aligning, DivideAligns, NextBit
<1>3. PICK b \in Nat, n \in Nat : b = baseParam /\ n = Value(resMod)
  BY Typed
<1>4. b * 2^d \in Nat /\ n >= b
  BY <1>2, <1>3, PowerIsPositive
<1>5. /\ UNCHANGED <<number, baseParam, outLength, out, rDiv, rMod>>
      /\ resDiv' = resDiv /\ resMod' = resMod
      /\ pc = "align" /\ pc' = "loop"
  BY DEF DivideAligns, input
<1>6. (\E e : NextBit(e))' /\ copyd' \in UInt256 /\ adder' \in UInt256
  <2>1. CASE Gt256(copyd, resMod)
    <3>1. n < b * 2^d
      <4>1. Value(copyd) > n
        BY <1>3, <2>1, Typed, Order256
      <4> QED
        BY <1>1, <1>3, <1>4, <4>1 DEF NextBit
    <3>2. copyd' = Shiftr256(copyd, 1) /\ adder' = Shiftr256(adder, 1)
      BY <2>1 DEF DivideAligns, One
    <3>3. 0 \in Nat /\ 0 % 2^d = 0
      <4>1. PICK D \in Nat : D = 2^d /\ D > 0
        BY <1>2, PowerIsPositive
      <4>2. (0 * D + 0) % D = 0
        BY <4>1, DivModUnique
      <4> QED
        BY <4>1, <4>2
    <3>4. /\ copyd' \in UInt256 /\ adder' \in UInt256
          /\ d = 0 => n < b
          /\ d # 0 => /\ d - 1 \in 0..(4 * WordBits - 1)
                      /\ Value(adder') = 2^(d - 1)
                      /\ Value(copyd') = b * 2^(d - 1)
                      /\ n < 2 * (b * 2^(d - 1))
                      /\ 0 % 2^((d - 1) + 1) = 0
      <4>1. Value(copyd) = b * 2^d /\ Value(adder) = 2^d
        BY <1>1, <1>3 DEF NextBit
      <4>2. copyd \in UInt256 /\ adder \in UInt256
        BY Typed
      <4>3. Moved(b, copyd, adder, d, n, 0)
        BY <1>2, <3>1, <3>3, <4>1, <4>2, NextBitMoves
      <4> QED
        BY <3>2, <4>3 DEF Moved
    <3>5. d # 0
      BY <1>4, <3>4
    <3>6. PICK e : e = d - 1
      OBVIOUS
    <3>7. NextBit(e)'
      BY <1>2, <1>3, <1>5, <3>4, <3>5, <3>6 DEF NextBit
    <3> QED
      BY <3>4, <3>7
  <2>2. CASE ~Gt256(copyd, resMod)
    <3>1. copyd' = Shiftr256(copyd, 0) /\ adder' = Shiftr256(adder, 0)
      BY <2>2 DEF DivideAligns, One
    <3>2. copyd' = copyd /\ adder' = adder
      BY <3>1, Shiftr256Cases
    <3>3. NextBit(d)'
      BY <1>1, <1>5, <3>2 DEF NextBit
    <3> QED
      BY <3>2, <3>3, Typed
  <2> QED
    BY <2>1, <2>2
<1>7. TypeOK' /\ Sizing' /\ Room'
  BY <1>5, <1>6 DEF Inv, TypeOK, Sizing, Room
<1>8. Value(rDiv) = Value(resDiv) * baseParam + Value(resMod)
  BY <1>2, <1>3
<1>9. Looping'
  BY <1>5, <1>6, <1>8 DEF Looping
<1>10. (Aligning /\ Remainder)'
  BY <1>5 DEF Aligning, Remainder
<1> QED
  BY <1>7, <1>9, <1>10 DEF Inv

LEMMA LoopStep ==
  Inv /\ DivideLoop => Inv'
<1> SUFFICES ASSUME Inv, DivideLoop PROVE Inv'
  OBVIOUS
<1>1. PICK b \in Nat, n \in Nat, m \in Nat, q \in Nat :
        /\ b = baseParam /\ n = Value(rDiv)
        /\ m = Value(resMod) /\ q = Value(resDiv)
  BY Typed
<1>2. n = q * b + m /\ m >= b
  <2>1. Value(resMod) >= Value(base)
    BY Typed, Order256 DEF DivideLoop
  <2>2. pc = "loop"
    BY DEF DivideLoop
  <2> QED
    BY <1>1, <2>1, <2>2, Typed DEF Inv, Looping
<1>3. PICK d : NextBit(d)
  <2>1. ~(Value(resMod) < baseParam)
    BY <1>1, <1>2
  <2> QED
    BY <2>1 DEF Inv, Looping, DivideLoop
<1>4. d \in 0..(4 * WordBits - 1) /\ d \in Nat
  BY <1>3, Sizes DEF NextBit
<1>5. PICK D \in Nat, c \in Nat :
        D = 2^d /\ D > 0 /\ c = b * 2^d /\ c = b * D
  BY <1>4, PowerIsPositive
<1>6. /\ Value(adder) = 2^d /\ Value(copyd) = b * 2^d
      /\ m < 2 * c /\ q % 2^(d + 1) = 0
  BY <1>1, <1>3, <1>5 DEF NextBit
<1>7. PICK mm \in Nat, qq \in Nat :
        /\ resMod' \in UInt256 /\ mm = Value(resMod')
        /\ resDiv' \in UInt256 /\ qq = Value(resDiv')
        /\ n = qq * b + mm /\ mm < c /\ qq % 2^d = 0
  <2>1. q % 2^d = 0 /\ (q + D) % 2^d = 0
    BY <1>4, <1>5, <1>6, FreeBelow
  <2>2. CASE Gte256(resMod, copyd)
    <3>1. resMod' = Minus256(resMod, copyd) /\ resDiv' = Or256(resDiv, adder)
      BY <2>2 DEF DivideLoop
    <3>2. m >= c
      <4>1. Value(resMod) >= Value(copyd)
        BY <2>2, Typed, Order256
      <4> QED
        BY <1>1, <1>5, <1>6, <4>1
    <3>3. resMod' \in UInt256 /\ Value(resMod') = m - c
      <4>1. /\ Minus256(resMod, copyd) \in UInt256
            /\ Value(Minus256(resMod, copyd)) = (m - c) % Capacity
        BY <1>1, <1>5, <1>6, Typed, Minus256Subtracts
      <4>2. PICK k \in Nat : k = m - c /\ k <= m
        BY <3>2
      <4>3. Capacity \in Int /\ m < Capacity
        BY <1>1, Sizes, Typed, ValueInRange DEF Capacity
      <4>4. k % Capacity = k
        BY <4>2, <4>3, NotReduced
      <4> QED
        BY <3>1, <4>1, <4>2, <4>4
    <3>4. resDiv' \in UInt256 /\ Value(resDiv') = q + D
      <4>1. resDiv \in UInt256 /\ adder \in UInt256
        BY Typed
      <4>2. Value(adder) = 2^d /\ Value(resDiv) % 2^(d + 1) = 0
        BY <1>1, <1>6
      <4>3. /\ Or256(resDiv, adder) \in UInt256
            /\ Value(Or256(resDiv, adder)) = Value(resDiv) + 2^d
        BY <1>4, <4>1, <4>2, Or256Bit
      <4> QED
        BY <1>1, <1>5, <3>1, <4>3
    <3>5. n = (q + D) * b + (m - c)
      <4>1. (q + D) * b = q * b + b * D
        OBVIOUS
      <4> QED
        BY <1>2, <1>5, <4>1
    <3>6. m - c \in Nat /\ q + D \in Nat /\ m - c < c
      BY <1>6, <3>2
    <3> QED
      BY <2>1, <3>3, <3>4, <3>5, <3>6
  <2>3. CASE ~Gte256(resMod, copyd)
    <3>1. resMod' = resMod /\ resDiv' = resDiv
      BY <2>3 DEF DivideLoop
    <3>2. m < c
      <4>1. ~(Value(resMod) >= Value(copyd))
        BY <2>3, Typed, Order256
      <4> QED
        BY <1>1, <1>5, <1>6, <4>1
    <3> QED
      BY <1>1, <1>2, <2>1, <3>1, <3>2, Typed
  <2> QED
    BY <2>2, <2>3
<1>8. /\ copyd' = Shiftr256(copyd, 1) /\ adder' = Shiftr256(adder, 1)
      /\ UNCHANGED <<number, baseParam, outLength, out, rDiv, rMod>>
      /\ pc = "loop" /\ pc' = "loop"
  BY DEF DivideLoop, input
<1>9. /\ copyd' \in UInt256 /\ adder' \in UInt256
      /\ d = 0 => Value(adder') = 0 /\ mm < b
      /\ d # 0 => /\ d - 1 \in 0..(4 * WordBits - 1)
                  /\ Value(adder') = 2^(d - 1)
                  /\ Value(copyd') = b * 2^(d - 1)
                  /\ mm < 2 * (b * 2^(d - 1))
                  /\ qq % 2^((d - 1) + 1) = 0
  <2>1. copyd \in UInt256 /\ adder \in UInt256
    BY Typed
  <2>2. /\ Value(copyd) = b * 2^d /\ Value(adder) = 2^d
        /\ mm < b * 2^d /\ qq % 2^d = 0
    BY <1>5, <1>6, <1>7
  <2>3. Moved(b, copyd, adder, d, mm, qq)
    BY <1>4, <2>1, <2>2, NextBitMoves
  <2> QED
    BY <1>8, <2>3 DEF Moved
<1>10. \/ Value(adder') = 0 /\ mm < b
       \/ (\E e : NextBit(e))'
  <2>1. CASE d = 0
    BY <1>9, <2>1
  <2>2. CASE d # 0
    <3>1. PICK e : e = d - 1
      OBVIOUS
    <3>2. NextBit(e)'
      BY <1>1, <1>7, <1>8, <1>9, <2>2, <3>1 DEF NextBit
    <3> QED
      BY <3>2
  <2> QED
    BY <2>1, <2>2
<1>11. TypeOK' /\ Sizing' /\ Room'
  BY <1>7, <1>8, <1>9 DEF Inv, TypeOK, Sizing, Room
<1>12. Looping'
  BY <1>1, <1>7, <1>8, <1>10 DEF Looping
<1>13. (Aligning /\ Remainder)'
  BY <1>8 DEF Aligning, Remainder
<1> QED
  BY <1>11, <1>12, <1>13 DEF Inv

LEMMA EndsStep ==
  Inv /\ DivideEnds => Inv'
<1> SUFFICES ASSUME Inv, DivideEnds PROVE Inv'
  OBVIOUS
<1>1. /\ rDiv' = resDiv /\ rMod' = resMod /\ pc = "loop" /\ pc' = "put"
      /\ UNCHANGED <<number, baseParam, outLength, out>>
      /\ UNCHANGED <<copyd, adder, resDiv, resMod>>
  BY DEF DivideEnds, input, division
<1>2. Value(resMod) < baseParam
  <2>1. ~(Value(resMod) >= Value(base))
    BY Typed, Order256 DEF DivideEnds
  <2> QED
    BY <2>1, Typed
<1>3. TypeOK' /\ Sizing' /\ Room'
  BY <1>1 DEF Inv, TypeOK, Sizing, Room
<1>4. (Aligning /\ Looping)'
  BY <1>1 DEF Aligning, Looping
<1>5. Remainder'
  BY <1>1, <1>2 DEF Remainder
<1> QED
  BY <1>3, <1>4, <1>5 DEF Inv

-----------------------------------------------------------------------------
(* The steps that write, and the theorems. *)

LEMMA NextDigitStep ==
  Inv /\ NextDigit => Inv'
<1> SUFFICES ASSUME Inv, NextDigit PROVE Inv'
  OBVIOUS
<1>1. /\ UNCHANGED <<number, baseParam, outLength, out, rDiv, rMod>>
      /\ UNCHANGED <<copyd, adder, resDiv, resMod>>
      /\ pc = "digit" /\ pc' \in {"false", "divide"}
      /\ pc' = "divide" => ~(Len(out) > outLength - 1)
  BY DEF NextDigit, input, division
<1>2. TypeOK' /\ Sizing'
  BY <1>1 DEF Inv, TypeOK, Sizing
<1>3. Room'
  <2>1. out \in Seq(Byte8) /\ Len(out) <= outLength /\ outLength \in Nat
    BY <1>1 DEF Inv, Room, Sizing
  <2>2. Len(out) \in Nat
    BY <2>1
  <2> QED
    BY <1>1, <2>1, <2>2 DEF Room
<1>4. (Aligning /\ Looping /\ Remainder)'
  BY <1>1 DEF Aligning, Looping, Remainder
<1> QED
  BY <1>2, <1>3, <1>4 DEF Inv

LEMMA ReverseLength ==
  ASSUME NEW S, NEW s \in Seq(S)
  PROVE  Reverse(s) \in Seq(S) /\ Len(Reverse(s)) = Len(s)
<1>1. \A i \in 1..Len(s) : s[(Len(s) - i) + 1] \in S
  OBVIOUS
<1>2. Reverse(s) = [i \in 1..Len(s) |-> s[(Len(s) - i) + 1]]
  BY DEF Reverse
<1> QED
  BY <1>1, <1>2

LEMMA PutDigitStep ==
  Inv /\ PutDigit => Inv'
<1> SUFFICES ASSUME Inv, PutDigit PROVE Inv'
  OBVIOUS
<1>1. /\ UNCHANGED <<number, baseParam, outLength, rDiv, rMod>>
      /\ UNCHANGED <<copyd, adder, resDiv, resMod>>
      /\ pc = "put"
      /\ \/ out' = Append(out, Digit) /\ pc' = "digit"
         \/ out' = Append(Reverse(Append(out, Digit)), NUL) /\ pc' = "true"
  BY DEF PutDigit, input, division
<1>2. TypeOK' /\ Sizing'
  BY <1>1 DEF Inv, TypeOK, Sizing
<1>3. Room'
  <2>1. out \in Seq(Byte8) /\ Len(out) < outLength /\ outLength \in Nat
    BY <1>1 DEF Inv, Room, Sizing
  <2>2. Digit \in Byte8 /\ NUL \in Byte8
    <3>1. rMod.lower.lower \in Int
      BY Typed, HalvesAreNumbers, Sizes DEF Word
    <3>2. 2^8 = 256
      OBVIOUS
    <3> QED
      BY <3>1, <3>2 DEF Digit, Byte8
  <2> DEFINE s == Append(out, Digit)
  <2>3. s \in Seq(Byte8) /\ Len(s) = Len(out) + 1 /\ Len(out) \in Nat
    BY <2>1, <2>2
  <2> HIDE DEF s
  <2>4. Reverse(s) \in Seq(Byte8) /\ Len(Reverse(s)) = Len(s)
    BY <2>3, ReverseLength
  <2>5. /\ Append(Reverse(s), NUL) \in Seq(Byte8)
        /\ Len(Append(Reverse(s), NUL)) = Len(s) + 1
    BY <2>2, <2>4
  <2>6. \/ out' = s /\ pc' = "digit"
        \/ out' = Append(Reverse(s), NUL) /\ pc' = "true"
    BY <1>1 DEF s
  <2>7. PICK n \in Nat, m \in Nat :
          n = outLength /\ m = Len(out) /\ m < n /\ outLength' = n
    BY <1>1, <2>1, <2>3
  <2>8. CASE out' = s /\ pc' = "digit"
    <3>1. out' \in Seq(Byte8) /\ Len(out') = m + 1 /\ m + 1 <= n
      BY <2>3, <2>7, <2>8
    <3> QED
      BY <2>7, <2>8, <3>1 DEF Room
  <2>9. CASE out' = Append(Reverse(s), NUL) /\ pc' = "true"
    <3>1. out' \in Seq(Byte8) /\ Len(out') = (m + 1) + 1 /\ (m + 1) + 1 <= n + 1
      BY <2>3, <2>5, <2>7, <2>9
    <3> QED
      BY <2>7, <2>9, <3>1 DEF Room
  <2> QED
    BY <2>6, <2>8, <2>9
<1>4. (Aligning /\ Looping /\ Remainder)'
  BY <1>1 DEF Aligning, Looping, Remainder
<1> QED
  BY <1>2, <1>3, <1>4 DEF Inv

LEMMA InvStep ==
  Inv /\ [Next]_vars => Inv'
<1>1. CASE UNCHANGED vars
  BY <1>1 DEF vars, Inv, TypeOK, Sizing, Room, Aligning, Looping, Remainder,
              NextBit
<1>2. CASE Next
  BY <1>2, NextDigitStep, SmallerStep, BeginsStep, AlignsStep, LoopStep,
     EndsStep, PutDigitStep DEF Next
<1> QED
  BY <1>1, <1>2

LEMMA InvHolds ==
  Spec => []Inv
<1> QED
  BY InvInit, InvStep, PTL DEF Spec

(* A run of tostring256 is one of the behaviours that are checked, and so  *)
(* are the calls that leave it alone.                                      *)
LEMMA RunsToString ==
  ArithmeticSpec => Init /\ [][Next]_vars
<1>1. ArithmeticInit => Init
  BY DEF ArithmeticInit, NoToString
<1>2. [ArithmeticNext]_<<vars, callVars>> => [Next]_vars
  <2>1. CallNext => UNCHANGED vars
    BY DEF CallNext, Call1, Call
  <2> QED
    BY <2>1 DEF ArithmeticNext
<1> QED
  BY <1>1, <1>2, PTL DEF ArithmeticSpec

(* The numbers of tostring256 and divmod256 are 256-bit numbers, whatever  *)
(* is divided by whatever base.                                            *)
THEOREM NumbersStayWide ==
  ArithmeticSpec => []TypeOK
<1>1. Inv => TypeOK
  BY DEF Inv
<1> QED
  BY <1>1, InvInit, InvStep, RunsToString, PTL

(* tostring256 never writes past the buffer it was given, whatever number  *)
(* it writes and however small the buffer.                                 *)
THEOREM NothingPastTheBuffer ==
  ArithmeticSpec => []StaysInBuffer
<1>1. Inv => StaysInBuffer
  <2> SUFFICES ASSUME Inv PROVE StaysInBuffer
    OBVIOUS
  <2>1. Room /\ outLength \in Nat
    BY DEF Inv, Sizing
  <2>2. Len(out) \in Nat
    BY <2>1 DEF Room
  <2>3. pc \in {"digit", "divide", "align", "loop", "put", "true", "false"}
    BY DEF Inv, TypeOK
  <2> QED
    BY <2>1, <2>2, <2>3 DEF Room, StaysInBuffer
<1> QED
  BY <1>1, InvInit, InvStep, RunsToString, PTL

(* At every turn of divmod256's loop quotient, remainder and the shifted   *)
(* copies are those of the dividend, whatever is divided by whatever base. *)
THEOREM QuotientIsExact ==
  ArithmeticSpec => []DivisionIsExact
<1>1. Inv => DivisionIsExact
  <2> SUFFICES ASSUME Inv, pc = "loop"
               PROVE  /\ Value(rDiv) = Value(resDiv) * baseParam + Value(resMod)
                      /\ adder # Small256(0) =>
                           /\ Value(copyd) = Value(adder) * baseParam
                           /\ Value(resMod) < 2 * Value(copyd)
                           /\ Value(resDiv) % (2 * Value(adder)) = 0
    BY DEF DivisionIsExact
  <2>1. Value(rDiv) = Value(resDiv) * baseParam + Value(resMod)
    BY DEF Inv, Looping
  <2>2. ASSUME adder # Small256(0)
        PROVE  /\ Value(copyd) = Value(adder) * baseParam
               /\ Value(resMod) < 2 * Value(copyd)
               /\ Value(resDiv) % (2 * Value(adder)) = 0
    <3>1. Value(adder) # 0
      BY <2>2, Typed, Zero
    <3>2. PICK d : NextBit(d)
      BY <3>1 DEF Inv, Looping
    <3>3. d \in Nat
      BY <3>2, Sizes DEF NextBit
    <3>4. 2^d \in Nat /\ 2^(d + 1) = 2 * 2^d
      BY <3>3, PowerIsPositive, PowerSteps
    <3>5. baseParam * 2^d = 2^d * baseParam
      BY <3>4, Typed
    <3> QED
      BY <3>2, <3>4, <3>5 DEF NextBit
  <2> QED
    BY <2>1, <2>2
<1> QED
  BY <1>1, InvInit, InvStep, RunsToString, PTL

-----------------------------------------------------------------------------
(* The digits that are written. *)

(* Each of the digits is the remainder of a quotient, the next quotient    *)
(* what that one was left with.                                            *)
Quotients(w, n, digits, b, rest) ==
  /\ w \in [0..Len(digits) -> Nat]
  /\ w[0] = n /\ w[Len(digits)] = rest
  /\ \A i \in 1..Len(digits) : digits[i] \in 0..(b - 1)
  /\ \A i \in 1..Len(digits) : w[i - 1] = w[i] * b + digits[i]

LEMMA NoDigits ==
  ASSUME NEW n \in Nat, NEW b
  PROVE  \E w : Quotients(w, n, <<>>, b, n)
<1>1. PICK w : w = [i \in 0..0 |-> n]
  OBVIOUS
<1>2. Len(<<>>) = 0
  OBVIOUS
<1>3. Quotients(w, n, <<>>, b, n)
  BY <1>1, <1>2 DEF Quotients
<1> QED
  BY <1>3

LEMMA OneMoreDigit ==
  ASSUME NEW digits \in Seq(Byte8), NEW n, NEW b \in Nat, NEW q \in Nat,
         NEW r \in 0..(b - 1), NEW rest, rest = q * b + r,
         NEW w, Quotients(w, n, digits, b, rest)
  PROVE  \E v : Quotients(v, n, Append(digits, r), b, q)
<1>1. PICK k \in Nat : k = Len(digits)
  OBVIOUS
<1>2. /\ w \in [0..k -> Nat] /\ w[0] = n /\ w[k] = rest
      /\ \A i \in 1..k : digits[i] \in 0..(b - 1)
  BY <1>1 DEF Quotients
<1>3. \A i \in 1..k : w[i - 1] = w[i] * b + digits[i]
  BY <1>1 DEF Quotients
<1>4. r \in Byte8
  BY DEF Byte8
<1>5. PICK s : s = Append(digits, r)
  OBVIOUS
<1>6. Len(s) = k + 1 /\ s[k + 1] = r /\ \A i \in 1..k : s[i] = digits[i]
  BY <1>1, <1>4, <1>5
<1>7. PICK v : v = [i \in 0..(k + 1) |-> IF i = k + 1 THEN q ELSE w[i]]
  OBVIOUS
<1>8. /\ v[k + 1] = q /\ \A i \in 0..k : v[i] = w[i]
      /\ v \in [0..(k + 1) -> Nat]
  <2>1. \A i \in 0..(k + 1) : i # k + 1 => i \in 0..k
    OBVIOUS
  <2>2. k + 1 \in 0..(k + 1) /\ \A i \in 0..k : i \in 0..(k + 1) /\ i # k + 1
    OBVIOUS
  <2> QED
    BY <1>2, <1>7, <2>1, <2>2
<1>9. \A i \in 1..(k + 1) : s[i] \in 0..(b - 1)
  <2>1. \A i \in 1..(k + 1) : i # k + 1 => i \in 1..k
    OBVIOUS
  <2> QED
    BY <1>2, <1>6, <2>1
<1>10. ASSUME NEW i \in 1..(k + 1) PROVE v[i - 1] = v[i] * b + s[i]
  <2>1. CASE i = k + 1
    <3>1. i - 1 = k /\ k \in 0..k
      BY <2>1
    <3>2. v[i - 1] = rest /\ v[i] = q /\ s[i] = r
      BY <1>2, <1>8, <1>6, <2>1, <3>1
    <3> QED
      BY <3>2
  <2>2. CASE i # k + 1
    <3>1. i \in 1..k /\ i \in 0..k /\ i - 1 \in 0..k
      BY <2>2
    <3>2. v[i - 1] = w[i - 1] /\ v[i] = w[i] /\ s[i] = digits[i]
      BY <1>8, <1>6, <3>1
    <3> QED
      BY <1>3, <3>1, <3>2
  <2> QED
    BY <2>1, <2>2
<1>11. v[0] = n
  <2>1. 0 \in 0..k
    OBVIOUS
  <2> QED
    BY <1>2, <1>8, <2>1
<1>12. Quotients(v, n, s, b, q)
  BY <1>8, <1>9, <1>10, <1>11, <1>6 DEF Quotients
<1> QED
  BY <1>5, <1>12

(* Turned round and ended, the digits are those of the number.             *)
Ended(digits, n, b) ==
  LET k == Len(digits)
      t == Append(Reverse(digits), NUL)
  IN  /\ Len(t) = k + 1 /\ t[k + 1] = NUL /\ t[1] = digits[k]
      /\ \A i \in 1..k : t[i] \in 0..(b - 1)
      /\ n = NumberOf(t, k, b)

LEMMA DigitsTurnedRound ==
  ASSUME NEW digits \in Seq(Byte8), Len(digits) >= 1, NEW n, NEW b \in Nat,
         NEW w, Quotients(w, n, digits, b, 0)
  PROVE  Ended(digits, n, b)
<1>1. PICK k \in Nat : k = Len(digits) /\ k >= 1
  OBVIOUS
<1>2. /\ w \in [0..k -> Nat] /\ w[0] = n /\ w[k] = 0
      /\ \A i \in 1..k : digits[i] \in 0..(b - 1)
  BY <1>1 DEF Quotients
<1>3. \A i \in 1..k : w[i - 1] = w[i] * b + digits[i]
  BY <1>1 DEF Quotients
<1>4. PICK s : /\ s = Reverse(digits) /\ s \in Seq(Byte8) /\ Len(s) = k
               /\ \A i \in 1..k : s[i] = digits[(k - i) + 1]
  <2>1. Reverse(digits) \in Seq(Byte8) /\ Len(Reverse(digits)) = k
    BY <1>1, ReverseLength
  <2>2. \A i \in 1..k : Reverse(digits)[i] = digits[(k - i) + 1]
    BY <1>1 DEF Reverse
  <2> QED
    BY <2>1, <2>2
<1>5. PICK t : t = Append(s, NUL)
  OBVIOUS
<1>6. /\ Len(t) = k + 1 /\ t[k + 1] = NUL
       /\ \A i \in 1..k : t[i] = digits[(k - i) + 1]
  <2>1. NUL \in Byte8
    BY DEF Byte8
  <2>2. Len(Append(s, NUL)) = k + 1 /\ Append(s, NUL)[k + 1] = NUL
    BY <1>4, <2>1
  <2>3. \A i \in 1..k : Append(s, NUL)[i] = s[i]
    BY <1>4, <2>1
  <2> QED
    BY <1>4, <1>5, <2>2, <2>3
<1>7. \A i \in 1..k : (k - i) + 1 \in 1..k
  OBVIOUS
<1>8. \A i \in 1..k : t[i] \in 0..(b - 1)
  BY <1>2, <1>6, <1>7
<1>9. t[1] = digits[k]
  <2>1. 1 \in 1..k /\ (k - 1) + 1 = k
    BY <1>1
  <2> QED
    BY <1>6, <2>1
<1>10. PICK f : f = [i \in 0..k |-> w[k - i]]
  OBVIOUS
<1>11. Follows(f, t, k, b)
  <2>1. f \in [0..k -> Nat] /\ f[0] = 0
    <3>1. \A i \in 0..k : k - i \in 0..k
      OBVIOUS
    <3>2. 0 \in 0..k /\ k - 0 = k
      OBVIOUS
    <3> QED
      BY <1>2, <1>10, <3>1, <3>2
  <2>2. ASSUME NEW i \in 1..k PROVE f[i] = f[i - 1] * b + t[i]
    <3>1. PICK j \in 1..k : /\ j = (k - i) + 1 /\ j - 1 = k - i
                            /\ j = k - (i - 1)
      OBVIOUS
    <3>2. i \in 0..k /\ i - 1 \in 0..k
      OBVIOUS
    <3>3. f[i] = w[j - 1] /\ f[i - 1] = w[j] /\ t[i] = digits[j]
      BY <1>6, <1>10, <3>1, <3>2
    <3> QED
      BY <1>3, <3>3
  <2> QED
    BY <2>1, <2>2 DEF Follows
<1>12. NumberOf(t, k, b) = f[k]
  BY <1>11, NumberOfIs
<1>13. f[k] = n
  <2>1. k \in 0..k /\ k - k = 0
    OBVIOUS
  <2> QED
    BY <1>2, <1>10, <2>1
<1> QED
  BY <1>1, <1>4, <1>5, <1>6, <1>8, <1>9, <1>12, <1>13 DEF Ended

(* What leaves something after its digits has one more.                    *)
LEMMA OneDigitMore ==
  ASSUME NEW digits \in Seq(Byte8), NEW n, NEW b \in Nat,
         NEW rest \in Nat, rest > 0, NEW w, Quotients(w, n, digits, b, rest),
         NEW ones, NEW k \in Nat, k = Len(digits),
         ones = [i \in 1..(k + 1) |-> IF i = 1 THEN 1 ELSE 0]
  PROVE  n >= NumberOf(ones, k + 1, b)
<1>1. /\ w \in [0..k -> Nat] /\ w[0] = n /\ w[k] = rest
      /\ \A i \in 1..k : digits[i] \in 0..(b - 1)
  BY DEF Quotients
<1>2. \A i \in 1..k : w[i - 1] = w[i] * b + digits[i]
  BY DEF Quotients
<1>3. k + 1 \in Nat /\ \A i \in 1..(k + 1) : ones[i] \in Nat
  OBVIOUS
<1>4. PICK f : Follows(f, ones, k + 1, b)
  BY <1>3, DigitsAreFollowed
<1>5. f \in [0..(k + 1) -> Nat] /\ f[0] = 0
  BY <1>4 DEF Follows
<1>6. \A i \in 1..(k + 1) : f[i] = f[i - 1] * b + ones[i]
  BY <1>4 DEF Follows
<1> DEFINE S == {j \in Nat : j \in 0..k => w[k - j] >= f[j + 1]}
<1>7. 0 \in S
  <2>1. 1 \in 1..(k + 1) /\ 1 - 1 = 0 /\ ones[1] = 1
    OBVIOUS
  <2>2. f[1] = 0 * b + 1
    BY <1>5, <1>6, <2>1
  <2>3. f[0 + 1] = 1 /\ k - 0 = k
    BY <2>2
  <2> QED
    BY <1>1, <2>3
<1>8. ASSUME NEW j \in S PROVE j + 1 \in S
  <2> SUFFICES ASSUME j + 1 \in 0..k
               PROVE  w[k - (j + 1)] >= f[(j + 1) + 1]
    OBVIOUS
  <2>1. j \in Nat /\ j \in 0..k
    OBVIOUS
  <2>2. PICK i \in 1..k : i = k - j /\ i - 1 = k - (j + 1) /\ i \in 0..k
    BY <2>1
  <2>3. PICK h \in 1..(k + 1) : /\ h = (j + 1) + 1 /\ h - 1 = j + 1
                                /\ h # 1 /\ h - 1 \in 0..(k + 1)
    BY <2>1
  <2>4. PICK x \in Nat, y \in Nat, c \in Nat :
          x = w[i] /\ y = f[h - 1] /\ c = digits[i] /\ x >= y
    <3>1. w[k - j] >= f[j + 1]
      BY <2>1
    <3>2. w[i] \in Nat /\ f[h - 1] \in Nat /\ digits[i] \in Nat
      <4>1. w[i] \in Nat
        BY <1>1, <2>2
      <4>2. f[h - 1] \in Nat
        BY <1>5, <2>3
      <4>3. digits[i] \in 0..(b - 1)
        BY <1>1
      <4> QED
        BY <4>1, <4>2, <4>3
    <3> QED
      BY <2>2, <2>3, <3>1, <3>2
  <2>5. w[i - 1] = x * b + c /\ f[h] = y * b + 0
    <3>1. ones[h] = 0
      BY <2>3
    <3> QED
      BY <1>2, <1>6, <2>2, <2>3, <2>4, <3>1
  <2>6. x * b + c >= y * b + 0
    <3>1. PICK z \in Nat : x = y + z
      <4>1. x \in Nat /\ y \in Nat /\ x >= y
        BY <2>4
      <4>2. x - y \in Nat /\ x = y + (x - y)
        BY <4>1
      <4> QED
        BY <4>2
    <3>2. (y + z) * b + c = y * b + (z * b + c) /\ z * b \in Nat
      OBVIOUS
    <3>3. \A m, l \in Nat : m + (l + c) >= m + 0
      OBVIOUS
    <3>4. y * b \in Nat
      OBVIOUS
    <3> QED
      BY <3>1, <3>2, <3>3, <3>4
  <2> QED
    BY <2>2, <2>3, <2>5, <2>6
<1>9. S = Nat
  <2>1. S \subseteq Nat
    OBVIOUS
  <2> HIDE DEF S
  <2> QED
    BY <1>7, <1>8, <2>1, NaturalsByInduction
<1>10. w[0] >= f[k + 1]
  <2>1. k \in S
    BY <1>9
  <2>2. k \in 0..k /\ k - k = 0
    OBVIOUS
  <2> QED
    BY <2>1, <2>2
<1>11. NumberOf(ones, k + 1, b) = f[k + 1]
  BY <1>4, NumberOfIs
<1> QED
  BY <1>1, <1>10, <1>11

(* A number that fits the last byte of the lowest word is that byte.       *)
LEMMA LowestByte ==
  ASSUME NEW a \in UInt256, Value(a) < 16
  PROVE  a.lower.lower % 2^8 = Value(a)
<1>1. PICK n \in Nat : n = Value(a) /\ n < 16 /\ n \in Word
  BY Zero, Sizes DEF Word
<1>2. Small256(n) \in UInt256 /\ Value(Small256(n)) = n
  BY <1>1, SmallNumbers
<1>3. a = Small256(n)
  BY <1>1, <1>2, Order256
<1>4. a.lower.lower = n
  BY <1>3 DEF Small256, Small128, Pair
<1>5. 2^8 = 256 /\ n % 256 = n
  BY <1>1
<1> QED
  BY <1>1, <1>4, <1>5

(* What is left to write: after a division its quotient and its digit.     *)
Remaining == IF pc = "put" THEN Value(rDiv) * baseParam + Value(rMod)
                           ELSE Value(rDiv)

(* The digits written so far are those of the number, and something is     *)
(* left after them until the last one.                                     *)
Writing ==
  /\ pc # "true" =>
       /\ \E w : Quotients(w, Value(number), out, baseParam, Remaining)
       /\ out # <<>> => Remaining > 0
  /\ pc = "false" /\ baseParam \in 2..16 => Len(out) = outLength
  /\ WritesTheNumber

LEMMA WritingInit ==
  Init => Writing
<1> SUFFICES ASSUME Init PROVE Writing
  OBVIOUS
<1>1. /\ out = <<>> /\ rDiv = number /\ pc \in {"digit", "false"}
      /\ pc = "false" => baseParam < 2 \/ baseParam > 16
  BY DEF Init
<1>2. Value(number) \in Nat /\ baseParam \in Int
  BY InvInit, Zero, Sizes DEF Inv, TypeOK, Sizing, Word
<1>3. Remaining = Value(number)
  BY <1>1 DEF Remaining
<1>4. \E w : Quotients(w, Value(number), out, baseParam, Remaining)
  BY <1>1, <1>2, <1>3, NoDigits
<1>5. ~(pc = "false" /\ baseParam \in 2..16)
  BY <1>1, <1>2
<1>6. WritesTheNumber
  BY <1>1 DEF WritesTheNumber
<1> QED
  BY <1>1, <1>4, <1>5, <1>6 DEF Writing

(* Steps that neither write nor change what is left.                       *)
LEMMA NothingWritten ==
  ASSUME Writing, pc # "true", pc' # "true",
         UNCHANGED <<number, baseParam, outLength, out>>,
         Remaining' = Remaining,
         pc' = "false" => Len(out) = outLength
  PROVE  Writing'
<1>1. PICK w : Quotients(w, Value(number), out, baseParam, Remaining)
  BY DEF Writing
<1>2. Quotients(w, Value(number'), out', baseParam', Remaining')
  BY <1>1
<1>3. out' # <<>> => Remaining' > 0
  BY DEF Writing
<1>4. WritesTheNumber'
  BY DEF WritesTheNumber
<1> QED
  BY <1>2, <1>3, <1>4 DEF Writing

LEMMA DivisionWritesNothing ==
  ASSUME Inv, Writing,
         \/ NextDigit \/ DivideSmaller \/ DivideBegins \/ DivideAligns
         \/ DivideLoop \/ DivideEnds
  PROVE  Writing'
<1>1. ASSUME NextDigit PROVE Writing'
  <2>1. /\ UNCHANGED <<number, baseParam, outLength, out, rDiv, rMod>>
        /\ pc = "digit" /\ pc' \in {"false", "divide"}
        /\ pc' = "false" => Len(out) > outLength - 1
    BY <1>1 DEF NextDigit, input
  <2>2. pc' = "false" => Len(out) = outLength
    <3>1. PICK n \in Nat, k \in Nat :
            n = outLength /\ k = Len(out) /\ k <= n
      BY <2>1, SMTT(20) DEF Inv, Sizing, Room
    <3> QED
      BY <2>1, <3>1
  <2>3. Remaining' = Remaining
    BY <2>1 DEF Remaining
  <2> QED
    BY <2>1, <2>2, <2>3, NothingWritten
<1>2. ASSUME DivideSmaller PROVE Writing'
  <2>1. /\ UNCHANGED <<number, baseParam, outLength, out>>
        /\ rDiv' = Small256(0) /\ rMod' = rDiv
        /\ pc = "divide" /\ pc' = "put"
    BY <1>2 DEF DivideSmaller, input
  <2>2. PICK n \in Nat, b \in Nat : n = Value(rDiv) /\ b = baseParam
    BY Typed
  <2>3. Remaining = n /\ Remaining' = 0 * b + n
    BY <2>1, <2>2, Zero DEF Remaining
  <2>4. 0 * b + n = n
    OBVIOUS
  <2>5. Remaining' = Remaining
    BY <2>3, <2>4
  <2> QED
    BY <2>1, <2>5, NothingWritten
<1>3. ASSUME DivideBegins \/ DivideAligns \/ DivideLoop PROVE Writing'
  <2>1. /\ UNCHANGED <<number, baseParam, outLength, out, rDiv, rMod>>
        /\ pc \in {"divide", "align", "loop"} /\ pc' \in {"align", "loop"}
    BY <1>3 DEF DivideBegins, DivideAligns, DivideLoop, input
  <2>2. Remaining' = Remaining
    BY <2>1 DEF Remaining
  <2> QED
    BY <2>1, <2>2, NothingWritten
<1>4. ASSUME DivideEnds PROVE Writing'
  <2>1. /\ UNCHANGED <<number, baseParam, outLength, out>>
        /\ rDiv' = resDiv /\ rMod' = resMod
        /\ pc = "loop" /\ pc' = "put"
    BY <1>4 DEF DivideEnds, input
  <2>2. Value(rDiv) = Value(resDiv) * baseParam + Value(resMod)
    BY <2>1 DEF Inv, Looping
  <2>3. Remaining' = Remaining
    BY <2>1, <2>2 DEF Remaining
  <2> QED
    BY <2>1, <2>3, NothingWritten
<1> QED
  BY <1>1, <1>2, <1>3, <1>4

LEMMA PutDigitWrites ==
  ASSUME Inv, Writing, PutDigit
  PROVE  Writing'
<1>1. /\ UNCHANGED <<number, baseParam, outLength, rDiv, rMod>>
      /\ pc = "put"
      /\ \/ /\ rDiv # Small256(0)
            /\ out' = Append(out, Digit) /\ pc' = "digit"
         \/ /\ rDiv = Small256(0)
            /\ out' = Append(Reverse(Append(out, Digit)), NUL)
            /\ pc' = "true"
  BY DEF PutDigit, input
<1>2. PICK n \in Nat, b \in Nat, q \in Nat, r \in Nat :
        /\ n = Value(number) /\ b = baseParam
        /\ q = Value(rDiv) /\ r = Value(rMod)
        /\ r < b /\ b <= 16
  <2>1. Value(number) \in Nat /\ Value(rMod) \in Nat
    BY Zero DEF Inv, TypeOK
  <2>2. Value(rMod) < baseParam /\ baseParam <= 16
    BY <1>1 DEF Inv, Sizing, Remainder
  <2> QED
    BY <2>1, <2>2, Typed
<1>3. Digit = r
  <2>1. Value(rMod) < 16
    BY <1>2
  <2> QED
    BY <1>2, <2>1, Typed, LowestByte DEF Digit
<1>4. r \in 0..(b - 1) /\ r \in Byte8
  BY <1>2 DEF Byte8
<1>5. PICK s : s = Append(out, r)
  OBVIOUS
<1>6. PICK k \in Nat : k = Len(out)
  BY DEF Inv, Room
<1>7. /\ out \in Seq(Byte8) /\ s \in Seq(Byte8)
      /\ Len(s) = k + 1 /\ s[k + 1] = r
  BY <1>4, <1>5, <1>6 DEF Inv, Room
<1>8. Remaining = q * b + r
  BY <1>1, <1>2 DEF Remaining
<1>9. PICK v : Quotients(v, n, s, b, q)
  <2>1. PICK w : Quotients(w, n, out, b, Remaining)
    BY <1>1, <1>2 DEF Writing
  <2> QED
    BY <1>4, <1>5, <1>7, <1>8, <2>1, OneMoreDigit
<1>10. CASE rDiv # Small256(0)
  <2>1. out' = s /\ pc' = "digit"
    BY <1>1, <1>3, <1>5, <1>10
  <2>2. q > 0
    BY <1>2, <1>10, Typed, Zero
  <2>3. Remaining' = q
    BY <1>1, <1>2, <2>1 DEF Remaining
  <2>4. Quotients(v, Value(number'), out', baseParam', Remaining')
    BY <1>1, <1>2, <1>9, <2>1, <2>3
  <2>5. WritesTheNumber'
    BY <2>1 DEF WritesTheNumber
  <2>6. Remaining' > 0
    BY <2>2, <2>3
  <2> QED
    BY <2>1, <2>4, <2>5, <2>6 DEF Writing
<1>11. CASE rDiv = Small256(0)
  <2>1. PICK t : t = Append(Reverse(s), NUL)
    OBVIOUS
  <2>2. out' = t /\ pc' = "true"
    BY <1>1, <1>3, <1>5, <1>11, <2>1
  <2>3. q = 0
    BY <1>2, <1>11, Zero
  <2>4. Ended(s, n, b)
    <3>1. Len(s) >= 1
      BY <1>6, <1>7
    <3> QED
      BY <1>7, <1>9, <2>3, <3>1, DigitsTurnedRound
  <2>5. /\ Len(t) = (k + 1) + 1 /\ t[(k + 1) + 1] = NUL /\ t[1] = r
        /\ \A i \in 1..(k + 1) : t[i] \in 0..(b - 1)
        /\ n = NumberOf(t, k + 1, b)
    BY <1>7, <2>1, <2>4 DEF Ended
  <2>6. k + 1 > 1 => r # 0
    <3>1. k + 1 > 1 => out # <<>>
      BY <1>6
    <3>2. out # <<>> => Remaining > 0
      BY <1>1 DEF Writing
    <3>3. Remaining = 0 * b + r /\ 0 * b + r = r
      BY <1>8, <2>3
    <3> QED
      BY <3>1, <3>2, <3>3
  <2>7. Len(t) - 1 = k + 1 /\ k + 1 >= 1
    BY <1>6, <2>5
  <2>8. WritesTheNumber'
    <3>1. Value(number') = n /\ baseParam' = b
      BY <1>1, <1>2
    <3> QED
      BY <2>2, <2>5, <2>6, <2>7, <3>1 DEF WritesTheNumber
  <2> QED
    BY <2>2, <2>8 DEF Writing
<1> QED
  BY <1>10, <1>11

LEMMA WritingStep ==
  Inv /\ Writing /\ [Next]_vars => Writing'
<1> SUFFICES ASSUME Inv, Writing, [Next]_vars PROVE Writing'
  OBVIOUS
<1>1. CASE UNCHANGED vars
  BY <1>1 DEF vars, Writing, WritesTheNumber, Remaining
<1>2. CASE Next
  BY <1>2, DivisionWritesNothing, PutDigitWrites DEF Next
<1> QED
  BY <1>1, <1>2

(* What tostring256 writes is the number it was given, in the base it was  *)
(* given, most significant digit first and without zeros in front,         *)
(* whatever the number and the width of the words.                         *)
THEOREM TheNumberIsWritten ==
  ArithmeticSpec => []WritesTheNumber
<1>1. Writing => WritesTheNumber
  BY DEF Writing
<1> QED
  BY <1>1, InvInit, InvStep, WritingInit, WritingStep, RunsToString, PTL

(* tostring256 refuses no number whose digits and termination fit.         *)
THEOREM OnlyTooLongIsRefused ==
  ArithmeticSpec => []RefusesOnlyTooLong
<1>1. Inv /\ Writing => RefusesOnlyTooLong
  <2> SUFFICES ASSUME Inv, Writing, pc = "false", baseParam \in 2..16
               PROVE  Value(number)
                        >= NumberOf(OneAndZeros, outLength + 1, baseParam)
    BY DEF RefusesOnlyTooLong
  <2>1. PICK k \in Nat : k = outLength /\ k = Len(out) /\ k >= 1
    BY DEF Inv, Sizing, Writing
  <2>2. out \in Seq(Byte8) /\ out # <<>>
    <3>1. Len(<<>>) = 0
      OBVIOUS
    <3> QED
      BY <2>1, <3>1 DEF Inv, Room
  <2>3. PICK w : Quotients(w, Value(number), out, baseParam, Remaining)
    BY DEF Writing
  <2>4. PICK rest \in Nat : rest = Remaining /\ rest > 0
    BY <2>2, Typed DEF Writing, Remaining
  <2>5. PICK ones : /\ ones = [i \in 1..(k + 1) |-> IF i = 1 THEN 1 ELSE 0]
                    /\ ones = OneAndZeros
    BY <2>1 DEF OneAndZeros
  <2>6. Value(number) >= NumberOf(ones, k + 1, baseParam)
    <3>1. baseParam \in Nat
      BY Typed
    <3> QED
      BY <2>1, <2>2, <2>3, <2>4, <2>5, <3>1, OneDigitMore
  <2> QED
    BY <2>1, <2>5, <2>6
<1> QED
  BY <1>1, InvInit, InvStep, WritingInit, WritingStep, RunsToString, PTL

-----------------------------------------------------------------------------
(* Calls of the other functions. *)

(* A call's result is the function's, for the numbers it was called with.  *)
Called ==
  /\ number1 \in UInt256 /\ number2 \in UInt256
  /\ call = "add" => target = Add256(number1, number2)
  /\ call = "minus" => target = Minus256(number1, number2)
  /\ call = "mul128" =>
       target = Pair(Small128(0), Mul128(number1.lower, number2.lower))
  /\ call = "shiftl" =>
       \E v \in Nat : by = <<v>> /\ target = Shiftl256(number1, v)
  /\ call = "shiftr" =>
       \E v \in Nat : by = <<v>> /\ target = Shiftr256(number1, v)
  /\ call = "read" =>
       /\ by \in Seq(Nat) /\ Len(by) <= TmpBytes
       /\ target = RlpReadUInt256(by)

LEMMA CalledInit ==
  ArithmeticInit => Called
<1>1. ASSUME NoCall PROVE Called
  BY <1>1, Zero DEF NoCall, Called
<1>2. NumbersOf(CallWords) \subseteq UInt256
  BY CallWordsAssumption DEF NumbersOf, UInt256, UInt128, Pair
<1>3. ASSUME /\ number1 \in NumbersOf(CallWords)
             /\ number2 \in NumbersOf(CallWords)
             /\ call = "none"
      PROVE  Called
  BY <1>2, <1>3 DEF Called
<1> QED
  BY <1>1, <1>3 DEF ArithmeticInit

LEMMA CalledStep ==
  Called /\ [ArithmeticNext]_<<vars, callVars>> => Called'
<1> SUFFICES ASSUME Called, [ArithmeticNext]_<<vars, callVars>>
             PROVE  Called'
  OBVIOUS
<1>1. CASE UNCHANGED callVars
  BY <1>1 DEF Called, callVars
<1>2. CASE CallNext
  <2>1. UNCHANGED <<number1, number2>>
    BY <1>2 DEF CallNext, Call1, Call
  <2>2. ASSUME Call("add", Add256(number1, number2)) PROVE Called'
    BY <2>1, <2>2 DEF Called, Call
  <2>3. ASSUME Call("minus", Minus256(number1, number2)) PROVE Called'
    BY <2>1, <2>3 DEF Called, Call
  <2>4. ASSUME Call("mul128", Pair(Small128(0),
                                   Mul128(number1.lower, number2.lower)))
        PROVE  Called'
    BY <2>1, <2>4 DEF Called, Call
  <2>5. ASSUME Call1("mul", Mul256(number1, number1), <<>>) PROVE Called'
    BY <2>1, <2>5 DEF Called, Call1, Call
  <2>6. ASSUME NEW v \in 0..(4 * WordBits + 1),
               Call1("shiftl", Shiftl256(number1, v), <<v>>)
        PROVE  Called'
    <3>1. v \in Nat
      BY Sizes
    <3> QED
      BY <2>1, <2>6, <3>1 DEF Called, Call1, Call
  <2>7. ASSUME NEW v \in 0..(4 * WordBits + 1),
               Call1("shiftr", Shiftr256(number1, v), <<v>>)
        PROVE  Called'
    <3>1. v \in Nat
      BY Sizes
    <3> QED
      BY <2>1, <2>7, <3>1 DEF Called, Call1, Call
  <2>8. ASSUME NEW bytes \in MCBytes,
               Call1("read", RlpReadUInt256(bytes), bytes)
        PROVE  Called'
    <3>1. bytes \in Seq(Nat) /\ Len(bytes) <= TmpBytes
      <4>1. PICK n \in 0..TmpBytes : bytes \in [1..n -> {0, 1, 3}]
        BY DEF MCBytes
      <4>2. n \in Nat /\ n <= TmpBytes
        BY DEF TmpBytes
      <4> QED
        BY <4>1, <4>2
    <3> QED
      BY <2>1, <2>8, <3>1 DEF Called, Call1, Call
  <2> QED
    BY <1>2, <2>2, <2>3, <2>4, <2>5, <2>6, <2>7, <2>8 DEF CallNext
<1> QED
  BY <1>1, <1>2 DEF ArithmeticNext

LEMMA LimitIsCapacity ==
  Limit = Capacity
<1>1. PICK M \in Nat : M = Modulus
  BY Sizes
<1>2. M * M * M * M = (M * M) * (M * M)
  OBVIOUS
<1> QED
  BY <1>1, <1>2 DEF Limit, Capacity

(* add256 and minus256 add and subtract: every carry and borrow crosses    *)
(* the words and the halves, for any numbers in words of any width.        *)
THEOREM SumsAndDifferences ==
  ArithmeticSpec => []AddsAndSubtracts
<1>1. Called => AddsAndSubtracts
  <2> SUFFICES ASSUME Called
               PROVE  /\ call = "add" =>
                           Value(target)
                             = (Value(number1) + Value(number2)) % Limit
                      /\ call = "minus" =>
                           Value(target)
                             = (Value(number1) - Value(number2)) % Limit
    BY DEF AddsAndSubtracts
  <2>1. number1 \in UInt256 /\ number2 \in UInt256
    BY DEF Called
  <2>2. Value(Add256(number1, number2))
          = (Value(number1) + Value(number2)) % Limit
    BY <2>1, Add256Adds, LimitIsCapacity
  <2>3. Value(Minus256(number1, number2))
          = (Value(number1) - Value(number2)) % Limit
    BY <2>1, Minus256Subtracts, LimitIsCapacity
  <2> QED
    BY <2>2, <2>3 DEF Called
<1> QED
  BY <1>1, CalledInit, CalledStep, PTL DEF ArithmeticSpec

(* What is kept before a shift is what is kept after it.                   *)
LEMMA KeptByShift ==
  ASSUME NEW n \in Nat, NEW w \in Nat, NEW v \in Nat, v < w
  PROVE  (n * 2^v) % 2^w = (n % 2^(w - v)) * 2^v
<1>1. PICK P \in Nat, Q \in Nat :
        P = 2^v /\ Q = 2^(w - v) /\ P > 0 /\ Q > 0 /\ 2^w = P * Q
  <2>1. v \in 0..w
    OBVIOUS
  <2> QED
    BY <2>1, WordSplit
<1>2. PICK q \in Nat, r \in Nat : n = q * Q + r /\ r < Q /\ r = n % Q
  BY <1>1, DivMod
<1>3. PICK K \in Nat, k \in Nat : K = P * Q /\ k = r * P /\ K > 0
  BY <1>1
<1>4. n * P = q * K + k
  <2>1. (q * Q + r) * P = q * (P * Q) + r * P
    OBVIOUS
  <2> QED
    BY <1>2, <1>3, <2>1
<1>5. k < K
  <2>1. (r + 1) * P <= Q * P
    BY <1>2
  <2>2. (r + 1) * P = r * P + P /\ Q * P = P * Q
    OBVIOUS
  <2> QED
    BY <1>1, <1>3, <2>1, <2>2
<1>6. K \in Nat /\ K > 0 /\ k \in Nat /\ q \in Int
  BY <1>3
<1>7. (q * K + k) % K = k
  BY <1>5, <1>6, DivModUnique
<1> QED
  BY <1>1, <1>2, <1>3, <1>4, <1>7

(* shiftl256 and shiftr256 multiply and divide by powers of two, whatever  *)
(* word boundary the bits cross and however far they go, and bits256 is    *)
(* the length of a number.                                                 *)
THEOREM ShiftsArePowers ==
  ArithmeticSpec => []Shifts
<1>1. Called => Shifts
  <2> SUFFICES ASSUME Called PROVE Shifts
    OBVIOUS
  <2>1. number1 \in UInt256
    BY DEF Called
  <2>2. PICK n \in Nat, w \in Nat :
          n = Value(number1) /\ w = 4 * WordBits /\ 2^w = Capacity
    BY <2>1, Sizes, Zero, Widths
  <2>3. ASSUME call = "shiftl"
        PROVE  Value(target) = IF by[1] >= w THEN 0
                                 ELSE (n % 2^(w - by[1])) * 2^by[1]
    <3>1. PICK v \in Nat : by[1] = v /\ target = Shiftl256(number1, v)
      BY <2>3 DEF Called
    <3>2. Value(target) = (n * 2^v) % 2^w
      BY <2>1, <2>2, <3>1, Shiftl256Shifts
    <3>3. v >= w => (n * 2^v) % 2^w = 0
      BY NothingIsLeft
    <3>4. v < w => (n * 2^v) % 2^w = (n % 2^(w - v)) * 2^v
      BY KeptByShift
    <3> QED
      BY <3>1, <3>2, <3>3, <3>4
  <2>4. ASSUME call = "shiftr" PROVE Value(target) = n \div 2^by[1]
    <3>1. PICK v \in Nat : by[1] = v /\ target = Shiftr256(number1, v)
      BY <2>4 DEF Called
    <3> QED
      BY <2>1, <2>2, <3>1, Shiftr256Shifts
  <2>5. PICK k \in Nat : k = Bits256(number1) /\ Bitlength(n, k)
    BY <2>1, <2>2, Sizes, Bits256IsLength
  <2>6. n < 2^k /\ (k > 0 => n >= 2^(k - 1))
    BY <2>5 DEF Bitlength
  <2> QED
    BY <2>2, <2>3, <2>4, <2>5, <2>6 DEF Shifts
<1> QED
  BY <1>1, CalledInit, CalledStep, PTL DEF ArithmeticSpec

(* The product is found a digit at a time.                                 *)
LEMMA ProductIs ==
  ASSUME NEW m \in Nat, NEW n \in Nat, NEW L \in Nat, L > 0
  PROVE  Product(m, n, L) = (m * n) % L
<1>1. PICK b \in Nat : b = 2^8 /\ b > 0
  <2>1. 2^8 = 256
    OBVIOUS
  <2> QED
    BY <2>1
<1>2. PICK q \in Nat, r \in Nat :
        n = q * b + r /\ q = n \div b /\ r = n % b
  BY <1>1, DivMod
<1>3. PICK x \in Nat, y \in Nat : x = m * q /\ y = m * r
  OBVIOUS
<1>4. PICK k \in Int, z \in Nat : x = k * L + z /\ z = x % L
  BY DivMod
<1>5. m * n = (k * b) * L + (z * b + y)
  <2>1. m * (q * b + r) = (m * q) * b + m * r
    OBVIOUS
  <2>2. (k * L + z) * b + y = (k * b) * L + (z * b + y)
    OBVIOUS
  <2> QED
    BY <1>2, <1>3, <1>4, <2>1, <2>2
<1>6. ((k * b) * L + (z * b + y)) % L = (z * b + y) % L
  <2>1. PICK j \in Int, c \in Int : j = k * b /\ c = z * b + y
    OBVIOUS
  <2>2. (j * L + c) % L = c % L
    BY ModOfMultiple
  <2> QED
    BY <2>1, <2>2
<1>7. Product(m, n, L) = (z * b + y) % L
  BY <1>1, <1>2, <1>3, <1>4 DEF Product
<1> QED
  BY <1>5, <1>6, <1>7

(* mul128 multiplies, modulo its width, any numbers in words of any width. *)
THEOREM ProductsOfHalves ==
  ArithmeticSpec => []Mul128IsProduct
<1>1. Called => Mul128IsProduct
  <2> SUFFICES ASSUME Called, call = "mul128"
               PROVE  Value(target) = Product(Value128(number1.lower),
                                              Value128(number2.lower),
                                              Modulus * Modulus)
    BY DEF Mul128IsProduct
  <2>1. PICK a \in UInt128, b \in UInt128, t \in UInt128 :
          /\ a = number1.lower /\ b = number2.lower /\ t = Mul128(a, b)
          /\ target = Pair(Small128(0), t)
          /\ Value128(t) = (Value128(a) * Value128(b)) % (Modulus * Modulus)
    BY HalvesAreNumbers, Mul128Multiplies DEF Called
  <2>2. PICK K \in Nat : K = Modulus * Modulus /\ K > 0
    <3>1. PICK M \in Nat : M = Modulus /\ M >= 16
      BY Sizes
    <3>2. M * M \in Nat /\ M * M > 0
      BY <3>1
    <3> QED
      BY <3>1, <3>2
  <2>3. /\ Value128(a) \in Nat /\ Value128(b) \in Nat /\ Value128(t) \in Nat
    BY <2>2, Value128InRange
  <2>4. Value(target) = Value128(t)
    <3>1. Value128(Small128(0)) = 0
      BY Sizes, SmallNumbers
    <3>2. Value(target) = 0 * K + Value128(t)
      BY <2>1, <2>2, <3>1, ValueOfPair DEF Two
    <3> QED
      BY <2>2, <2>3, <3>2
  <2>5. Product(Value128(a), Value128(b), K) = (Value128(a) * Value128(b)) % K
    BY <2>2, <2>3, ProductIs
  <2> QED
    BY <2>1, <2>2, <2>4, <2>5
<1> QED
  BY <1>1, CalledInit, CalledStep, PTL DEF ArithmeticSpec

(* A number of the transaction is the big-endian number of its bytes,      *)
(* however few there are.                                                  *)
THEOREM BytesAreBigEndian ==
  ArithmeticSpec => []ReadsBigEndian
<1>1. Called => ReadsBigEndian
  BY ReadsTheBytes DEF Called, ReadsBigEndian
<1> QED
  BY <1>1, CalledInit, CalledStep, PTL DEF ArithmeticSpec
==============================================================================
