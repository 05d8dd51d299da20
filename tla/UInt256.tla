------------------------------- MODULE UInt256 -------------------------------
(***************************************************************************)
(* Arithmetic on 128- and 256-bit numbers made of 64-bit words             *)
(* (app/src/uint256.c).  A number is a pair of halves of half its width;   *)
(* the width of a word is a parameter.  Where the code may be given the    *)
(* same number as input and target, each half is written only after the    *)
(* last read of the half it replaces, so the operators hold there too.     *)
(***************************************************************************)
EXTENDS Digits, Integers, FiniteSetsExt, SequencesExt

CONSTANT HalfBits    \* half of a 64-bit word

(* Five half-words must fit a word when they are added up in mul128.       *)
ASSUME WordAssumption == HalfBits \in Nat /\ HalfBits >= 2

WordBits == 2 * HalfBits
Half     == 2^HalfBits
Modulus  == 2^WordBits
Word     == 0..(Modulus - 1)
Wrap(n)  == n % Modulus      \* what is left of a sum in a uint64_t

Pair(upper, lower) == [upper |-> upper, lower |-> lower]
UInt128 == [upper : Word, lower : Word]
UInt256 == [upper : UInt128, lower : UInt128]

Small128(n) == Pair(0, n)
Small256(n) == Pair(Small128(0), Small128(n))

(* The number a pair stands for.                                           *)
Value128(n) == n.upper * Modulus + n.lower
Value(n)    == Value128(n.upper) * (Modulus * Modulus) + Value128(n.lower)

-----------------------------------------------------------------------------
(* Reading: big-endian bytes, of which a word has two here.  A number of   *)
(* fewer bytes than the 32 of tmpBuffer is put at its end.                 *)

Byte     == 0..(Half - 1)
TmpBytes == 8

(* A wrong variant: a short number is put at the front.                    *)
TmpBufferFront(bytes) ==
  [i \in 1..TmpBytes |-> IF i <= Len(bytes) THEN bytes[i] ELSE 0]

TmpBuffer(bytes) ==
  [i \in 1..TmpBytes |-> IF i > TmpBytes - Len(bytes)
                         THEN bytes[i - (TmpBytes - Len(bytes))] ELSE 0]

ReadUint64BE(buffer, offset) ==
  buffer[offset + 1] * Half + buffer[offset + 2]

ReadU128BE(buffer, offset) ==
  Pair(ReadUint64BE(buffer, offset), ReadUint64BE(buffer, offset + 2))

ReadU256BE(buffer) == Pair(ReadU128BE(buffer, 0), ReadU128BE(buffer, 4))

RlpReadUInt256(bytes) == ReadU256BE(TmpBuffer(bytes))

-----------------------------------------------------------------------------
(* Order. *)

Gt128(a, b)  == IF a.upper = b.upper THEN a.lower > b.lower
                                     ELSE a.upper > b.upper
Gte128(a, b) == Gt128(a, b) \/ a = b

Gt256(a, b)  == IF a.upper = b.upper THEN Gt128(a.lower, b.lower)
                                     ELSE Gt128(a.upper, b.upper)
Gte256(a, b) == Gt256(a, b) \/ a = b

-----------------------------------------------------------------------------
(* Sums and differences: a carry shows in a sum that is less than a part   *)
(* of it, a borrow in a difference that is more than what it was taken     *)
(* from.                                                                   *)

One(condition) == IF condition THEN 1 ELSE 0

Add128(a, b) ==
  LET lower == Wrap(a.lower + b.lower)
  IN  Pair(Wrap(a.upper + b.upper + One(lower < a.lower)), lower)

(* A wrong variant: no carry between the halves.                           *)
Add256NoCarry(a, b) ==
  Pair(Add128(a.upper, b.upper), Add128(a.lower, b.lower))

Add256(a, b) ==
  LET upper == Add128(a.upper, b.upper)
      lower == Add128(a.lower, b.lower)
  IN  Pair(IF Gt128(a.lower, lower) THEN Add128(upper, Small128(1)) ELSE upper,
           lower)

Minus128(a, b) ==
  LET lower == Wrap(a.lower - b.lower)
  IN  Pair(Wrap(a.upper - b.upper - One(lower > a.lower)), lower)

Minus256(a, b) ==
  LET upper == Minus128(a.upper, b.upper)
      lower == Minus128(a.lower, b.lower)
  IN  Pair(IF Gt128(lower, a.lower) THEN Minus128(upper, Small128(1))
                                    ELSE upper,
           lower)

-----------------------------------------------------------------------------
(* Bits. *)

(* A wrong variant: what leaves the word on the left is kept.             *)
LeftWider(w, v) == w * 2^v

Left(w, v)  == Wrap(w * 2^v)
Right(w, v) == w \div 2^v

Shiftl128(a, v) ==
  CASE v >= 2 * WordBits -> Small128(0)
    [] v = 0             -> a
    [] v \in 1..(WordBits - 1) ->
         Pair(Wrap(Left(a.upper, v) + Right(a.lower, WordBits - v)),
              Left(a.lower, v))
    [] v \in WordBits..(2 * WordBits - 1) ->
         Pair(Left(a.lower, v - WordBits), 0)

Shiftr128(a, v) ==
  CASE v >= 2 * WordBits -> Small128(0)
    [] v = 0             -> a
    [] v \in 1..(WordBits - 1) ->
         Pair(Right(a.upper, v),
              Wrap(Left(a.upper, WordBits - v) + Right(a.lower, v)))
    [] v \in WordBits..(2 * WordBits - 1) ->
         Pair(0, Right(a.upper, v - WordBits))

Shiftl256(a, v) ==
  LET bits == 2 * WordBits IN
  CASE v >= 2 * bits -> Small256(0)
    [] v = 0         -> a
    [] v \in 1..(bits - 1) ->
         Pair(Add128(Shiftl128(a.upper, v), Shiftr128(a.lower, bits - v)),
              Shiftl128(a.lower, v))
    [] v \in bits..(2 * bits - 1) ->
         Pair(Shiftl128(a.lower, v - bits), Small128(0))

(* A wrong variant: what leaves the upper half is lost.                    *)
Shiftr256Halves(a, v) == Pair(Shiftr128(a.upper, v), Shiftr128(a.lower, v))

Shiftr256(a, v) ==
  LET bits == 2 * WordBits IN
  CASE v >= 2 * bits -> Small256(0)
    [] v = 0         -> a
    [] v \in 1..(bits - 1) ->
         Pair(Shiftr128(a.upper, v),
              Add128(Shiftr128(a.lower, v), Shiftl128(a.upper, bits - v)))
    [] v \in bits..(2 * bits - 1) ->
         Pair(Small128(0), Shiftr128(a.upper, v - bits))

BitsOfWord(w) == CHOOSE n \in 0..WordBits : w < 2^n /\ (n = 0 \/ w >= 2^(n - 1))
Bits128(a) == IF a.upper # 0 THEN WordBits + BitsOfWord(a.upper)
                             ELSE BitsOfWord(a.lower)
Bits256(a) == IF a.upper # Small128(0) THEN 2 * WordBits + Bits128(a.upper)
                                       ELSE Bits128(a.lower)

BitSet(w)     == {i \in 0..(WordBits - 1) : (w \div 2^i) % 2 = 1}
OrWord(v, w)  == CHOOSE n \in Word : BitSet(n) = BitSet(v) \cup BitSet(w)
Or128(a, b)   == Pair(OrWord(a.upper, b.upper), OrWord(a.lower, b.lower))
Or256(a, b)   == Pair(Or128(a.upper, b.upper), Or128(a.lower, b.lower))

-----------------------------------------------------------------------------
(* Products by hand: each digit of one number times each of the other,     *)
(* gathered by the place they fall in, first to fourth.  Digits are        *)
(* half-words in mul128 and words in mul256, most significant first.       *)

(* A wrong variant: the product of the lower words carries nothing over.   *)
Mul128NoCarry(a, b) ==
  Pair(Wrap(a.upper * b.lower + a.lower * b.upper), Wrap(a.lower * b.lower))

Mul128(a, b) ==
  LET digits(n) == <<n.upper \div Half, n.upper % Half,
                     n.lower \div Half, n.lower % Half>>
      P(x, y)  == digits(a)[4 - x] * digits(b)[y + 1]    \* products[x][y]
      Lo(x, y) == P(x, y) % Half
      Hi(x, y) == P(x, y) \div Half
      fourth == Lo(0, 3)
      third  == Wrap(Lo(0, 2) + Hi(0, 3) + Lo(1, 3))
      second == Wrap(Lo(0, 1) + Hi(0, 2) + Lo(1, 2) + Hi(1, 3) + Lo(2, 3))
      first  == Wrap(Lo(0, 0) + Hi(0, 1) + Lo(1, 1) + Hi(1, 2)
                       + Lo(2, 2) + Hi(2, 3) + Lo(3, 3))
  IN  Add128(Small128(fourth),
             Add128(Pair(second, 0),
                    Add128(Pair(Left(first, HalfBits), 0),
                           Pair(Right(third, HalfBits),
                                Left(third, HalfBits)))))

Sum128(numbers) == FoldLeft(Add128, Small128(0), numbers)

(* The carry of the third place is written to the top word.                *)
Mul256(a, b) ==
  LET digits(n) == <<n.upper.upper, n.upper.lower,
                     n.lower.upper, n.lower.lower>>
      P  == [x, y \in 0..3 |-> Mul128(Small128(digits(a)[4 - x]),
                                      Small128(digits(b)[y + 1]))]
      Lo(x, y) == Small128(P[x, y].lower)
      Hi(x, y) == Small128(P[x, y].upper)
      fourth == Lo(0, 3)
      third  == Sum128(<<Lo(0, 2), Hi(0, 3), Lo(1, 3)>>)
      second == Sum128(<<Lo(0, 1), Hi(0, 2), Lo(1, 2), Hi(1, 3), Lo(2, 3)>>)
      first  == Sum128(<<Lo(0, 0), Hi(0, 1), Lo(1, 1), Hi(1, 2), Lo(2, 2),
                         Hi(2, 3), Lo(3, 3)>>)
  IN  Add256(Pair(Small128(0), fourth),
             Add256(Pair(second, Small128(0)),
                    Add256(Pair(Shiftl128(first, WordBits), Small128(0)),
                           Pair(Pair(third.upper, 0),
                                Shiftl128(third, WordBits)))))
==============================================================================
