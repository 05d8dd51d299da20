----------------------------- MODULE ToString256 -----------------------------
(***************************************************************************)
(* How numbers get on the screen: tostring256 (app/src/uint256.c) divides  *)
(* by the base until nothing is left and writes the remainders backwards;  *)
(* divmod256 subtracts shifted copies of the divisor.  Each turn of the    *)
(* two loops is an action.                                                 *)
(***************************************************************************)
EXTENDS UInt256

CONSTANTS
  Numbers,      \* the numbers to write
  BaseParams,   \* the bases asked for
  OutLengths    \* the sizes of the output buffers

ASSUME ToStringAssumption ==
  /\ Numbers \subseteq UInt256
  /\ BaseParams \subseteq Word
  /\ OutLengths \subseteq Nat \ {0, 1}    \* callers have 37 bytes and more

VARIABLES
  number, baseParam,
  outLength,      \* room for digits: a byte less than the buffer has
  out,            \* the bytes of the buffer written so far
  rDiv, rMod,     \* what is left to write, and the digit taken off it
  copyd, adder, resDiv, resMod,    \* of divmod256
  pc              \* "digit", "divide", "align", "loop", "put", "true", "false"

division == <<copyd, adder, resDiv, resMod>>
input    == <<number, baseParam, outLength>>
vars     == <<number, baseParam, outLength, out, rDiv, rMod, copyd, adder,
              resDiv, resMod, pc>>

NUL  == "NUL"
base == Small256(baseParam)

Init ==
  /\ number \in Numbers
  /\ baseParam \in BaseParams
  /\ outLength \in {n - 1 : n \in OutLengths}    \* keep one for termination
  /\ out = <<>>
  /\ rDiv = number
  /\ rMod = Small256(0)
  /\ copyd = Small256(0) /\ adder = Small256(0)
  /\ resDiv = Small256(0) /\ resMod = Small256(0)
  /\ pc = IF baseParam < 2 \/ baseParam > 16 THEN "false" ELSE "digit"

(* Wrong variants: room for one digit too many, and for one too few.       *)
NextDigitTooMany ==
  /\ pc = "digit"
  /\ pc' = IF Len(out) > outLength THEN "false" ELSE "divide"
  /\ UNCHANGED <<input, out, rDiv, rMod, division>>

NextDigitTooFew ==
  /\ pc = "digit"
  /\ pc' = IF Len(out) >= outLength - 1 THEN "false" ELSE "divide"
  /\ UNCHANGED <<input, out, rDiv, rMod, division>>

(* At the head of the loop of tostring256: is there room for a digit?      *)
NextDigit ==
  /\ pc = "digit"
  /\ pc' = IF Len(out) > outLength - 1 THEN "false" ELSE "divide"
  /\ UNCHANGED <<input, out, rDiv, rMod, division>>

(* A wrong variant: the quotient is cleared first.                         *)
DivideSmallerCleared ==
  /\ pc = "divide"
  /\ Gt256(base, rDiv)
  /\ rDiv' = Small256(0)
  /\ rMod' = rDiv'
  /\ pc' = "put"
  /\ UNCHANGED <<input, out, division>>

(* divmod256(&rDiv, &base, &rDiv, &rMod): the dividend is copied before    *)
(* the quotient that shares its place is cleared.                          *)
DivideSmaller ==
  /\ pc = "divide"
  /\ Gt256(base, rDiv)
  /\ rMod' = rDiv
  /\ rDiv' = Small256(0)
  /\ pc' = "put"
  /\ UNCHANGED <<input, out, division>>

(* The divisor and the quotient's bit for it start as far left as the      *)
(* dividend reaches, and one place before that if it is too much there.    *)
DivideBegins ==
  /\ pc = "divide"
  /\ ~Gt256(base, rDiv)
  /\ \E diffBits \in {Bits256(rDiv) - Bits256(base)} :
        /\ copyd' = Shiftl256(base, diffBits)
        /\ adder' = Shiftl256(Small256(1), diffBits)
  /\ resDiv' = Small256(0)
  /\ resMod' = rDiv
  /\ pc' = "align"
  /\ UNCHANGED <<input, out, rDiv, rMod>>

(* A wrong variant: always the place before.                               *)
DivideAlignsLow ==
  /\ pc = "align"
  /\ copyd' = Shiftr256(copyd, 1)
  /\ adder' = Shiftr256(adder, 1)
  /\ pc' = "loop"
  /\ UNCHANGED <<input, out, rDiv, rMod, resDiv, resMod>>

DivideAligns ==
  /\ pc = "align"
  /\ copyd' = Shiftr256(copyd, One(Gt256(copyd, resMod)))
  /\ adder' = Shiftr256(adder, One(Gt256(copyd, resMod)))
  /\ pc' = "loop"
  /\ UNCHANGED <<input, out, rDiv, rMod, resDiv, resMod>>

(* A wrong variant: the divisor is moved on only when it fits.             *)
DivideLoopStays ==
  /\ pc = "loop"
  /\ Gte256(resMod, base)
  /\ Gte256(resMod, copyd)
  /\ resMod' = Minus256(resMod, copyd)
  /\ resDiv' = Or256(resDiv, adder)
  /\ copyd' = Shiftr256(copyd, 1)
  /\ adder' = Shiftr256(adder, 1)
  /\ UNCHANGED <<input, out, rDiv, rMod, pc>>

DivideLoop ==
  /\ pc = "loop"
  /\ Gte256(resMod, base)
  /\ IF Gte256(resMod, copyd)
     THEN /\ resMod' = Minus256(resMod, copyd)
          /\ resDiv' = Or256(resDiv, adder)
     ELSE UNCHANGED <<resMod, resDiv>>
  /\ copyd' = Shiftr256(copyd, 1)
  /\ adder' = Shiftr256(adder, 1)
  /\ UNCHANGED <<input, out, rDiv, rMod, pc>>

DivideEnds ==
  /\ pc = "loop"
  /\ ~Gte256(resMod, base)
  /\ rDiv' = resDiv
  /\ rMod' = resMod
  /\ pc' = "put"
  /\ UNCHANGED <<input, out, division>>

Digit == rMod.lower.lower % 2^8

(* The digit is written; after the last one the end is marked and the      *)
(* digits are turned round.                                                *)
PutDigit ==
  /\ pc = "put"
  /\ IF rDiv # Small256(0)
     THEN out' = Append(out, Digit) /\ pc' = "digit"
     ELSE out' = Append(Reverse(Append(out, Digit)), NUL) /\ pc' = "true"
  /\ UNCHANGED <<input, rDiv, rMod, division>>

Next == NextDigit \/ DivideSmaller \/ DivideBegins \/ DivideAligns
          \/ DivideLoop \/ DivideEnds \/ PutDigit

(* The call runs to its end. *)
Spec == Init /\ [][Next]_vars /\ WF_vars(Next)

-----------------------------------------------------------------------------
(* What must hold. *)

(* The numbers are 256-bit numbers.                                        *)
TypeOK ==
  /\ {number, rDiv, rMod, copyd, adder, resDiv, resMod} \subseteq UInt256
  /\ pc \in {"digit", "divide", "align", "loop", "put", "true", "false"}

(* Nothing is written past the buffer, the termination included: a number  *)
(* with too many digits is refused before it gets there.                   *)
StaysInBuffer == Len(out) <= outLength + (IF pc = "true" THEN 1 ELSE 0)

(* While divmod256 runs, quotient and remainder make up the dividend and   *)
(* the copies are the divisor times the quotient's next bit, all of whose  *)
(* lower bits are still free.                                              *)
DivisionIsExact ==
  pc = "loop" =>
    /\ Value(rDiv) = Value(resDiv) * baseParam + Value(resMod)
    /\ adder # Small256(0) =>
         /\ Value(copyd) = Value(adder) * baseParam
         /\ Value(resMod) < 2 * Value(copyd)
         /\ Value(resDiv) % (2 * Value(adder)) = 0

(* The number is written as it is: most significant digit first, with no   *)
(* zero before the first digit of any number but zero.                     *)
WritesTheNumber ==
  pc = "true" =>
    LET n == Len(out) - 1 IN
    /\ n >= 1 /\ out[n + 1] = NUL
    /\ \A i \in 1..n : out[i] \in 0..(baseParam - 1)
    /\ Value(number) = NumberOf(out, n, baseParam)
    /\ n > 1 => out[1] # 0

(* A number is refused only if its digits and the termination do not fit   *)
(* (TxParser's Decimal): it is not less than the smallest number of one    *)
(* digit more.                                                             *)
OneAndZeros == [i \in 1..(outLength + 1) |-> IF i = 1 THEN 1 ELSE 0]
RefusesOnlyTooLong ==
  pc = "false" /\ baseParam \in 2..16 =>
    Value(number) >= NumberOf(OneAndZeros, outLength + 1, baseParam)

(* The two loops come to an end for every number.                          *)
Returns == <>(pc \in {"true", "false"})
=============================================================================
