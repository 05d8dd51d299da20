---------------------------- MODULE MCArithmetic ----------------------------
(***************************************************************************)
(* Numbers of sixteen bits in words of four.  A behaviour is either one    *)
(* run of tostring256, for numbers made of words at and next to their      *)
(* limits, in bases that do and do not divide the words, with buffers too  *)
(* small for most of them, for some and for none; or one call of another   *)
(* function, compared with the arithmetic of TLA+.  Shifts go past both    *)
(* widths; numbers are read from up to eight bytes.                        *)
(***************************************************************************)
EXTENDS ToString256

CONSTANT CallWords    \* the words of the numbers that functions are called with

ASSUME CallWordsAssumption == CallWords \subseteq Word

VARIABLES call, by, number1, number2, target
callVars == <<call, by, number1, number2, target>>

NumbersOf(words) ==
  LET pairs == {Pair(u, l) : u \in words, l \in words}
  IN  {Pair(u, l) : u \in pairs, l \in pairs}

MCNumbers == NumbersOf({0, 1, 9, 15})
MCBytes   == UNION {[1..n -> {0, 1, 3}] : n \in 0..TmpBytes}

NoCall == /\ call = "tostring" /\ by = <<>>
          /\ number1 = Small256(0) /\ number2 = Small256(0)
          /\ target = Small256(0)

(* tostring256 is not called: as when it has refused its base.             *)
NoToString == Init /\ number = Small256(0) /\ pc = "false"
                   /\ outLength = Min(OutLengths) - 1

ArithmeticInit ==
  \/ Init /\ pc = "digit" /\ NoCall
  \/ /\ NoToString
     /\ number1 \in NumbersOf(CallWords) /\ number2 \in NumbersOf(CallWords)
     /\ call = "none" /\ by = <<>>
     /\ target = Small256(0)

Call(function, value) ==
  /\ call = "none"
  /\ call' = function
  /\ target' = value
  /\ UNCHANGED <<vars, number1, number2>>

(* The second number plays no part.                                        *)
Call1(function, value, argument) ==
  /\ number1 = number2
  /\ Call(function, value)
  /\ by' = argument

CallNext ==
  \/ /\ \/ Call("add", Add256(number1, number2))
        \/ Call("minus", Minus256(number1, number2))
        \/ Call("mul128", Pair(Small128(0), Mul128(number1.lower,
                                                   number2.lower)))
     /\ UNCHANGED by
  \/ Call1("mul", Mul256(number1, number1), <<>>)    \* of squares only
  \/ \E v \in 0..(4 * WordBits + 1) :
        \/ Call1("shiftl", Shiftl256(number1, v), <<v>>)
        \/ Call1("shiftr", Shiftr256(number1, v), <<v>>)
  \/ /\ number1 = Small256(0) /\ call = "none"
     /\ \E bytes \in MCBytes : Call1("read", RlpReadUInt256(bytes), bytes)

ArithmeticNext == CallNext \/ (Next /\ UNCHANGED callVars)

ArithmeticSpec ==
  ArithmeticInit /\ [][ArithmeticNext]_<<vars, callVars>> /\ WF_vars(Next)

-----------------------------------------------------------------------------
Limit == Modulus * Modulus * Modulus * Modulus

(* Digit by digit, so that no number on the way is too large for TLC.      *)
Product(m, n, limit) ==
  LET b == 2^8
  IN  (((m * (n \div b)) % limit) * b + m * (n % b)) % limit

(* Sums and differences are those of the numbers, modulo the width: every  *)
(* carry and borrow crosses the words and the halves.                      *)
AddsAndSubtracts ==
  LET m == Value(number1)
      n == Value(number2)
  IN  /\ call = "add"   => Value(target) = (m + n) % Limit
      /\ call = "minus" => Value(target) = (m - n) % Limit

(* Shifts multiply and divide by powers of two and lose what leaves the    *)
(* width, whatever word boundary the bits cross; Bits256 is the position   *)
(* of the highest bit.                                                     *)
Shifts ==
  LET bits == 4 * WordBits IN
  /\ call = "shiftl" => Value(target) = IF by[1] >= bits THEN 0
                          ELSE (Value(number1) % 2^(bits - by[1])) * 2^by[1]
  /\ call = "shiftr" => Value(target) = Value(number1) \div 2^by[1]
  /\ Value(number1) < 2^Bits256(number1)
  /\ Bits256(number1) > 0 => Value(number1) >= 2^(Bits256(number1) - 1)

(* The product of 128-bit numbers is right modulo their width.             *)
Mul128IsProduct ==
  call = "mul128" =>
    Value(target) = Product(Value128(number1.lower), Value128(number2.lower),
                            Modulus * Modulus)

(* A number of the transaction is the big-endian number of its bytes,      *)
(* however many there are.                                                 *)
ReadsBigEndian ==
  call = "read" => Value(target) = NumberOf(by, Len(by), Half)

(* uint256.c is "Adapted from https://github.com/calccrypto/uint256_t",    *)
(* whose product is that of the numbers modulo 2^256.                      *)
Mul256IsProduct ==
  call = "mul" =>
    Value(target) = Product(Value(number1), Value(number1), Limit)
=============================================================================
