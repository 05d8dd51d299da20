-------------------------------- MODULE Digits --------------------------------
(***************************************************************************)
(* Numbers written in digits, for the properties of the modules that read  *)
(* or write them byte by byte.                                             *)
(***************************************************************************)
EXTENDS Integers

(* The number that the first n digits to a base stand for.                 *)
NumberOf(digits, n, b) ==
  LET upTo[i \in 0..n] == IF i = 0 THEN 0 ELSE upTo[i - 1] * b + digits[i]
  IN  upTo[n]
==============================================================================
