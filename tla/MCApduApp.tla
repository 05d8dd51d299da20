------------------------------ MODULE MCApduApp ------------------------------
(***************************************************************************)
(* A small instance of ApduApp for TLC: two mainnet paths and a foreign    *)
(* one, a truncated one, blocks of no byte, of one byte and of two.        *)
(***************************************************************************)
EXTENDS ApduApp

CONSTANTS p1, p2, foreign, a, b

MCMainnet  == {p1, p2}
MCPath     == {p1, p2, foreign}
MCByte     == {a, b}
MCPayload  == {<<>>, <<a>>, <<b>>, <<a, b>>}
MCAccepted == {<<a>>, <<b, a>>, <<a, b, b>>}
=============================================================================
