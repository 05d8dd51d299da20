------------------------------ MODULE MCKeyUse ------------------------------
(* Both jobs for one path and one text, with the lengths that occur.       *)
EXTENDS KeyUse

CONSTANTS thePath, theText

MCDerLens    == 64..73
MCBase58Lens == 20..28
=============================================================================
