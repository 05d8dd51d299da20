-------------------------------- MODULE MCRlp --------------------------------
(***************************************************************************)
(* The RLP reader on a scale TLC can exhaust: bytes are 0..15, a prefix up *)
(* to 5 is a byte, 6..8 a string of 0..2 bytes, 9..10 a string with 1 or 2 *)
(* length bytes, 11..13 and 14..15 the same for lists.  Inputs are all     *)
(* buffers of up to three bytes, some of four, and encoded lists of items. *)
(***************************************************************************)
EXTENDS RlpEncoding

ShortBuffers ==
  UNION {[1..n -> Byte] : n \in 0..3}
    \cup {<<p>> \o b : p \in {8, 10, 13, 15},
                      b \in [1..3 -> {0, 1, 2, 5, 7, 15}]}

-----------------------------------------------------------------------------
(* Items of every kind, with lengths in one byte and in two, one of them   *)
(* zero, up to the longest that a byte holds and beyond.                   *)

Fill(n) == [i \in 1..n |-> (i * 3) % Base]
Writing(kind, digits, content) ==
  [kind |-> kind, digits |-> digits, content |-> content]

MCWritable ==
  {Writing("byte", <<>>, <<5>>), Writing("list", <<2>>, <<6, 2>>)}
  \cup {Writing(k, <<>>, Fill(n)) : k \in {"string", "list"}, n \in {0, 2}}
  \cup {Writing("string", <<15>>, Fill(15)),
        Writing("string", <<0, 1>>, <<7>>),
        Writing("string", <<1, 2>>, Fill(18)),
        Writing("list", <<2, 1>>, Fill(33))}

(* Items, then nothing or the beginning of an item that is cut off.        *)
MCSources == [items : UNION {[1..n -> MCWritable] : n \in 0..2},
              tail : {<<>>, <<8, 3>>, <<10, 1>>, <<15, 2, 1, 3>>}]

MCBuffers   == ShortBuffers \cup EncodedBuffers
MCMaxFields == {1, 2}
==============================================================================
