------------------------------ MODULE MCDevice ------------------------------
(***************************************************************************)
(* The paths, bytes and blocks of MCApduApp.  Some texts are transactions: *)
(* without recipients, with two, with a number too long for the screen.    *)
(* Of the others one fails at once, one only after its recipients have     *)
(* been read, and the rest are empty.                                      *)
(***************************************************************************)
EXTENDS Device

CONSTANTS p1, p2, foreign, a, b

MCMainnet  == {p1, p2}
MCPath     == {p1, p2, foreign}
MCByte     == {a, b}
MCPayload  == {<<>>, <<a>>, <<b>>, <<a, b>>}
MCAccepted == {<<a>>, <<b, a>>, <<a, b>>}

T == INSTANCE MCTxParser
     WITH RlpItem <- {}, Texts <- {}, Widths <- {Width}

WithFields(fields, list) ==
  T!Tx(fields, T!Extra(<<T!Type(0), T!LockHeight, list>>))

MCItems ==
  [t \in UNION {[1..n -> MCByte] : n \in 0..(Capacity + 1)} |->
     CASE t = <<a>>    -> WithFields(T!Fields, T!Recipients(0))
       [] t = <<b, a>> -> WithFields(T!Fields, T!Recipients(2))
       [] t = <<a, b>> -> WithFields([T!Fields EXCEPT ![1] =
                                        T!Str(16, 38, <<"root", 1>>)],
                                     T!Recipients(1))
       [] t = <<a, a>> -> T!Tx(SubSeq(T!Fields, 1, 11), T!Plain)
       [] t = <<b>>    -> WithFields(T!Fields,
                            [T!Recipients(2) EXCEPT !.items[2] =
                               T!List(<<T!LockHeight>>, FALSE, <<"to", 2>>)])
       [] OTHER        -> <<>>]

MCRlpItem == T!ItemsOf({MCItems[t] : t \in DOMAIN MCItems})
=============================================================================
