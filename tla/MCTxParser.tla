------------------------------ MODULE MCTxParser ------------------------------
(***************************************************************************)
(* Texts for TLC: a whole transaction and its variants, each wrong or      *)
(* unusual in one place (a field of another kind or size, a list too short,*)
(* too long or broken), for every field, and a text after which any other  *)
(* may follow.  There is room for two recipients.                          *)
(***************************************************************************)
EXTENDS TxParser

Str(len, digits, at) == Item("string", len, digits, digits, TRUE, at)
OneByte(b, at)       == Item("byte", 0, 1, b, TRUE, at)

(* What may stand where a leaf is expected.                                *)
Leaves(at) ==
  {Str(0, 1, at), OneByte(5, at), Str(16, 36, at), Str(16, 38, at),
   Str(17, 40, at), Str(33, 78, at), List(<<>>, FALSE, at),
   [Str(9, 20, at) EXCEPT !.date = FALSE]}

Root(i) ==
  IF i = 7 THEN OneByte(3, <<"root", i>>) ELSE Str(4, 9, <<"root", i>>)
Recipient(r) == List(<<Str(33, 1, <<"to", r, 1>>), Str(3, 8, <<"to", r, 2>>),
                       Str(0, 1, <<"to", r, 3>>)>>, FALSE, <<"to", r>>)
Recipients(n) == List([r \in 1..n |-> Recipient(r)], FALSE, <<"extra", 3>>)

Type(t)       == OneByte(t, <<"extra", 1>>)
LockHeight    == Str(0, 1, <<"extra", 2>>)
Extra(list)   == List(<<List(list, FALSE, <<"inner">>)>>, FALSE, <<"root", 13>>)
Tx(fields, extra) == <<List(Append(fields, extra), FALSE, <<>>)>>

Fields == [i \in 1..12 |-> Root(i)]
Plain  == Extra(<<Type(0), LockHeight, Recipients(0)>>)

(* One field is something else.                                            *)
FieldVariants ==
  {Tx([Fields EXCEPT ![i] = x], Plain) :
     <<i, x>> \in UNION {{i} \X Leaves(<<"root", i>>) : i \in 1..12}}

(* The extra fields are something else.                                    *)
ExtraVariants ==
  {Tx(Fields, Extra(<<t, LockHeight, Recipients(1)>>)) :
     t \in {Type(b) : b \in {0, 1, 3, 5, 122, 123}} \cup Leaves(<<"extra", 1>>)}
  \cup {Tx(Fields, Extra(<<Type(3), l, Recipients(0)>>)) :
          l \in Leaves(<<"extra", 2>>)}
  \cup {Tx(Fields, Extra(<<Type(0), LockHeight, x>>)) :
          x \in Leaves(<<"extra", 3>>) \cup {Recipients(n) : n \in 1..3}}
  \cup {Tx(Fields, Extra(<<Type(0), LockHeight>>)),
        Tx(Fields, Extra(<<Type(0), LockHeight, Recipients(0), LockHeight>>)),
        Tx(Fields, List(<<>>, FALSE, <<"root", 13>>)),
        Tx(Fields, List(<<>>, TRUE, <<"root", 13>>)),
        Tx(Fields, List(<<List(<<Type(0), LockHeight>>, TRUE, <<"inner">>)>>,
                        FALSE, <<"root", 13>>))}

(* A recipient is something else.                                          *)
RecipientVariants ==
  {Tx(Fields, Extra(<<Type(0), LockHeight,
                      List(<<Recipient(1), List(x, b, <<"to", 2>>)>>, FALSE,
                           <<"extra", 3>>)>>)) :
     b \in BOOLEAN,
     x \in UNION {{[Recipient(2).items EXCEPT ![k] = l] :
                     l \in Leaves(<<"to", 2, k>>)} : k \in 1..3}
             \cup {SubSeq(Recipient(2).items, 1, 2),
                   Append(Recipient(2).items, LockHeight)}}
  \cup {Tx(Fields, Extra(<<Type(0), LockHeight,
                           List(<<Recipient(1), LockHeight>>, FALSE,
                                <<"extra", 3>>)>>)),
        Tx(Fields, Extra(<<Type(0), LockHeight,
                           List(<<Recipient(1)>>, TRUE, <<"extra", 3>>)>>))}

(* The list around it all is something else.                               *)
RootVariants ==
  {<<>>, <<LockHeight>>, Tx(Fields, Plain) \o <<LockHeight>>,
   Tx(SubSeq(Fields, 1, 11), Plain), Tx(Append(Fields, Plain), LockHeight),
   <<List(Append(Fields, Plain), TRUE, <<>>)>>,
   <<List(Fields, TRUE, <<>>)>>}

MCWidths == {37, 40, 16384}

MCTexts == FieldVariants \cup ExtraVariants \cup RecipientVariants
             \cup RootVariants

(* The items of the texts, and theirs: lists are five deep.                *)
ItemsOf(texts) ==
  LET Theirs(S) == UNION {ItemsIn(x.items) : x \in S}
      D1 == UNION {ItemsIn(t) : t \in texts}
      D2 == Theirs(D1)
      D3 == Theirs(D2)
      D4 == Theirs(D3)
      D5 == Theirs(D4)
  IN  UNION {D1, D2, D3, D4, D5, Theirs(D5)}

MCRlpItem == ItemsOf(MCTexts)

(* Every item of a text that can be reviewed says where it stands.         *)
ASSUME PlaceAssumption == ItemsArePlaced
=============================================================================
