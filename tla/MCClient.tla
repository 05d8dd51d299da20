------------------------------ MODULE MCClient ------------------------------
(* Callers with a path each for two keys of the device.  Blocks of one     *)
(* byte: an empty message is one chunk, the others are two and three.      *)
EXTENDS Client

CONSTANTS p1, p2, a, b, h1, h2, c1, c2

MCMainnet    == {p1, p2}
MCByte       == {a, b}
MCPayload    == {<<a>>, <<b>>}
MCAccepted   == {<<b>>, <<a, b>>}
MCHostPath   == {h1, h2}
MCDevicePath == [p \in MCHostPath |-> IF p = h1 THEN p1 ELSE p2]
MCPathBytes  == [p \in MCHostPath |-> <<b>>]
MCMessage    == {<<>>, <<b>>, <<a, b>>}

Asks(kinds, paths, messages) ==
  [kind : kinds, path : paths, message : messages]

(* One caller sends one chunk or three, the other gets in its way with two.*)
MCRequest(c) ==
  IF c = c1 THEN Asks({"sign"}, {h1}, {<<>>, <<a, b>>})
                   \cup Asks({"get"}, {h1}, {<<>>})
            ELSE Asks({"sign"}, {h2}, {<<b>>}) \cup Asks({"show"}, {h2}, {<<>>})

OneRequest  == [c \in {c1} |-> MCRequest(c) \cup Asks({"sign"}, {h2}, MCMessage)]
TwoRequests == [c \in {c1, c2} |-> MCRequest(c)]

OneCaller    == {c1}
TwoCallers   == {c1, c2}
=============================================================================
