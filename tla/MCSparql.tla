------------------------------ MODULE MCSparql ------------------------------
(***************************************************************************)
(* Instances of Sparql for TLC: every text of up to MaxPieces pieces, and  *)
(* longer ones that reach what short ones do not.                          *)
(***************************************************************************)
EXTENDS Sparql

CONSTANTS MaxPieces, Piece

(* Behind a declaration, inside long strings, behind escapes, and an       *)
(* object list as SPARQL allows it.                                        *)
Longer ==
    {<<"PREFIX", "ws", "x", "ws", "lt", "x", "gt", "nl">> \o t :
        t \in {<<"SELECT", "ws", "x">>, <<"INSERT", "ws", "SELECT">>,
               <<"SELECT", "lt", "ws", "x">>}}
    \cup {<<"BASE", "lt", "hash", "gt", "ASK", "ws", "x">>,
          <<"PREFIX", "ws", "INSERT", "ws", "x", "ws", "DESCRIBE">>,
          <<"SELECT", "ws", "x", "comma", "ws", "x">>,
          <<"SELECT", "ws", "x", "ws", "gt", "x">>,
          <<"quote", "quote", "quote", "hash", "quote", "INSERT", "quote",
            "quote", "quote", "ws", "SELECT">>,
          <<"quote", "bs", "bs", "quote", "SELECT", "quote", "comma", "quote">>,
          <<"apos", "bs", "apos", "quote", "apos", "ws", "ASK", "apos">>,
          <<"hash", "SELECT", "quote", "nl", "INSERT", "ws", "x">>,
          <<"CONSTRUCT", "ws", "lt", "ws", "x", "gt">>}

(* A limit and a setting below zero, of zero, and at and under the rows.   *)
MCLimit == {-1, 0, 1, 3}
MCMaxRows == {-1, 0, 2}

MCText == UNION {[1 .. n -> Piece] : n \in 0 .. MaxPieces} \cup Longer
=============================================================================
