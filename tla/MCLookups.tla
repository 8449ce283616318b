----------------------------- MODULE MCLookups -----------------------------
(* Trees of depth two and some of depth three, with keys that are escaped,   *)
(* that repeat, that are digits, and strings that hold what scanners look at. *)
EXTENDS Conversions

(* Values a conversion has something to do with: integers at the limits of    *)
(* an int of 8 bits and beyond, fractions, exponents, escapes.               *)
MCNumbers ==
    (<<"1">> :> [num |-> 1, exp |-> 0]) @@ (<<"7">> :> [num |-> 7, exp |-> 0])
    @@ (<<"1", "2", "7">> :> [num |-> 127, exp |-> 0])
    @@ (<<"1", "2", "8">> :> [num |-> 128, exp |-> 0])
    @@ (<<"1", "3", "0", "0">> :> [num |-> 13, exp |-> 2])
    @@ (<<"-", "1", "2", "0">> :> [num |-> -12, exp |-> 1])
    @@ (<<"-", "1", "2", "8">> :> [num |-> -128, exp |-> 0])
    @@ (<<"-", "1", ".", "2", "5", "0">> :> [num |-> -125, exp |-> -2])
    @@ (<<"2", ".", "5", "e", "+", "2">> :> [num |-> 25, exp |-> 1])
    @@ (<<"1", "e", "3">> :> [num |-> 1, exp |-> 3])
    @@ (<<"1", "E", "-", "2">> :> [num |-> 1, exp |-> -2])

MCDecoded ==
    (<<"\\", "\"">> :> <<"\"">>)
    @@ (<<"a", "\\", "n", "\\", "\\">> :> <<"a", "\n", "\\">>)
    @@ (<<"\\", "u", "0", "0", "6", "A", "b">> :> <<"U+106", "b">>)

Plain ==
    {Literal(text) : text \in DOMAIN MCNumbers} \cup {String(text) : text \in DOMAIN MCDecoded}
    \cup {Literal(<<"t", "r", "u", "e">>), Literal(<<"f", "a", "l", "s", "e">>)}

Leaves == {Literal(<<"1">>), String(<<"\\", "\"">>), String(<<"}", ",">>), String(<<"]">>)}

Escaped == <<"\\", "\"">>

MCKeys == {<<"a">>, Escaped}

UpTo(n, S) == UNION {[1 .. k -> S] : k \in 0 .. n}

Arrays(n, S) == {Array(s) : s \in UpTo(n, S)}
Objects(n, S) ==
    {Object(s) : s \in UpTo(n, {Item(k, v) : k \in MCKeys \cup {<<"0">>}, v \in S})}

Few == {Array(<<Literal(<<"7">>)>>), Object(<<Item(<<"a">>, String(<<"{">>))>>),
        Literal(<<"n", "u", "l", "l">>)}

Trees ==
    Leaves
    \cup Arrays(2, Leaves) \cup Objects(2, {Literal(<<"1">>), String(<<"]">>)})
    \cup Arrays(2, Few) \cup Objects(2, Few)
    \cup Arrays(1, Arrays(2, Few)) \cup Objects(1, Arrays(2, Few))
    \cup Arrays(1, Plain) \cup Objects(1, Plain)

MCDocuments ==
    {[values |-> ValuesIn(v, ws, Len(ws))] @@ DocumentInDepth(v, ws) :
        v \in Trees, ws \in {<<>>, <<" ">>}}
    \cup {[text |-> ws, blanks |-> Len(ws), bracketFree |-> TRUE,
           value |-> Nowhere, inside |-> <<>>, values |-> <<>>] : ws \in {<<>>, <<" ">>}}

(* The empty key.                                                            *)
MCNoName == <<>>

Name(k)  == [kind |-> "name", name |-> k]
Digit(n) == [kind |-> "digits", value |-> n]

MCPaths ==
    UNION {[1 .. n -> {EmptyToken, Name(<<"a">>), Name(Escaped), Digit(0), Digit(1)}] :
           n \in 1 .. 3}
    \cup {<<Digit(257)>>, <<Name(<<"a">>), Digit(257)>>}
=============================================================================
