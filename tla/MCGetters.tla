------------------------------ MODULE MCGetters ------------------------------
(* Objects of up to two members, and some with a container before the key,   *)
(* with keys that are escaped and strings that hold brackets; all that is    *)
(* left of some of them when they are cut off; and what is refused.          *)
EXTENDS Getters

MCNumbers ==
    (<<"1">> :> [num |-> 1, exp |-> 0])
    @@ (<<"1", "2", "7">> :> [num |-> 127, exp |-> 0])
    @@ (<<"1", "2", "8">> :> [num |-> 128, exp |-> 0])
    @@ (<<"-", "1", "2", "8">> :> [num |-> -128, exp |-> 0])
    @@ (<<"-", "5", ".", "5", "0">> :> [num |-> -55, exp |-> -1])
    @@ (<<"9", "9", "9">> :> [num |-> 999, exp |-> 0])
    @@ (<<"1", "e", "2">> :> [num |-> 1, exp |-> 2])
    @@ (<<"1", "e", "3">> :> [num |-> 1, exp |-> 3])
    @@ (<<"4", "9", ".", "5">> :> [num |-> 495, exp |-> -1])

Escaped == <<"\\", "u", "0", "0", "6", "1">>

MCDecoded ==
    (Escaped :> <<"a">>) @@ (<<"\\", "\"">> :> <<"\"">>)

Values ==
    {Literal(t) : t \in DOMAIN MCNumbers} \cup {String(t) : t \in DOMAIN MCDecoded}
    \cup {String(<<"}", ",">>), Literal(<<"n", "u", "l", "l">>),
          Literal(<<"t", "r", "u", "e">>), Literal(<<"f", "a", "l", "s", "e">>)}

MCKeys == {<<"a">>, <<"b">>, Escaped}

Pairs(S, T) == {Object(<<Item(j, v), Item(k, w)>>) : j, k \in MCKeys, v \in S, w \in T}

One == Literal(<<"1">>)
Quoting == String(<<"\\", "\"">>)

Containers ==
    {Array(<<Literal(<<"1", "2", "8">>)>>), Array(<<Literal(<<"1", "e", "3">>)>>),
     Object(<<Item(Escaped, One)>>),
     Array(<<>>), Array(<<Literal(<<"1">>), Array(<<String(<<"]">>)>>)>>),
     Object(<<Item(<<"a">>, String(<<"{", "\\", "\"">>))>>),
     Object(<<Item(<<"b">>, Literal(<<"1">>)), Item(<<"b">>, Literal(<<"1", "2", "7">>))>>)}

Trees ==
    Containers \cup {Literal(<<"1">>)}
    \cup {Object(<<Item(k, v)>>) : k \in MCKeys, v \in Values}
    \cup {Array(<<v>>) : v \in Values}
    \cup Pairs({One, Quoting, String(<<"}", ",">>)} \cup Containers, {One, Quoting})

Whole(v, ws) == [tree |-> v, state |-> "whole"] @@ DocumentInDepth(v, ws)
Other(text, state) == [tree |-> NoTree, text |-> text, state |-> state]

MCDocuments ==
    {Whole(v, ws) : v \in Trees, ws \in {<<>>, <<" ">>}}
    \cup UNION {{Other(SubSeq(Text(v, ws), 1, n), "cut") : n \in 0 .. Len(Text(v, ws)) - 1} :
                v \in Pairs({One, Quoting} \cup Containers, {One}),
                ws \in {<<>>, <<" ">>}}
    \cup {Other(<<>>, "nil"), Other(<<>>, "notUTF8")}

MCPaths == {<<<<"a">>>>, <<<<"b">>>>, <<<<"0">>>>, <<<<"a">>, <<"1">>>>, <<<<"\"">>>>}
=============================================================================
