----------------------------- MODULE MCNodeWalk -----------------------------
(* Trees of depth two whose strings hold the characters the scanners look    *)
(* at: quotes behind a backslash, commas, colons, brackets of both kinds.    *)
EXTENDS NodeWalk, JsonText

Leaves == {Literal(<<"1">>), String(<<"\\", "\"">>), String(<<",">>),
           String(<<"}", "x">>), String(<<"]">>)}

Keys == {<<"a">>, <<"\\", "\"">>}

UpTo(n, S) == UNION {[1 .. k -> S] : k \in 0 .. n}

Arrays(n, S) == {Array(s) : s \in UpTo(n, S)}
Objects(n, S) == {Object(s) : s \in UpTo(n, {Item(k, v) : k \in Keys, v \in S})}

Inner == Arrays(1, Leaves) \cup Objects(1, Leaves)

Trees ==
    {Literal(<<"t", "r", "u", "e">>), String(<<>>)}
    \cup Arrays(2, Leaves) \cup Objects(2, Leaves)
    \cup Arrays(2, Inner) \cup Objects(1, Inner)

MCDocuments == {Document(v, ws) : v \in Trees, ws \in {<<>>, <<" ">>}}
=============================================================================
