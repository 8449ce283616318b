---------------------------- MODULE MCManyReads ----------------------------
(* Objects with none, both and repeated keys, one with a nested object       *)
(* of the same keys, a truncated one, an array and a document of white space. *)
EXTENDS ManyReads

q == "\""
Member(k, v) == <<q, k, q, ":">> \o v

MCTexts ==
    {<<"{", "}">>,
     <<"{">> \o Member("b", <<q, ",", q>>) \o <<",">> \o Member("a", <<"2">>) \o <<"}">>,
     <<"{">> \o Member("a", <<"1">>) \o <<",">> \o Member("a", <<"2">>) \o <<"}">>,
     <<"{">> \o Member("b", <<"{">> \o Member("a", <<"3">>) \o <<"}">>) \o <<",", " ">>
         \o Member("a", <<"[", "]">>) \o <<"}">>,
     <<"{">> \o Member("a", <<"1">>),
     <<"[", "1", "]">>,
     <<" ">>}

MCKeyLists ==
    {<<>>} \cup UNION {[1 .. n -> {<<"a">>, <<"b">>}] : n \in 1 .. 3}
=============================================================================
