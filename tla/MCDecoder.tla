----------------------------- MODULE MCDecoder -----------------------------
(* Struct types whose fields a and b are of every kind, and documents with   *)
(* members a and b of every kind, so that all meet what fits them and what    *)
(* does not.  An int has 8 bits; fields of 4 bits are narrower.              *)
EXTENDS Decoder

Go(kind) == [go |-> kind]
Bits(kind, n) == [go |-> kind, bits |-> n]
To(kind, T) == [go |-> kind, of |-> T]
Field(name, tag, T) ==
    [name |-> name, tag |-> tag, exported |-> TRUE, skip |-> FALSE, typ |-> T]
Struct(fields) == [go |-> "struct", fields |-> fields]

a == <<"a">>
b == <<"b">>

Pair == Struct(<<Field(a, <<>>, Bits("int", 8)), Field(b, <<>>, To("ptr", Go("float64")))>>)

MCTargets ==
    {Struct(<<Field(a, <<>>, Go("string")), Field(<<"f">>, <<b>>, Bits("int", 4)),
              [Field(b, <<>>, Go("string")) EXCEPT !.exported = FALSE],
              [Field(a, <<>>, Go("bool")) EXCEPT !.skip = TRUE]>>),
     Struct(<<Field(<<"u">>, <<a, b>>, Bits("uint", 4)), Field(<<"f">>, <<a, a>>, Go("float64"))>>),
     Struct(<<Field(a, <<>>, Go("time")), Field(b, <<>>, Go("bytes"))>>),
     Struct(<<Field(a, <<>>, To("ptr", Pair)), Field(b, <<>>, Go("bool"))>>),
     Struct(<<Field(a, <<>>, To("slice", Bits("int", 8))), Field(b, <<>>, To("slice", To("ptr", Pair)))>>),
     Struct(<<Field(a, <<>>, To("map", Bits("int", 4))), Field(b, <<>>, To("map", Pair))>>)}

MCNumbers ==
    (<<"1">> :> [num |-> 1, exp |-> 0])
    @@ (<<"-", "9">> :> [num |-> -9, exp |-> 0])
    @@ (<<"3", "0">> :> [num |-> 3, exp |-> 1])
    @@ (<<"1", "2", "5">> :> [num |-> 125, exp |-> 0])
    @@ (<<"3", "0", "0">> :> [num |-> 3, exp |-> 2])
    @@ (<<"0", ".", "2", "5">> :> [num |-> 25, exp |-> -2])
    @@ (<<"1", "E", "1">> :> [num |-> 1, exp |-> 1])

MCDecoded == <<"\\", "n">> :> <<"\n">>
MCTimes == (<<"T">> :> 1) @@ (<<"\n">> :> 2)

Null == Literal(<<"n", "u", "l", "l">>)
True == Literal(<<"t", "r", "u", "e">>)
Scalars == {Literal(t) : t \in DOMAIN MCNumbers} \cup {String(<<"\\", "n">>), String(<<"T">>), True, Null}

One == Literal(<<"1">>)
Nine == Literal(<<"-", "9">>)
Quarter == Literal(<<"0", ".", "2", "5">>)

Inner ==
    {Object(<<>>), Object(<<Item(a, One)>>), Object(<<Item(b, Quarter), Item(a, Nine)>>),
     Object(<<Item(a, True), Item(b, Null)>>), Object(<<Item(a, Nine), Item(a, One)>>)}

Lists ==
    {Array(<<>>), Array(<<One, True, Nine>>),
     Array(<<Object(<<Item(b, Quarter)>>), One, Null, Object(<<Item(a, Nine)>>)>>)}

Nested == {Object(<<Item(a, Object(<<Item(a, One)>>)), Item(b, v)>>) : v \in {Null, Object(<<Item(b, Quarter)>>)}}

Trees ==
    {Object(<<Item(a, v)>>) : v \in Scalars \cup Inner \cup Lists}
    \cup {Object(<<Item(b, v)>>) : v \in Scalars \cup Inner \cup Lists \cup Nested}
    \cup {Object(<<Item(a, One), Item(b, Nine)>>), Object(<<Item(a, String(<<"T">>)), Item(b, True)>>),
          Object(<<>>), One, Array(<<One>>)}

MCDocuments ==
    {[tree |-> v, ws |-> <<>>, text |-> Text(v, <<>>), bracketFree |-> BracketFree(v)] : v \in Trees}
    \cup {[tree |-> v, ws |-> <<" ">>, text |-> <<" ">> \o Text(v, <<" ">>) \o <<" ">>,
           bracketFree |-> BracketFree(v)] : v \in {Object(<<Item(b, w)>>) : w \in Lists \cup {Quarter, True}}}
=============================================================================
