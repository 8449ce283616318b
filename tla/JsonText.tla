------------------------------ MODULE JsonText ------------------------------
(***************************************************************************)
(* JSON values and their text, the reference the scanners are compared     *)
(* with.  A value is a tree; its text is a sequence of characters, with an  *)
(* optional run of white space wherever the grammar allows one.            *)
(*                                                                          *)
(* Nothing here is code of the repository: it is the input of the code.     *)
(***************************************************************************)
EXTENDS Integers, Sequences, SequencesExt

Quote == "\""
Backslash == "\\"

(* A literal is a number, true, false or null, written as its text.  Items   *)
(* of an array have the key <<>>.                                            *)
Literal(text) == [kind |-> "literal", text |-> text, items |-> <<>>]
String(text)  == [kind |-> "string", text |-> text, items |-> <<>>]
Item(k, v)    == [key |-> k, value |-> v]
Array(values) == [kind |-> "array", text |-> <<>>,
                  items |-> [i \in DOMAIN values |-> Item(<<>>, values[i])]]
Object(items) == [kind |-> "object", text |-> <<>>, items |-> items]

Open(v)  == IF v.kind = "array" THEN "[" ELSE "{"
Close(v) == IF v.kind = "array" THEN "]" ELSE "}"

Quoted(text) == <<Quote>> \o text \o <<Quote>>

(* What precedes the value of item i: separator, white space, key.           *)
ItemPrefix(v, i, ws) ==
    (IF i = 1 THEN <<>> ELSE <<",">>) \o ws
    \o (IF v.kind = "object" THEN Quoted(v.items[i].key) \o ws \o <<":">> \o ws
                             ELSE <<>>)

RECURSIVE Text(_, _)
Text(v, ws) ==
    CASE v.kind = "literal" -> v.text
      [] v.kind = "string"  -> Quoted(v.text)
      [] OTHER ->
           <<Open(v)>>
           \o FlattenSeq([i \in DOMAIN v.items |->
                ItemPrefix(v, i, ws) \o Text(v.items[i].value, ws) \o ws])
           \o <<Close(v)>>

(* The place of item i in the text of v: [start, end) of its value, counted  *)
(* from the first character of v.                                            *)
ItemSpan(v, i, ws) ==
    LET before ==
          1 + Len(FlattenSeq([j \in 1 .. i - 1 |->
                ItemPrefix(v, j, ws) \o Text(v.items[j].value, ws) \o ws]))
            + Len(ItemPrefix(v, i, ws))
    IN  [start |-> before + 1,
         end   |-> before + 1 + Len(Text(v.items[i].value, ws))]

(* The letter package zeronode names the kind of a value by.                 *)
TypeLetter(v) ==
    CASE v.kind = "object" -> "o"
      [] v.kind = "array"  -> "a"
      [] v.kind = "string" -> "s"
      [] OTHER -> CASE v.text[1] \in {"t", "f"} -> "b"
                    [] v.text[1] = "n" -> "l"
                    [] OTHER -> "n"

RECURSIVE CharsOfStrings(_)
CharsOfStrings(v) ==
    ToSet(v.text)
    \cup UNION {ToSet(v.items[i].key) \cup
                (IF v.items[i].value.kind = "literal"
                   THEN {} ELSE CharsOfStrings(v.items[i].value)) :
                i \in DOMAIN v.items}

(* No container has its own kind of bracket inside one of its strings.       *)
RECURSIVE BracketFree(_)
BracketFree(v) ==
    /\ v.kind \in {"array", "object"} => {Open(v), Close(v)} \cap CharsOfStrings(v) = {}
    /\ \A i \in DOMAIN v.items : BracketFree(v.items[i].value)

(* What a document without a value holds, and what is found where nothing is.*)
NoTree == [kind |-> "absent", text |-> <<>>, items |-> <<>>]

(* The value of the first member with the key k, and of element n, from 0.   *)
MemberOf(v, k) ==
    LET at == SelectInSeq(v.items, LAMBDA item : item.key = k)
    IN  IF v.kind = "object" /\ at # 0 THEN v.items[at].value ELSE NoTree

ElementOf(v, n) ==
    IF v.kind = "array" /\ n \in 0 .. Len(v.items) - 1
      THEN v.items[n + 1].value ELSE NoTree

TextOf(v, ws) == IF v = NoTree THEN <<>> ELSE Text(v, ws)

(* The items of v, whose text stands behind the first `before' characters of a  *)
(* document: what a scanner of them should find.                             *)
ItemsOf(v, ws, before) ==
    [k \in DOMAIN v.items |->
       [key   |-> v.items[k].key,
        kind  |-> v.items[k].value.kind,
        typ   |-> TypeLetter(v.items[k].value),
        start |-> before + ItemSpan(v, k, ws).start,
        end   |-> before + ItemSpan(v, k, ws).end]]

PlaceOf(v, ws, before) ==
    [start |-> before + 1, end |-> before + 1 + Len(Text(v, ws)), kind |-> v.kind]

(* The values of v and in v, each at its place.                              *)
RECURSIVE ValuesIn(_, _, _)
ValuesIn(v, ws, before) ==
    LET within(k) == ValuesIn(v.items[k].value, ws, before + ItemSpan(v, k, ws).start - 1)
    IN  FoldLeft(LAMBDA f, k : f @@ within(k),
                 PlaceOf(v, ws, before) :> v, [k \in DOMAIN v.items |-> k])

(* The document of a tree, with white space around it, and its items.        *)
Document(v, ws) ==
    [kind |-> v.kind,
     text |-> ws \o Text(v, ws) \o ws,
     blanks |-> Len(ws),
     bracketFree |-> BracketFree(v),
     items |-> ItemsOf(v, ws, Len(ws))]

(* The same with the places of all its values.                               *)
DocumentInDepth(v, ws) ==
    LET values == ValuesIn(v, ws, Len(ws))
    IN  [text |-> ws \o Text(v, ws) \o ws,
         blanks |-> Len(ws),
         bracketFree |-> BracketFree(v),
         value |-> PlaceOf(v, ws, Len(ws)),
         inside |-> [place \in {at \in DOMAIN values : at.kind \in {"array", "object"}} |->
                       ItemsOf(values[place], ws, place.start - 1)]]
=============================================================================
