----------------------------- MODULE JsonMeaning -----------------------------
(***************************************************************************)
(* What the values of a document mean, the reference for the conversions.   *)
(* The texts of the instance's literals and strings come with their meaning; *)
(* nothing here is code of the repository.                                  *)
(***************************************************************************)
EXTENDS Natives, JsonText

CONSTANTS
    Decoded,      \* Decoded[text]: a text with escapes, decoded
    Numbers       \* Numbers[text]: the number a literal writes, a decimal

StringOf(text) == IF text \in DOMAIN Decoded THEN Decoded[text] ELSE text

IsWhole(text) == ToSet(text) \subseteq Digits \cup {"-"}

(* A whole number that an int holds, the smallest one excepted.              *)
FitsInt64(text) ==
    IsWhole(text) /\ Numbers[text].num * 10 ^ Numbers[text].exp \in -IntMax .. IntMax

(* An int if it fits, or else the nearest float, or else its text.           *)
NumberOf(text) ==
    IF FitsInt64(text) THEN <<"int64", Numbers[text].num * 10 ^ Numbers[text].exp>>
    ELSE IF Float64(Numbers[text]) # Fails THEN Float64(Numbers[text])
    ELSE <<"string", text>>

(* The value of a tree as Go values: the last of the members with one key    *)
(* stays, and keys are as they are written.                                  *)
RECURSIVE NativeOf(_)
NativeOf(v) ==
    CASE v.kind = "string" -> <<"string", StringOf(v.text)>>
      [] v.kind = "array" -> <<"list", [k \in DOMAIN v.items |-> NativeOf(v.items[k].value)]>>
      [] v.kind = "object" ->
           <<"map", [key \in {v.items[k].key : k \in DOMAIN v.items} |->
               NativeOf(v.items[SelectLastInSeq(v.items, LAMBDA m : m.key = key)].value)]>>
      [] v.kind = "literal" /\ v.text \in DOMAIN Numbers -> NumberOf(v.text)
      [] v.kind = "literal" /\ v.text[1] \in {"t", "f"} -> <<"bool", v.text[1] = "t">>
      [] OTHER -> <<"nil">>

(* All the texts of literals and strings in a tree.                          *)
RECURSIVE TextsIn(_, _)
TextsIn(v, kind) ==
    (IF v.kind = kind THEN {v.text} ELSE {})
    \cup UNION {TextsIn(v.items[k].value, kind) : k \in DOMAIN v.items}

(* All the keys in a tree, as they are written.                              *)
RECURSIVE KeysIn(_)
KeysIn(v) ==
    UNION {KeysIn(v.items[k].value)
             \cup (IF v.kind = "object" THEN {v.items[k].key} ELSE {}) : k \in DOMAIN v.items}

HasNumbers(v) == TextsIn(v, "literal") \cap DOMAIN Numbers # {}
=============================================================================
