------------------------------- MODULE Getters -------------------------------
(***************************************************************************)
(* The typed getters and iterators of gcjson.go, for a caller with a        *)
(* document and a path: what TopKeyScan does before gjson is asked, the value *)
(* as gjson finds it, and what the getter makes of it.                      *)
(*                                                                          *)
(* Paths of exported field names, which AnyAs tries on a struct first, are   *)
(* those of SchemaCache (GetByPtrTyped); GetData is given a document here,    *)
(* which PickData leaves alone.                                              *)
(*                                                                          *)
(* A call of an iterator's function is a step.  The library gjson is          *)
(* external: it finds the value at a path, hands over its items, and decodes *)
(* its strings.                                                             *)
(***************************************************************************)
EXTENDS TopKeyScan, JsonMeaning

CONSTANTS
    GoTypes,      \* types the generic getters are instantiated with
    NoAnswer

VARIABLES
    visits,       \* the calls of an iterator's function
    result,       \* the value gjson found, a tree
    call,         \* the getter and its type
    answer        \* what it returned

vars == <<input, request, pc, cursor, hit, visits, result, call, answer>>

Init ==
    /\ ScanInit
    /\ visits = 0
    /\ result = NoTree
    /\ call = NoAnswer
    /\ answer = NoAnswer

-----------------------------------------------------------------------------
(* GetAny and GetData.                                                       *)

(* The checks and a turn of the scan.                                        *)
Checking == (Refuse \/ BeginScan \/ NoScan) /\ UNCHANGED <<visits, result, call, answer>>
Scanning == ScanTurn /\ UNCHANGED <<visits, result, call, answer>>

(* gjson.GetBytes: the first member whose decoded key is the part, or the     *)
(* element with its number.                                                  *)
PartOf(v, part) ==
    LET at == SelectInSeq(v.items, LAMBDA m : StringOf(m.key) = part)
    IN  IF v.kind = "object" /\ at # 0 THEN v.items[at].value
        ELSE IF part # <<>> /\ ToSet(part) \subseteq Digits THEN ElementOf(v, Exactly(part))
        ELSE NoTree

GjsonGet(v, parts) == FoldLeft(PartOf, v, parts)

(* What it makes of a document that was cut off is not modelled.             *)
Gjson ==
    /\ Goto("gjson", "typed")
    /\ input.state = "whole"
    /\ result' = GjsonGet(input.tree, request)
    /\ Beside /\ UNCHANGED <<visits, call, answer>>

-----------------------------------------------------------------------------
(* From a value of gjson to the value of a Go type.                          *)

IsNumber(v) == v.kind = "literal" /\ TypeLetter(v) = "n"

(* What gjson says a value is.                                               *)
GjsonType(v) ==
    CASE v.kind = "string" -> "String"
      [] v.kind \in {"object", "array"} -> "JSON"
      [] IsNumber(v) -> "Number"
      [] v.kind = "literal" /\ TypeLetter(v) = "b" ->
           IF v.text[1] = "t" THEN "True" ELSE "False"
      [] OTHER -> "Null"

(* parser.ToNative: an integer that does not fit stays the text it is.       *)
RECURSIVE ToNative(_)
ToNative(v) ==
    LET number == IF IsIntegerLiteral(v.text) THEN ParseIntFast(v.text)
                                              ELSE ParseFloat64(v.text)
        item(m) == [key |-> StringOf(m.key), value |-> ToNative(m.value)]
    IN  CASE v.kind = "string" -> <<"string", StringOf(v.text)>>
          [] v.kind = "array" ->
               <<"list", [k \in DOMAIN v.items |-> ToNative(v.items[k].value)]>>
          [] v.kind = "object" ->
               <<"map", Filled(NewMap, [k \in DOMAIN v.items |-> item(v.items[k])])>>
          [] IsNumber(v) -> IF number = Fails THEN <<"string", v.text>> ELSE number
          [] v.kind = "literal" /\ TypeLetter(v) = "b" -> <<"bool", v.text[1] = "t">>
          [] OTHER -> Nil

(* The assertion of a value to the type T.                                   *)
Asserted(value, T) ==
    IF value # Nil /\ T \in {"any", value[1]} THEN value ELSE Fails

AnyValue(v) == IF v = NoTree THEN Nil ELSE ToNative(v)

(* ToNativeTyped is given the Result of gjson, not a Go value.               *)
AnyAs(v, T) == IF v = NoTree THEN Fails ELSE Asserted(<<"Result", v>>, T)

(* parser.ToNative(r).(T)                                                    *)
NativeAs(v, T) == Asserted(AnyValue(v), T)

AnyDataAs(v, T) == NativeAs(v, T)

(* AnyDataAsFast asks what gjson says the value is, with a string decoded, and *)
(* falls back to ToNative.                                                   *)
AnyDataAsFast(v, T) ==
    LET number == GjsonType(v) = "Number"
        int == IF number /\ IsIntegerLiteral(v.text) THEN ParseIntFast(v.text) ELSE Fails
        float == IF number /\ ~ IsIntegerLiteral(v.text) THEN ParseFloat64(v.text)
                                                        ELSE Fails
    IN  CASE T = "string" /\ GjsonType(v) = "String" -> <<T, StringOf(v.text)>>
          [] T = "bool" /\ GjsonType(v) \in {"True", "False"} -> <<T, GjsonType(v) = "True">>
          [] T = "int64" /\ int # Fails -> int
          [] T = "int" /\ int # Fails -> <<T, int[2]>>
          [] T = "float64" /\ int # Fails -> AsFloat(int[2])
          [] T = "float64" /\ float # Fails -> float
          [] OTHER -> NativeAs(v, T)

(* An AnyAsFast without the case for ints, which falls back as AnyDataAs.      *)
AnyAsFastNoInt(v, T) == IF T = "int" THEN NativeAs(v, T) ELSE AnyDataAsFast(v, T)

(* What AnyAsFast asks for: viewFromG of what gjson found.                    *)
ViewKind(v) ==
    CASE v = NoTree -> "jtInvalid"
      [] GjsonType(v) = "String" -> "jtString"
      [] GjsonType(v) = "Number" -> "jtNumber"
      [] GjsonType(v) = "True" -> "jtTrue"
      [] GjsonType(v) = "False" -> "jtFalse"
      [] GjsonType(v) = "Null" -> "jtNull"
      [] OTHER -> "jtJSON"

(* AnyAsFast has a ladder of its own; it gives a string as it is written.      *)
AnyAsFast(v, T) ==
    LET whole == ViewKind(v) = "jtNumber" /\ IsIntegerLiteral(v.text)
        parsed == IF whole THEN ParseIntFast(v.text)
                  ELSE IF ViewKind(v) = "jtNumber" THEN ParseFloat64(v.text) ELSE Fails
        shortcut ==
          CASE T = "string" /\ ViewKind(v) = "jtString" -> <<T, v.text>>
            [] T = "bool" /\ ViewKind(v) = "jtTrue" -> <<T, TRUE>>
            [] T = "bool" /\ ViewKind(v) = "jtFalse" -> <<T, FALSE>>
            [] T \in {"int", "int64"} /\ whole /\ parsed # Fails -> <<T, parsed[2]>>
            [] T = "float64" /\ parsed # Fails ->
                 IF whole THEN AsFloat(parsed[2]) ELSE parsed
            [] OTHER -> Fails
    IN  IF shortcut # Fails THEN shortcut ELSE NativeAs(v, T)

(* A TypeOfAny that takes every number without a dot for an integer.         *)
TypeOfAnyByDot(v) ==
    CASE v.kind \in {"string", "array", "object"} -> v.kind
      [] v = NoTree -> "null"
      [] IsNumber(v) -> IF "." \notin ToSet(v.text) THEN "int" ELSE "float"
      [] v.kind = "literal" /\ TypeLetter(v) = "b" -> "bool"
      [] OTHER -> "unknown"

(* A null is "unknown", and "null" is where nothing is.                      *)
TypeOfAny(v) ==
    CASE v.kind \in {"string", "array", "object"} -> v.kind
      [] v = NoTree -> "null"
      [] IsNumber(v) -> IF IsIntegerLiteral(v.text) THEN "int" ELSE "float"
      [] v.kind = "literal" /\ TypeLetter(v) = "b" -> "bool"
      [] OTHER -> "unknown"

MapAny(v) == IF AnyValue(v)[1] = "map" THEN AnyValue(v) ELSE Nil
ArrayAny(v) == IF AnyValue(v)[1] = "list" THEN AnyValue(v) ELSE Nil

(* The variants with a default.                                              *)
Default == <<"default">>
Or(value, none) == IF value = none THEN Default ELSE value

Generic == {"AnyAs", "AnyAsFast", "AnyDataAs", "AnyDataAsFast", "AnyOrAs", "AnyOrAsFast"}
Plain == {"Any", "AnyOr", "MapAny", "ArrayAny", "TypeOfAny"}

Answer(fn, T, v) ==
    CASE fn = "Any" -> AnyValue(v)
      [] fn = "AnyOr" -> Or(AnyValue(v), Nil)
      [] fn = "MapAny" -> MapAny(v)
      [] fn = "ArrayAny" -> ArrayAny(v)
      [] fn = "TypeOfAny" -> <<"name", TypeOfAny(v)>>
      [] fn = "AnyAs" -> AnyAs(v, T)
      [] fn = "AnyOrAs" -> Or(AnyAs(v, T), Fails)
      [] fn = "AnyDataAs" -> AnyDataAs(v, T)
      [] fn = "AnyAsFast" -> AnyAsFast(v, T)
      [] fn = "AnyOrAsFast" -> Or(AnyAsFast(v, T), Fails)
      [] fn = "AnyDataAsFast" -> AnyDataAsFast(v, T)

Typed ==
    /\ Goto("typed", "done")
    /\ \E c \in (Plain \X {"any"}) \cup (Generic \X GoTypes) :
         /\ call' = c
         /\ answer' = Answer(c[1], c[2], result)
    /\ Beside /\ UNCHANGED <<visits, result>>

(* AnyMany, of any size and without the scan.                                *)
AnyMany ==
    /\ Goto("from", "done")
    /\ Converts /\ input.state = "whole"
    /\ \E other \in Requests :
         answer' = <<"list", <<AnyValue(GjsonGet(input.tree, request)), AnyValue(GjsonGet(input.tree, other))>>>>
    /\ call' = <<"AnyMany", "any">>
    /\ Beside /\ UNCHANGED <<visits, result>>

-----------------------------------------------------------------------------
(* EachObject, EachArray, EachArrayZero, ForEachArrayResult and              *)
(* ForEachObjectResult, of any size, and ForEachDataArrayResult.              *)

BeginEach ==
    /\ Goto("from", "each")
    /\ Converts /\ input.state = "whole"
    /\ \E fn \in {"Each", "EachData"} :
         /\ call' = <<fn, "any">>
         /\ result' = IF fn = "EachData" /\ ~ Accepted THEN NoTree
                      ELSE GjsonGet(input.tree, request)
    /\ Beside /\ UNCHANGED <<visits, answer>>

(* ForEach of gjson hands over the items of a container, and any other value  *)
(* as it is.                                                                 *)
Items(v) == CASE v = NoTree -> <<>>
              [] v.kind \in {"array", "object"} -> v.items
              [] OTHER -> <<Item(<<>>, v)>>

(* The function is called, and goes on or stops.                             *)
Visit ==
    /\ pc = "each" /\ visits < Len(Items(result))
    /\ visits' = visits + 1
    /\ \/ UNCHANGED <<pc, answer>>
       \/ pc' = "done" /\ answer' = <<"bool", TRUE>>
    /\ Beside /\ UNCHANGED <<result, call>>

EndEach ==
    /\ Goto("each", "done")
    /\ visits = Len(Items(result))
    /\ answer' = <<"bool", visits > 0>>
    /\ Beside /\ UNCHANGED <<visits, result, call>>

Next == Checking \/ Scanning \/ Gjson \/ Typed \/ AnyMany \/ BeginEach \/ Visit \/ EndEach

Spec == Init /\ [][Next]_vars /\ WF_vars(Scanning)

-----------------------------------------------------------------------------
(* Properties.                                                               *)

Fits(v) == IsNumber(v) => FitsInt64(v.text)

(* A number no Go number is made of: an integer an int cannot hold, or what is *)
(* beyond all floats.                                                        *)
StaysText(v) ==
    /\ IsNumber(v) /\ ~ FitsInt64(v.text)
    /\ IsWhole(v.text) \/ Float64(Numbers[v.text]) = Fails

(* ToNative and ToNativeBytes differ for integers an int cannot hold, text for *)
(* the one and a float for the other, and for keys with escapes.             *)
ConvertedAlike(v) ==
    /\ \A t \in TextsIn(v, "literal") \cap DOMAIN Numbers : IsWhole(t) => FitsInt64(t)
    /\ KeysIn(v) \cap DOMAIN Decoded = {}

(* What a getter answers as an integer is the integer of the document, never   *)
(* one that wrapped; as a float it is the nearest one to the document's       *)
(* number, whether an int64 lay in between or not; as a string it is the      *)
(* string, decoded but by AnyAsFast, or the text of a number that no int or   *)
(* float holds.  A container becomes what ToNativeBytes, which is given its   *)
(* text, makes of it, where the two are meant to be the same.                *)
AnswersExact ==
    pc = "done" /\ call[1] \in Generic \cup {"Any"} /\ answer \notin {Fails, Default} =>
        LET kind == answer[1]
            value == answer[2]
        IN  CASE kind \in {"int", "int64"} -> Decimal(value, 0) = Numbers[result.text]
              [] kind = "float64" -> answer = Float64(Numbers[result.text])
              [] kind = "string" ->
                   \/ result.kind = "string" /\ value = StringOf(result.text)
                   \/ result.kind = "string" /\ value = result.text
                      /\ call[1] \in {"AnyAsFast", "AnyOrAsFast"}
                   \/ StaysText(result) /\ value = result.text
              [] kind \in {"list", "map", "bool"} ->
                   BracketFree(result) /\ ConvertedAlike(result) =>
                       answer = ToNativeBytes(TextOf(result, <<>>))
              [] OTHER -> TRUE

(* The getters agree: what AnyDataAs answers, AnyDataAsFast answers too, and *)
(* AnyAsFast like it, but for a string with escapes.                         *)
GettersAgree ==
    pc = "typed" => \A T \in GoTypes :
        /\ AnyDataAs(result, T) \in {Fails, AnyDataAsFast(result, T)}
        /\ \/ AnyAsFast(result, T) = AnyDataAsFast(result, T)
           \/ T = "string" /\ result.text \in DOMAIN Decoded

(* A caller that asks TypeOfAny first knows which getter will answer.  Numbers *)
(* that stay text are the exception: TypeOfAny calls them int or float, and   *)
(* only the getter of strings answers.                                       *)
TypeOfAnyPredicts ==
    pc = "typed" =>
        LET answers(T) == AnyDataAsFast(result, T) # Fails
            typ == TypeOfAny(result)
            text == StaysText(result)
        IN  /\ answers("int64") = (typ = "int" /\ ~ text)
            /\ answers("float64") = (typ \in {"int", "float"} /\ ~ text)
            /\ answers("string") = (typ = "string" \/ text)
            /\ answers("bool") = (typ = "bool")
            /\ answers("map") = (typ = "object") /\ answers("list") = (typ = "array")
            /\ answers("any") = (typ \notin {"null", "unknown"})

(* README.md: AnyAs[int64] answers for an integer.                           *)
AnyAsAnswers ==
    pc = "done" /\ call = <<"AnyAs", "int64">> /\ TypeOfAny(result) = "int" /\ Fits(result) =>
        answer # Fails
=============================================================================
