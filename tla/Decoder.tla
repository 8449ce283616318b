------------------------------- MODULE Decoder -------------------------------
(***************************************************************************)
(* Decode of structfast (decode_complex.go): a caller decodes documents     *)
(* into a Go variable, one after the other, so that a decode meets what an  *)
(* earlier one left.  The fields and their paths are those of buildTypePlan *)
(* (plan.go), looked up in the document through zeronode.                   *)
(*                                                                          *)
(* A Go type is a record: its kind go, with its element type of, its width   *)
(* bits or its fields.  A nil pointer, slice or map is Nil.                  *)
(***************************************************************************)
EXTENDS JsonMeaning

CONSTANTS
    Targets,        \* struct types that are decoded into
    Documents,      \* trees and texts
    Times,          \* Times[text]: the time a string is parsed as
    MilliFrom,      \* 10^12, the first number taken for milliseconds
    NanoAbove,      \* 10^14, the last
    NanosPerMilli,  \* 10^6
    NoDocument

VARIABLES
    target,         \* the type of the variable
    dest,           \* what the variable holds
    doc,            \* the document decoded last
    ok              \* what the decode returned

vars == <<target, dest, doc, ok>>

RECURSIVE Zero(_)
Zero(T) ==
    CASE T.go = "struct" -> <<"struct", [k \in DOMAIN T.fields |-> Zero(T.fields[k].typ)]>>
      [] T.go = "string" -> <<"string", <<>>>>
      [] T.go = "bool" -> <<"bool", FALSE>>
      [] T.go \in {"int", "uint"} -> <<T.go, 0>>
      [] T.go = "float64" -> <<"float64", Decimal(0, 0)>>
      [] T.go = "time" -> <<"time", "zero", 0>>
      [] OTHER -> Nil

-----------------------------------------------------------------------------
(* The parts of a document that have a field: buildTypePlan.                 *)

PathOf(f) == IF f.tag = <<>> THEN <<f.name>> ELSE f.tag

(* A plan that does not look for the tag "-".                                *)
PlannedAll(f) == f.exported

Planned(f) == f.exported /\ ~ f.skip

(* The exported fields without the tag "-", each with the path of its tag,    *)
(* or with its name when the tag gives none.                                 *)
PlanOf(T) ==
    LET all == [k \in DOMAIN T.fields |-> [index |-> k, path |-> PathOf(T.fields[k])]]
    IN  SelectSeq(all, LAMBDA p : Planned(T.fields[p.index]))

(* getByPath: a part is looked up in an object only, and what has no type is   *)
(* nothing.                                                                  *)
GetByPath(n, path) ==
    LET get(cur, part) == IF cur.typ # "o" THEN NoNode ELSE GetBytes(cur, part)
    IN  FoldLeft(LAMBDA cur, part :
                   IF get(cur, part).typ = ZeroType THEN NoNode ELSE get(cur, part),
                 n, path)

-----------------------------------------------------------------------------
(* Values without parts.                                                     *)

LowBits(n, bits) == ((n + 2 ^ (bits - 1)) % 2 ^ bits) - 2 ^ (bits - 1)

(* parseTimeNode: a string in one of the layouts, or a count of seconds,     *)
(* milliseconds or nanoseconds, by its size.  Milliseconds are multiplied in  *)
(* an int.                                                                   *)
TimeOf(n) ==
    LET text == UnescapedString(n)
        count == NodeInt(n)
    IN  IF n.typ = "s" /\ text \in DOMAIN Times THEN <<"time", "text", Times[text]>>
        ELSE IF count = Fails THEN Fails
        ELSE CASE count[2] > NanoAbove -> <<"time", "nanos", count[2]>>
               [] count[2] < MilliFrom -> <<"time", "seconds", count[2]>>
               [] OTHER -> <<"time", "nanos", Wrapped(count[2] * NanosPerMilli)>>

(* What decodeValue sets a value of such a type to, or Fails when it leaves   *)
(* it alone.                                                                 *)
Scalar(n, T) ==
    LET int == NodeInt(n)
    IN  CASE T.go \in {"string", "bytes"} ->
               IF n.typ = "s" THEN <<T.go, UnescapedString(n)>> ELSE Fails
          [] T.go = "bool" -> NodeBool(n)
          [] T.go = "int" -> IF int = Fails THEN Fails ELSE <<"int", LowBits(int[2], T.bits)>>
          [] T.go = "uint" -> IF int = Fails \/ int[2] < 0 THEN Fails
                              ELSE <<"uint", int[2] % 2 ^ T.bits>>
          [] T.go = "float64" -> NodeFloat(n)
          [] T.go = "time" -> TimeOf(n)

Outcome(done, value) == [ok |-> done, v |-> value]

-----------------------------------------------------------------------------
(* decodeValue and decodeStruct: what becomes of the value old of type T.     *)

(* A pointer that gets a new pointee every time.                             *)
PointeeFresh(old, T) == Zero(T.of)

Pointee(old, T) == IF old = Nil THEN Zero(T.of) ELSE old[2]
EntriesOf(old) == IF old = Nil THEN NewMap ELSE old[2]

(* The elements that decode, the others are left out.                        *)
OnlyDecoded(outcomes) == SelectSeq(outcomes, LAMBDA r : r.ok)
Values(outcomes) == [k \in DOMAIN outcomes |-> outcomes[k].v]

(* A slice that is appended to, and one that is replaced.                    *)
SliceAppended(old, elements) ==
    <<"list", (IF old = Nil THEN <<>> ELSE old[2]) \o elements>>
Slice(old, elements) == <<"list", elements>>

RECURSIVE DecodeValue(_, _, _)
DecodeValue(n, old, T) ==
    LET field(so, f) ==
          LET at == GetByPath(n, f.path)
              r == DecodeValue(at, so.v[2][f.index], T.fields[f.index].typ)
          IN  IF at.typ = ZeroType THEN so
              ELSE Outcome(so.ok \/ r.ok, [so.v EXCEPT ![2][f.index] = r.v])
        all == Elements(n)
        members == Members(n)
        elements == [k \in DOMAIN all |-> DecodeValue(all[k], Zero(T.of), T.of)]
        entry(mb) == LET r == DecodeValue(mb.node, Zero(T.of), T.of)
                     IN  [key |-> mb.key, ok |-> r.ok, value |-> r.v]
        entries == [k \in DOMAIN members |-> entry(members[k])]
    IN  CASE T.go = "ptr" ->
               LET r == DecodeValue(n, Pointee(old, T), T.of) IN Outcome(r.ok, <<"ptr", r.v>>)
          [] T.go = "struct" -> IF n.typ # "o" THEN Outcome(FALSE, old)
                                ELSE FoldLeft(field, Outcome(FALSE, old), PlanOf(T))
          [] T.go = "slice" -> IF n.typ # "a" THEN Outcome(FALSE, old)
                               ELSE Outcome(TRUE, Slice(old, Values(OnlyDecoded(elements))))
          [] T.go = "map" ->
               IF n.typ # "o" THEN Outcome(FALSE, old)
               ELSE Outcome(TRUE, <<"map", Filled(EntriesOf(old), OnlyDecoded(entries))>>)
          [] OTHER -> LET new == Scalar(n, T)
                      IN  IF new = Fails THEN Outcome(FALSE, old) ELSE Outcome(TRUE, new)

Init ==
    /\ target \in Targets
    /\ dest = Zero(target)
    /\ doc = NoDocument
    /\ ok = FALSE

(* Decode(zeronode.FromBytes(text), &dest)                                   *)
Decode ==
    \E d \in Documents :
        \E r \in {IF FromBytes(d.text).typ = "o"
                    THEN DecodeValue(FromBytes(d.text), dest, target)
                    ELSE Outcome(FALSE, dest)} :
            /\ doc' = d
            /\ dest' = r.v
            /\ ok' = r.ok
            /\ UNCHANGED target

Next == Decode

Spec == Init /\ [][Next]_vars

-----------------------------------------------------------------------------
(* The reference: a tree decoded into a value of a type.                     *)

NumberIn(v) == Numbers[v.text].num * 10 ^ Numbers[v.text].exp

(* What the value of a tree is as one of a type without parts.                *)
ScalarIn(v, T) ==
    LET number == v.kind = "literal" /\ v.text \in DOMAIN Numbers
        int == number /\ IsWhole(v.text)
    IN  CASE T.go \in {"string", "bytes"} /\ v.kind = "string" -> <<T.go, StringOf(v.text)>>
          [] T.go = "bool" /\ NativeOf(v)[1] = "bool" -> NativeOf(v)
          [] T.go = "int" /\ int -> <<"int", LowBits(NumberIn(v), T.bits)>>
          [] T.go = "uint" /\ int /\ NumberIn(v) >= 0 -> <<"uint", NumberIn(v) % 2 ^ T.bits>>
          [] T.go = "float64" /\ number -> <<"float64", Numbers[v.text]>>
          [] T.go = "time" /\ v.kind = "string" /\ StringOf(v.text) \in DOMAIN Times ->
               <<"time", "text", Times[StringOf(v.text)]>>
          [] T.go = "time" /\ int ->
               (CASE NumberIn(v) > NanoAbove -> <<"time", "nanos", NumberIn(v)>>
                  [] NumberIn(v) < MilliFrom -> <<"time", "seconds", NumberIn(v)>>
                  [] OTHER -> <<"time", "nanos", NumberIn(v) * NanosPerMilli>>)
          [] OTHER -> Fails

TreeAt(v, path) == FoldLeft(MemberOf, v, path)

(* The value after the decode of v: fields the tree has a value for take it,  *)
(* with the rest as it was; pointers are allocated on the way; a slice is     *)
(* replaced, and a map filled, by what decodes.                              *)
RECURSIVE Expected(_, _, _)
Expected(v, old, T) ==
    LET item(k) == Expected(v.items[k].value, Zero(T.of), T.of)
        good == SelectSeq([k \in DOMAIN v.items |-> k], LAMBDA k : item(k).ok)
        named(key) == {k \in ToSet(good) : v.items[k].key = key}
        kept == IF old = Nil THEN {} ELSE DOMAIN old[2]
        after(k) == LET f == T.fields[k]
                        at == TreeAt(v, IF f.tag = <<>> THEN <<f.name>> ELSE f.tag)
                    IN  IF at = NoTree \/ f.skip \/ ~ f.exported
                          THEN Outcome(FALSE, old[2][k])
                          ELSE Expected(at, old[2][k], T.fields[k].typ)
        shape == [struct |-> "object", slice |-> "array", map |-> "object"]
    IN  IF T.go \in DOMAIN shape /\ v.kind # shape[T.go] THEN Outcome(FALSE, old)
        ELSE
        CASE T.go = "ptr" ->
               LET r == Expected(v, IF old = Nil THEN Zero(T.of) ELSE old[2], T.of)
               IN  Outcome(r.ok, <<"ptr", r.v>>)
          [] T.go = "struct" ->
               Outcome(\E k \in DOMAIN T.fields : after(k).ok,
                       <<"struct", [k \in DOMAIN T.fields |-> after(k).v]>>)
          [] T.go = "slice" ->
               Outcome(TRUE, <<"list", [k \in DOMAIN good |-> item(good[k]).v]>>)
          [] T.go = "map" ->
               Outcome(TRUE, <<"map", [key \in kept \cup {v.items[k].key : k \in ToSet(good)} |->
                   IF named(key) = {} THEN old[2][key] ELSE item(Max(named(key))).v]>>)
          [] OTHER -> IF ScalarIn(v, T) = Fails THEN Outcome(FALSE, old)
                      ELSE Outcome(TRUE, ScalarIn(v, T))

(* Every number is one the parsers of nodes hold, and milliseconds too.       *)
NumbersFit(v) ==
    \A text \in TextsIn(v, "literal") \cap DOMAIN Numbers :
        IF IsWhole(text)
          THEN /\ FitsInt64(text)
               /\ LET n == Numbers[text].num * 10 ^ Numbers[text].exp
                  IN  n \in MilliFrom .. NanoAbove => n * NanosPerMilli <= IntMax
          ELSE LET p == NumberParts(text)
               IN  Exactly(p.int) < IntWrap /\ Exactly(p.frac) < IntWrap

(* Properties.                                                               *)

(* A decode gives the variable, whatever earlier ones left in it, exactly     *)
(* what the document's tree has for its fields: through paths of tags,        *)
(* pointers, nested structs, slices and maps, and it returns whether a field *)
(* was set.  A whole number with white space behind it is excepted (Int of   *)
(* its node fails), and so are numbers that do not fit; how fast.ParseFloat   *)
(* rounds is left out.                                                       *)
DecodesRight ==
    [][LET v == doc'.tree
       IN  /\ v.kind = "object" /\ NumbersFit(v) /\ doc'.bracketFree
           /\ doc'.ws = <<>> \/ ~ HasNumbers(v)
           => Outcome(ok', dest') = Expected(v, dest, target)]_vars

(* A decode that is done again changes nothing: it does not append to a slice *)
(* nor lose entries, so a caller may retry.                                  *)
RetryChangesNothing == [][doc' = doc => dest' = dest /\ ok' = ok]_vars

(* Nothing is different but for nil pointers that now have a zero pointee.    *)
RECURSIVE Alike(_, _, _)
Alike(old, new, T) ==
    \/ old = new
    \/ T.go = "ptr" /\ new # Nil /\ Alike(IF old = Nil THEN Zero(T.of) ELSE old[2], new[2], T.of)
    \/ T.go = "struct" /\ \A k \in DOMAIN T.fields : Alike(old[2][k], new[2][k], T.fields[k].typ)

(* A decode that returns false leaves the caller's data as it was, at every   *)
(* depth: no field is half set, and no pointee replaced.                      *)
FailureChangesNothing == [][~ ok' => Alike(dest, dest', target)]_vars
=============================================================================
