------------------------------- MODULE Natives -------------------------------
(***************************************************************************)
(* From the text of a JSON value to a Go value: the conversions of a node   *)
(* (zeronode/node.go) but Int, which is with the other parsers of integers, *)
(* and ToNativeBytes (parser/native_bytes.go).                              *)
(***************************************************************************)
EXTENDS Numerals

NodeFloat(n) == IF n.typ # "n" THEN Fails ELSE ParseFloatFast(Raw(n))
NodeBool(n) == IF n.typ # "b" THEN Fails ELSE <<"bool", n.raw[n.start] = "t">>

-----------------------------------------------------------------------------
(* Strings.                                                                  *)

HexDigits == <<"0", "1", "2", "3", "4", "5", "6", "7", "8", "9",
               "a", "b", "c", "d", "e", "f">>
HexValue(c) ==
    LET lower == CASE c = "A" -> "a" [] c = "B" -> "b" [] c = "C" -> "c"
                   [] c = "D" -> "d" [] c = "E" -> "e" [] c = "F" -> "f" [] OTHER -> c
    IN  SelectInSeq(HexDigits, LAMBDA d : d = lower) - 1

(* A rune, as a character.  A surrogate has no length in UTF-8, and the call  *)
(* that makes room for it panics: a text with a Panic in it stands for that.  *)
Panic == "panic"
RuneError == 65533
Rune(r) ==
    CASE r \in 48 .. 57  -> HexDigits[r - 47]
      [] r \in 97 .. 102 -> HexDigits[r - 86]
      [] r \in 55296 .. 57343 -> Panic
      [] OTHER -> "U+" \o ToString(r)

DecodeHexRune(b) ==
    IF \E k \in DOMAIN b : HexValue(b[k]) < 0 THEN RuneError
    ELSE FoldLeft(LAMBDA r, c : 16 * r + HexValue(c), 0, b)

(* What an escape of one letter becomes; an unknown letter leaves nothing, and *)
(* so does a u without four characters behind it.                            *)
Control(c) ==
    CASE c \in {"\"", "\\", "/"} -> <<c>>
      [] c = "b" -> <<Rune(8)>> [] c = "f" -> <<"\f">> [] c = "n" -> <<"\n">>
      [] c = "r" -> <<"\r">> [] c = "t" -> <<"\t">>
      [] OTHER -> <<>>

(* unescapeJSONString: \u needs four characters after it, or is dropped.      *)
Unescape(b) ==
    LET walk[i \in Nat] ==
          IF i > Len(b) THEN <<>>
          ELSE IF b[i] # "\\" THEN <<b[i]>> \o walk[i + 1]
          ELSE IF i = Len(b) THEN <<>>
          ELSE IF b[i + 1] = "u" /\ i + 5 <= Len(b)
            THEN <<Rune(DecodeHexRune(SubSeq(b, i + 2, i + 5)))>> \o walk[i + 6]
            ELSE Control(b[i + 1]) \o walk[i + 2]
    IN  walk[1]

(* Node.String and Node.UnescapedString.                                     *)
NodeString(n) == IF n.typ # "s" THEN <<>> ELSE SubSeq(n.raw, n.start + 1, n.end - 2)
UnescapedString(n) == Unescape(NodeString(n))

-----------------------------------------------------------------------------
(* ToNativeBytes.                                                            *)

NumberToNative(b) ==
    IF ParseIntFast(b) # Fails /\ IsIntegerLiteral(b) THEN ParseIntFast(b)
    ELSE IF ParseFloat64(b) # Fails THEN ParseFloat64(b) ELSE <<"string", b>>

(* The nodes a ForEachArray that is not stopped hands over.                  *)
Elements(n) ==
    LET scan[i \in Nat] ==
          LET from(v) == <<v>> \o scan[After(n, v)]
          IN  IF HasElement(n, i) THEN from(NodeAt(n.raw, i)) ELSE <<>>
    IN  IF n.typ = "a" THEN scan[n.start + 1] ELSE <<>>

(* A map that keeps the entries it has.                                      *)
FilledOnce(m, entries) ==
    FoldLeft(LAMBDA f, e : [k \in DOMAIN f \cup {e.key} |->
                              IF k \in DOMAIN f THEN f[k] ELSE e.value],
             m, entries)

(* A Go map that is given a sequence of entries one after the other.         *)
Filled(m, entries) ==
    FoldLeft(LAMBDA f, e : [k \in DOMAIN f \cup {e.key} |->
                              IF k = e.key THEN e.value ELSE f[k]],
             m, entries)

NewMap == [k \in {} |-> Nil]

(* The value of b, whatever white space is around it, but for a number, which *)
(* is parsed as it stands.  Keys are not unescaped.                          *)
RECURSIVE ToNativeBytes(_)
NodeToNative(n, b) ==
    LET value(node) == ToNativeBytes(Raw(node))
        values(nodes) == [k \in DOMAIN nodes |-> value(nodes[k])]
        entry(mb) == [key |-> mb.key, value |-> value(mb.node)]
        entries(members) == [k \in DOMAIN members |-> entry(members[k])]
    IN  CASE n.typ = "b" -> NodeBool(n)
          [] n.typ = "s" -> <<"string", UnescapedString(n)>>
          [] n.typ = "n" -> NumberToNative(b)
          [] n.typ = "a" -> <<"list", values(Elements(n))>>
          [] n.typ = "o" -> <<"map", Filled(NewMap, entries(Members(n)))>>
          [] OTHER -> Nil
ToNativeBytes(b) == NodeToNative(FromBytes(b), b)
=============================================================================
