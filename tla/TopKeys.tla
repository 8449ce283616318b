------------------------------- MODULE TopKeys -------------------------------
(***************************************************************************)
(* Package fast (fast/fast.go): the scan of the top level of a document for *)
(* a key, before gjson is asked.  The scan only says whether the key is      *)
(* there; the value is read by gjson either way.                            *)
(***************************************************************************)
EXTENDS ZeroNode

(* A path is the sequence of the parts between its dots; capital letters are  *)
(* left out.                                                                 *)
SimpleChars ==
    Digits \cup {"_", "-"}
    \cup {"a", "b", "c", "d", "e", "f", "g", "h", "i", "j", "k", "l", "m", "n",
          "o", "p", "q", "r", "s", "t", "u", "v", "w", "x", "y", "z"}

IsSimpleTopKey(path) ==
    Len(path) = 1 /\ path[1] # <<>> /\ ToSet(path[1]) \subseteq SimpleChars

(* Past the string that begins before i, or past the end of b.               *)
PastString(b, i) == Min({StringEnd(b, i), Len(b) + 1})

(* A SkipToNext that counts brackets in strings.                             *)
SkipToNextInStrings(b, i) ==
    LET walk[at \in Nat \X Nat] ==
          LET j == at[1]
              depth == at[2]
          IN  IF j > Len(b) THEN j
              ELSE CASE b[j] \in {"{", "["} -> walk[<<j + 1, depth + 1>>]
                     [] b[j] \in {",", "}"} /\ depth = 0 -> j + 1
                     [] b[j] \in {"}", "]"} /\ depth > 0 -> walk[<<j + 1, depth - 1>>]
                     [] OTHER -> walk[<<j + 1, depth>>]
    IN  walk[<<i, 0>>]

(* Past the comma or the closing brace behind the value that starts at i.    *)
SkipToNext(b, i) ==
    LET walk[at \in Nat \X Nat] ==
          LET j == at[1]
              depth == at[2]
          IN  IF j > Len(b) THEN j
              ELSE CASE b[j] = QuoteMark -> walk[<<PastString(b, j + 1), depth>>]
                     [] b[j] \in {"{", "["} -> walk[<<j + 1, depth + 1>>]
                     [] b[j] \in {",", "}"} /\ depth = 0 -> j + 1
                     [] b[j] \in {"}", "]"} /\ depth > 0 -> walk[<<j + 1, depth - 1>>]
                     [] OTHER -> walk[<<j + 1, depth>>]
    IN  walk[<<i, 0>>]

(* One turn of the loop of GetTopKeyFast at i: "hit", "miss", the position   *)
(* the loop goes on at, or "panic", when b ends behind the opening quote of   *)
(* a key, as the slice of its characters would begin behind its end.         *)
Turn(b, i, key) ==
    LET k == SkipSpaces(b, i)
        past == PastString(b, k + 1)
        colon == SkipSpaces(b, past)
        value == SkipSpaces(b, colon + 1)
        at(what, where) == [is |-> what, i |-> where]
    IN  IF k > Len(b) \/ b[k] # QuoteMark THEN at("miss", k)
        ELSE IF k = Len(b) THEN at("panic", past)
        ELSE IF colon > Len(b) \/ b[colon] # ":" THEN at("miss", colon)
        ELSE IF SubSeq(b, k + 1, past - 2) = key THEN at("hit", value)
        ELSE at("next", SkipToNext(b, value))
=============================================================================
