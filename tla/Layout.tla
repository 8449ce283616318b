------------------------------- MODULE Layout -------------------------------
(***************************************************************************)
(* What the text of a JSON value looks like, said of its positions and       *)
(* without any scan: which quotes a backslash hides, how deep the brackets   *)
(* are, and where the items of an array or an object lie.  It is what the    *)
(* scans of ZeroNode are judged by.                                         *)
(*                                                                          *)
(* Nothing here is code of the repository: it is the input of the code.     *)
(***************************************************************************)
EXTENDS ZeroNode

(* b has nothing but white space from i up to j.                             *)
Blank(b, i, j) == i <= j /\ \A k \in i .. j - 1 : b[k] \in WhiteSpace

HexLetters == Digits \cup {"a", "b", "c", "d", "e", "f", "A", "B", "C", "D", "E", "F"}

(* In a string whose characters start at i, the one at j is taken literally:  *)
(* an odd number of backslashes stand before it.                             *)
Hidden(b, i, j) ==
    \E k \in i .. j - 1 :
        /\ \A l \in k .. j - 1 : b[l] = "\\"
        /\ k = i \/ b[k - 1] # "\\"
        /\ (j - k) % 2 = 1

(* A string from i, with its quotes, up to e; four digits are behind each \u.  *)
IsString(b, i, e) ==
    /\ i + 1 < e
    /\ b[i] = QuoteMark /\ b[e - 1] = QuoteMark /\ ~ Hidden(b, i + 1, e - 1)
    /\ \A j \in i + 1 .. e - 2 : b[j] = QuoteMark => Hidden(b, i + 1, j)
    /\ \A j \in i + 1 .. e - 2 : b[j] = "u" /\ Hidden(b, i + 1, j) =>
         j + 4 <= e - 2 /\ \A k \in j + 1 .. j + 4 : b[k] \in HexLetters

(* The word stands in b from i up to e.                                      *)
IsWord(b, i, e, word) ==
    e = i + Len(word) /\ \A k \in DOMAIN word : b[i + k - 1] = word[k]

(* A number, true, false or null.                                            *)
IsLiteral(b, i, e) ==
    \/ i < e /\ \A k \in i .. e - 1 : b[k] \in NumberChars
    \/ \E word \in {<<"t", "r", "u", "e">>, <<"f", "a", "l", "s", "e">>, <<"n", "u", "l", "l">>} :
         IsWord(b, i, e, word)

(* A container from i up to e, which what is inside it shows to be one.       *)
IsFrame(b, i, e, open, close) == i + 1 < e /\ b[i] = open /\ b[e - 1] = close

IsSpan(b, i, e, kind) ==
    \/ kind = "object" /\ IsFrame(b, i, e, "{", "}")
    \/ kind = "array" /\ IsFrame(b, i, e, "[", "]")
    \/ kind = "string" /\ IsString(b, i, e)
    \/ kind = "literal" /\ IsLiteral(b, i, e)

(* How many brackets that were opened from i on are open behind j, those in   *)
(* strings too.                                                              *)
Depth(b, i, j, open, close) ==
    Cardinality({k \in i .. j : b[k] = open}) - Cardinality({k \in i .. j : b[k] = close})

(* e is the first place where the brackets from i on balance.                *)
Balances(b, i, e, open, close) ==
    /\ \A j \in i .. e - 2 : Depth(b, i, j, open, close) > 0
    /\ Depth(b, i, e - 1, open, close) = 0

Balanced(b, i, e, kind) ==
    /\ kind = "object" => Balances(b, i, e, "{", "}")
    /\ kind = "array" => Balances(b, i, e, "[", "]")

(* The letter for a value whose text begins with c.                          *)
LetterOf(kind, c) ==
    CASE kind = "object" -> "o"
      [] kind = "array" -> "a"
      [] kind = "string" -> "s"
      [] kind = "literal" -> IF c \in {"t", "f"} THEN "b" ELSE IF c = "n" THEN "l" ELSE "n"

(* Where an item lies: its value, from start up to end.                      *)
Place(item) == [start |-> item.start, end |-> item.end, kind |-> item.kind]

(* From q on there is item, and nothing else before its value.               *)
LeadsTo(b, q, item, kind) ==
    \/ kind = "array" /\ item.key = <<>> /\ Blank(b, q, item.start)
    \/ /\ kind = "object"
       /\ \E s \in q .. item.start, m \in q .. item.start :
            LET e == s + Len(item.key) + 2
            IN  /\ Blank(b, q, s) /\ IsString(b, s, e)
                /\ SubSeq(b, s + 1, e - 2) = item.key
                /\ Blank(b, e, m) /\ b[m] = ":"
                /\ Blank(b, m + 1, item.start)

(* Item k lies in d, a container from c up to e: behind the opening bracket,  *)
(* or the comma behind the item before.                                      *)
ItemInPlace(d, c, e, k) ==
    LET b == d.text
        item == d.items[k]
    IN  /\ item.key \in Seq(STRING)
        /\ item.start \in c + 1 .. e - 1 /\ item.end \in c + 1 .. e - 1
        /\ IsSpan(b, item.start, item.end, item.kind)
        /\ item.typ = LetterOf(item.kind, b[item.start])
        /\ \E q \in c + 1 .. item.start :
             /\ LeadsTo(b, q, item, d.kind)
             /\ IF k = 1 THEN q = c + 1
                ELSE LET before == d.items[k - 1].end
                     IN  /\ Blank(b, before, q - 1) /\ b[q - 1] = ","
                         /\ q - 1 <= before + d.blanks

(* The text of d has a container from c up to e, and in it the items of d.    *)
Encloses(d, c, e) ==
    LET n == Len(d.items)
        last == IF n = 0 THEN c + 1 ELSE d.items[n].end
    IN  /\ d.kind \in {"array", "object"} /\ d.blanks \in Nat
        /\ DOMAIN d.items = 1 .. n /\ n \in Nat
        /\ c \in 1 .. Len(d.text) /\ e \in 1 .. Len(d.text) + 1
        /\ IsSpan(d.text, c, e, d.kind)
        /\ \A k \in 1 .. n : ItemInPlace(d, c, e, k)
        /\ Blank(d.text, last, e - 1) /\ e - 1 <= last + d.blanks

(* And the brackets show it, too.                                            *)
Holds(d, c, e) ==
    /\ Encloses(d, c, e)
    /\ Balanced(d.text, c, e, d.kind)
    /\ \A k \in 1 .. Len(d.items) :
         Balanced(d.text, d.items[k].start, d.items[k].end, d.items[k].kind)

-----------------------------------------------------------------------------
(* Documents.  d.value is the place of the value d is, and d.inside[place]    *)
(* are the items of the container at a place.                                *)

Nowhere == [start |-> 1, end |-> 1, kind |-> "absent"]

ContainerAt(d, place) ==
    [kind |-> place.kind, text |-> d.text, blanks |-> d.blanks, items |-> d.inside[place]]

Known(d, place) == place.kind \in {"array", "object"} => place \in DOMAIN d.inside

(* The value of d lies where d says, and so do the items of each container.   *)
Laid(d) ==
    /\ d.blanks \in Nat
    /\ d.value # Nowhere =>
         /\ d.value.start \in 1 .. Len(d.text) /\ d.value.end \in 1 .. Len(d.text) + 1
         /\ IsSpan(d.text, d.value.start, d.value.end, d.value.kind)
         /\ Blank(d.text, 1, d.value.start) /\ Blank(d.text, d.value.end, Len(d.text) + 1)
         /\ Known(d, d.value)
    /\ \A place \in DOMAIN d.inside :
         /\ Encloses(ContainerAt(d, place), place.start, place.end)
         /\ \A k \in DOMAIN d.inside[place] : Known(d, Place(d.inside[place][k]))
=============================================================================
