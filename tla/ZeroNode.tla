------------------------------ MODULE ZeroNode ------------------------------
(***************************************************************************)
(* Package zeronode (zeronode/node.go): a node is a span of the document    *)
(* and a type letter, found by scanning, and never parsed into a tree.      *)
(*                                                                          *)
(* A document is a sequence of characters, indexed from 1; a span runs from *)
(* start to end, end excluded.                                              *)
(***************************************************************************)
EXTENDS Integers, Sequences, FiniteSets, SequencesExt

WhiteSpace == {" ", "\n", "\r", "\t"}
QuoteMark == "\""
Digits == {"0", "1", "2", "3", "4", "5", "6", "7", "8", "9"}

(* The zero byte, the type of a Node that was not found.                     *)
ZeroType == ""

NoNode == [raw |-> <<>>, start |-> 1, end |-> 1, typ |-> ZeroType]

(* New(b): a node over the whole of b whose type and span are not set.       *)
New(b) == [NoNode EXCEPT !.raw = b]

Raw(n) == SubSeq(n.raw, n.start, n.end - 1)

(* The first position from i on where b holds a character of stop, or else   *)
(* the end of b.                                                             *)
FirstOf(b, i, stop) ==
    LET at == SelectInSubSeq(b, i, Len(b), LAMBDA c : c \in stop)
    IN  IF at # 0 THEN at ELSE IF i > Len(b) THEN i ELSE Len(b) + 1

SkipSpaces(b, i) ==
    LET at == SelectInSubSeq(b, i, Len(b), LAMBDA c : c \notin WhiteSpace)
    IN  IF at # 0 THEN at ELSE IF i > Len(b) THEN i ELSE Len(b) + 1

(* The type skipWS reports at a position that holds no white space.          *)
TypeAt(b, i) ==
    IF i > Len(b) THEN ZeroType
    ELSE CASE b[i] = "{" -> "o"
           [] b[i] = "[" -> "a"
           [] b[i] = QuoteMark -> "s"
           [] b[i] \in {"t", "f"} -> "b"
           [] b[i] = "n" -> "l"
           [] OTHER -> "n"

(* From inside a string, past the closing quote; a backslash hides the next  *)
(* character, and may lead one past the end of b.                            *)
StringEnd(b, i) ==
    LET walk[j \in Nat] ==
          IF j > Len(b) THEN j
          ELSE CASE b[j] = QuoteMark -> j + 1
                 [] b[j] = "\\" -> walk[j + 2]
                 [] OTHER -> walk[j + 1]
    IN  walk[i]

(* Past the close that brings the depth counted from i to 0.  Quotes do not  *)
(* count: a bracket inside a string is a bracket.                            *)
BracketEnd(b, i, open, close) ==
    LET walk[at \in Nat \X Int] ==
          LET j == at[1]
              depth == at[2]
          IN  IF j > Len(b) THEN j
              ELSE CASE b[j] = open -> walk[<<j + 1, depth + 1>>]
                     [] b[j] = close ->
                          IF depth = 1 THEN j + 1 ELSE walk[<<j + 1, depth - 1>>]
                     [] OTHER -> walk[<<j + 1, depth>>]
    IN  walk[<<i, 0>>]

(* A findValueEnd without the case of arrays.                                *)
FindValueEndNoArrays(b, i) ==
    IF i > Len(b) THEN i
    ELSE CASE b[i] = "{" -> BracketEnd(b, i, "{", "}")
           [] b[i] = QuoteMark -> StringEnd(b, i + 1)
           [] OTHER -> FirstOf(b, i, {",", "}", "]"})

(* A findValueEnd that takes its literals one character too far.             *)
FindValueEndTooFar(b, i) ==
    IF i > Len(b) THEN i
    ELSE CASE b[i] = "{" -> BracketEnd(b, i, "{", "}")
           [] b[i] = "[" -> BracketEnd(b, i, "[", "]")
           [] b[i] = QuoteMark -> StringEnd(b, i + 1)
           [] OTHER -> FirstOf(b, i, {",", "}", "]"}) + 1

(* findValueEnd: the end of the value that starts at i.                      *)
FindValueEnd(b, i) ==
    IF i > Len(b) THEN i
    ELSE CASE b[i] = "{" -> BracketEnd(b, i, "{", "}")
           [] b[i] = "[" -> BracketEnd(b, i, "[", "]")
           [] b[i] = QuoteMark -> StringEnd(b, i + 1)
           [] OTHER -> FirstOf(b, i, {",", "}", "]"})

(* The node of the value that starts at i, after white space.                *)
NodeAt(b, i) ==
    LET s == SkipSpaces(b, i)
    IN  [raw |-> b, start |-> s, end |-> FindValueEnd(b, s), typ |-> TypeAt(b, s)]

FromBytes(b) == IF SkipSpaces(b, 1) > Len(b) THEN NoNode ELSE NodeAt(b, 1)

-----------------------------------------------------------------------------
(* Objects.  ObjectKey, getBytes, GetManyInto, GetPathFast and ForEachObject *)
(* go from one member of an object to the next in the same way.              *)

(* A loop that does not know escapes.                                        *)
KeyEndNoEscapes(n, i) == FirstOf(n.raw, i, {QuoteMark})

(* Where the loop that skips a key stops: its closing quote, or past n.end.  *)
KeyEnd(n, i) ==
    LET walk[j \in Nat] ==
          IF j >= n.end \/ j > Len(n.raw) THEN j
          ELSE CASE n.raw[j] = QuoteMark -> j
                 [] n.raw[j] = "\\" -> walk[j + 2]
                 [] OTHER -> walk[j + 1]
    IN  walk[i]

KeyStart(n, i) == SkipSpaces(n.raw, i) + 1
Colon(n, i) == SkipSpaces(n.raw, KeyEnd(n, KeyStart(n, i)) + 1)

(* The conditions under which the loop goes on to a value: not at the end,   *)
(* nor at a close, then a quote, a key and a colon.                          *)
HasMember(n, i) ==
    /\ i < n.end
    /\ SkipSpaces(n.raw, i) < n.end
    /\ n.raw[SkipSpaces(n.raw, i)] = QuoteMark
    /\ Colon(n, i) < n.end
    /\ n.raw[Colon(n, i)] = ":"

MemberKey(n, i) == SubSeq(n.raw, KeyStart(n, i), KeyEnd(n, KeyStart(n, i)) - 1)
MemberNode(n, i) == NodeAt(n.raw, Colon(n, i) + 1)

(* An After that stays at the comma, and one that goes on inside the value.   *)
AfterNoComma(n, v) == SkipSpaces(n.raw, v.end)
AfterInside(n, v) == SkipSpaces(n.raw, v.start + 1)

(* After a value: past one comma, if there is one.                           *)
After(n, v) ==
    LET j == SkipSpaces(n.raw, v.end)
    IN  IF j < n.end /\ n.raw[j] = "," THEN j + 1 ELSE j

(* The members the loop meets when nothing stops it.                         *)
Members(n) ==
    LET scan[i \in Nat] ==
          LET from(v) == <<[key |-> MemberKey(n, i), node |-> v]>> \o scan[After(n, v)]
          IN  IF HasMember(n, i) THEN from(MemberNode(n, i)) ELSE <<>>
    IN  IF n.typ = "o" THEN scan[n.start + 1] ELSE <<>>

(* getBytes, and ObjectKey with a second result: the first member that has   *)
(* the key.                                                                  *)
NodeOf(members, key) ==
    LET at == SelectInSeq(members, LAMBDA mb : mb.key = key)
    IN  IF at = 0 THEN NoNode ELSE members[at].node

GetBytes(n, key) == NodeOf(Members(n), key)

(* GetPath is over at the first key behind which nothing is, and answers    *)
(* what GetBytes did: in a text that was cut off, a node without a type.     *)
GetPath(n, keys) ==
    LET walk[k \in 0 .. Len(keys)] ==
          LET cur == walk[k - 1]
          IN  IF k = 0 THEN n
              ELSE IF k > 1 /\ cur.typ = ZeroType THEN cur ELSE GetBytes(cur, keys[k])
    IN  walk[Len(keys)]

(* GetPathFast has a loop of its own over the members, which is over at the   *)
(* first that has the key.                                                   *)
FirstMember(n, key) ==
    LET scan[i \in Nat] ==
          IF ~ HasMember(n, i) THEN NoNode
          ELSE IF MemberKey(n, i) = key THEN MemberNode(n, i)
          ELSE scan[After(n, MemberNode(n, i))]
    IN  IF n.typ = "o" THEN scan[n.start + 1] ELSE NoNode

GetPathFast(n, keys) ==
    LET walk[k \in 0 .. Len(keys)] ==
          IF k = 0 THEN n ELSE FirstMember(walk[k - 1], keys[k])
    IN  walk[Len(keys)]

(* GetManyInto(keys, out): out[k] becomes the node of keys[k], and the count *)
(* is returned.  A member goes to the first key it equals that has no hit    *)
(* yet.  Only the types of out are cleared, and only for these keys; a node  *)
(* that is no object, or an out that is too short, leaves out as it was.     *)
Scannable(n, keys, out) ==
    n.typ = "o" /\ keys # <<>> /\ Len(out) >= Len(keys)

(* All of out, as a plain loop over it would.                                *)
ClearedToTheEnd(keys, out) == [k \in DOMAIN out |-> [out[k] EXCEPT !.typ = ZeroType]]

Cleared(keys, out) ==
    [k \in DOMAIN out |-> IF k \in DOMAIN keys THEN [out[k] EXCEPT !.typ = ZeroType]
                                               ELSE out[k]]

(* Where a member fits: the keys it equals, but those that have their hit.    *)
NamedBy(keys, out, mb) == {k \in DOMAIN keys : keys[k] = mb.key}
FreeFor(keys, out, mb) == {k \in NamedBy(keys, out, mb) : out[k].typ = ZeroType}

HandOut(keys, s, mb) ==
    LET free == FreeFor(keys, s.out, mb)
    IN  IF s.remain = 0 \/ free = {} THEN s
        ELSE [out |-> [s.out EXCEPT ![Min(free)] = mb.node], remain |-> s.remain - 1]

(* What out and remain are once all the members have been handed out.        *)
HandOutAll(keys, out, members) ==
    LET after[k \in 0 .. Len(members)] ==
          IF k = 0 THEN [out |-> Cleared(keys, out), remain |-> Len(keys)]
                   ELSE HandOut(keys, after[k - 1], members[k])
    IN  after[Len(members)]

GetManyInto(n, keys, out) ==
    IF ~ Scannable(n, keys, out) THEN [out |-> out, count |-> 0]
    ELSE LET end == HandOutAll(keys, out, Members(n))
         IN  [out |-> end.out, count |-> Len(keys) - end.remain]

-----------------------------------------------------------------------------
(* Arrays.                                                                   *)

(* The conditions under which ForEachArray calls its function.               *)
HasElement(n, i) ==
    /\ i < n.end
    /\ SkipSpaces(n.raw, i) < n.end
    /\ n.raw[SkipSpaces(n.raw, i)] # "]"

(* skipValue, with scanString, scanObject, scanArray and scanNumber: a       *)
(* strict scan, which comes to the position after what it skips, or to 0.    *)
Keyword(b, i, word) ==
    LET e == i + Len(word)
    IN  IF e <= Len(b) + 1 /\ \A k \in DOMAIN word : b[i + k - 1] = word[k] THEN e ELSE 0

(* A scanString that does not know escapes.                                  *)
ScanStringNoEscapes(b, i) ==
    LET at == FirstOf(b, i + 1, {QuoteMark}) IN IF at > Len(b) THEN 0 ELSE at + 1

(* Past the closing quote of the string that starts at i.                    *)
ScanString(b, i) ==
    LET walk[j \in Nat] ==
          LET behind(k) == IF k > Len(b) + 1 THEN 0 ELSE walk[k]
          IN  IF j > Len(b) THEN 0
              ELSE CASE b[j] = QuoteMark -> j + 1
                     [] b[j] = "\\" ->
                          IF j < Len(b) /\ b[j + 1] = "u" THEN behind(j + 6)
                                                         ELSE behind(j + 2)
                     [] OTHER -> walk[j + 1]
    IN  walk[i + 1]

NumberChars == Digits \cup {".", "e", "E", "+", "-"}

ScanNumber(b, i) ==
    LET from == IF b[i] = "-" THEN i + 1 ELSE i
        at == SelectInSubSeq(b, from, Len(b), LAMBDA c : c \notin NumberChars)
        to == IF at # 0 THEN at ELSE Len(b) + 1
    IN  IF to = i THEN 0 ELSE to

(* The value at i, when scan says where the contents of containers end.      *)
ValueSkipped(b, scan, i) ==
    IF i > Len(b) THEN 0
    ELSE CASE b[i] = QuoteMark -> ScanString(b, i)
           [] b[i] = "{" -> scan[<<"members", i + 1>>]
           [] b[i] = "[" -> scan[<<"elements", i + 1>>]
           [] b[i] = "t" -> Keyword(b, i, <<"t", "r", "u", "e">>)
           [] b[i] = "f" -> Keyword(b, i, <<"f", "a", "l", "s", "e">>)
           [] b[i] = "n" -> Keyword(b, i, <<"n", "u", "l", "l">>)
           [] OTHER -> ScanNumber(b, i)

(* From a key at i to the value behind its colon, or 0.                      *)
ValueOfKey(b, i) ==
    LET end == ScanString(b, i)
        colon == SkipSpaces(b, end)
    IN  IF end = 0 \/ colon > Len(b) \/ b[colon] # ":" THEN 0
        ELSE SkipSpaces(b, colon + 1)

(* The "members" or "elements" from the one at i on, and their close.        *)
ContentsSkipped(b, what, scan, i) ==
    LET close == IF what = "members" THEN "}" ELSE "]"
        value == IF what = "elements" THEN i
                 ELSE IF b[i] = QuoteMark THEN ValueOfKey(b, i) ELSE 0
        end == IF value = 0 THEN 0 ELSE ValueSkipped(b, scan, value)
        next == SkipSpaces(b, end)
    IN  IF i > Len(b) THEN 0
        ELSE IF b[i] = close THEN i + 1
        ELSE IF end = 0 \/ next > Len(b) THEN 0
        ELSE CASE b[next] = "," -> scan[<<what, next + 1>>]
               [] b[next] = close -> next + 1
               [] OTHER -> 0

SkipValue(b, start) ==
    LET scan[s \in {"members", "elements"} \X Nat] ==
          ContentsSkipped(b, s[1], scan, SkipSpaces(b, s[2]))
    IN  ValueSkipped(b, scan, start)

(* ArrayIndex: element target of the array raw starts with, whatever span    *)
(* and type n has; the element becomes a document of its own, type unset.    *)
ArrayIndex(n, target) ==
    LET b == n.raw
        none == [found |-> FALSE, node |-> NoNode]
        scan[at \in Nat \X Nat] ==
          LET s == SkipSpaces(b, at[2])
              end == SkipValue(b, s)
              comma == SkipSpaces(b, end)
          IN  IF s > Len(b) \/ b[s] = "]" \/ end = 0 THEN none
              ELSE IF at[1] = target
                THEN [found |-> TRUE, node |-> New(SubSeq(b, s, end - 1))]
              ELSE IF comma > Len(b) \/ b[comma] # "," THEN none
              ELSE scan[<<at[1] + 1, comma + 1>>]
        open == SkipSpaces(b, 1)
    IN  IF target < 0 \/ open > Len(b) \/ b[open] # "[" THEN none
        ELSE scan[<<0, open + 1>>]
=============================================================================
