------------------------------ MODULE Lookups ------------------------------
(***************************************************************************)
(* A client that reads one document through the packages zeronode and raw.  *)
(* It navigates: each step takes the node of the last one to one of its     *)
(* members or elements, through any of the functions that do so, and in the  *)
(* end it may turn the node into a Go value.  Or it asks package raw for the *)
(* value at a path.                                                         *)
(*                                                                          *)
(* A document comes with the places where its values lie; target is the one  *)
(* the client's node should stand for, and the functions only see the text.  *)
(***************************************************************************)
EXTENDS RawPath, Layout

CONSTANTS
    Documents,    \* texts of JSON values, and where in them the values lie
    Keys,         \* keys that are looked up
    Indexes,      \* elements that are looked up
    Paths,        \* paths package raw is asked for
    MaxJSONSize,  \* the size raw.From refuses to go beyond
    NoAnswer

(* The place of the first member with the key k, and of element n, from 0.    *)
MemberAt(d, place, k) ==
    IF place.kind # "object" THEN Nowhere
    ELSE LET items == d.inside[place]
             at == SelectInSeq(items, LAMBDA item : item.key = k)
         IN  IF at = 0 THEN Nowhere ELSE Place(items[at])

ElementAt(d, place, n) ==
    IF place.kind = "array" /\ n \in 0 .. Len(d.inside[place]) - 1
      THEN Place(d.inside[place][n + 1]) ELSE Nowhere

(* The place a segment of a path leads to, and the one a path does.  A number *)
(* too large for an int leads nowhere.                                       *)
PlaceBehind(d, place, tok) ==
    CASE tok.kind = "empty" -> place
      [] tok.kind = "digits" -> ElementAt(d, place, tok.value)
      [] OTHER -> MemberAt(d, place, tok.name)

PlaceAt(d, p) == FoldLeft(LAMBDA place, tok : PlaceBehind(d, place, tok), d.value, p)

(* Documents are JSON texts, or blank.  Strings may have brackets, and then   *)
(* the brackets of a container need not balance.                             *)
ASSUME DocumentAssumption ==
    \A d \in Documents :
        /\ d.text \in Seq(STRING)
        /\ d.value = Nowhere => Blank(d.text, 1, Len(d.text) + 1)
        /\ Laid(d)
        /\ d.bracketFree => \A place \in DOMAIN d.inside :
                               Balanced(d.text, place.start, place.end, place.kind)

ASSUME AskedAssumption ==
    /\ Paths \subseteq Seq(Token) \ {<<>>}
    /\ NoName \notin Names
    /\ Indexes \subseteq Int
    /\ IntWrap \in Nat \ {0}

-----------------------------------------------------------------------------
VARIABLES
    doc,          \* the document
    root,         \* how the client made its first node
    reached,      \* the client's node
    target,       \* where the node should be, Nowhere when nothing is there
    steps,        \* the kinds of steps taken: "key", "walk", "index"
    path,         \* the path package raw was asked for
    answers       \* its answers, without and with a plan

lookupVars == <<doc, root, reached, target, steps, path, answers>>

LookupInit ==
    /\ doc \in Documents
    /\ root = "none"
    /\ reached = NoNode
    /\ target = Nowhere
    /\ steps = {}
    /\ path = <<>>
    /\ answers = NoAnswer

OpenFromBytes ==
    /\ root = "none"
    /\ root' = "FromBytes"
    /\ reached' = FromBytes(doc.text)
    /\ target' = doc.value
    /\ UNCHANGED <<doc, steps, path, answers>>

OpenNew ==
    /\ root = "none"
    /\ root' = "New"
    /\ reached' = New(doc.text)
    /\ target' = doc.value
    /\ UNCHANGED <<doc, steps, path, answers>>

QuickValidateJSON(b) ==
    LET i == SkipSpaces(b, 1)
    IN  i <= Len(b) /\ b[i] \in {"{", "[", "\"", "t", "f", "n", "-"} \cup Digits

(* raw.From of bytes, of a string, or of a value that json.Marshal writes     *)
(* without white space: FromBytes, or an error.                              *)
OpenFrom ==
    /\ root = "none"
    /\ \E marshalled \in BOOLEAN :
         /\ marshalled => doc.value # Nowhere /\ doc.blanks = 0
         /\ IF Len(doc.text) <= MaxJSONSize /\ (marshalled \/ QuickValidateJSON(doc.text))
              THEN root' = "FromBytes" /\ reached' = FromBytes(doc.text) /\ target' = doc.value
              ELSE root' = "refused" /\ UNCHANGED <<reached, target>>
    /\ UNCHANGED <<doc, steps, path, answers>>

(* The client's node should be something.                                    *)
Navigating == root \in {"FromBytes", "New"} /\ target # Nowhere /\ answers = NoAnswer

MoveTo(n, place, kind) ==
    /\ reached' = n
    /\ target' = place
    /\ steps' = steps \cup {kind}
    /\ UNCHANGED <<doc, root, path, answers>>

(* n.Get(key), n.GetBytes(key) and n.ObjectKey(key)                          *)
ByKey ==
    /\ Navigating
    /\ \E key \in Keys : MoveTo(GetBytes(reached, key), MemberAt(doc, target, key), "key")

(* n.GetPath(key1, key2)                                                     *)
ByKeys ==
    /\ Navigating
    /\ \E key1, key2 \in Keys :
         MoveTo(GetPath(reached, <<key1, key2>>),
                MemberAt(doc, MemberAt(doc, target, key1), key2), "key")

(* n.GetPathFast(key1, key2)                                                 *)
ByKeysFast ==
    /\ Navigating
    /\ \E key1, key2 \in Keys :
         MoveTo(GetPathFast(reached, <<key1, key2>>),
                MemberAt(doc, MemberAt(doc, target, key1), key2), "key")

(* n.ArrayIndex(k)                                                           *)
ByIndex ==
    /\ Navigating
    /\ \E k \in Indexes :
         MoveTo(ArrayIndex(reached, k).node, ElementAt(doc, target, k), "index")

(* n.ForEachArray, left at element k                                         *)
ByWalk ==
    /\ Navigating
    /\ \E k \in Indexes : MoveTo(ElementNode(reached, k), ElementAt(doc, target, k), "walk")

(* raw.GetBytes(b, p) and raw.GetBytesByPlan(b, raw.CompilePath(p))          *)
AskRaw ==
    /\ root = "none"
    /\ root' = "raw"
    /\ \E p \in Paths :
         /\ path' = p
         /\ answers' = [plain |-> RawGetBytes(doc.text, p),
                        byPlan |-> RawGetBytesByPlan(doc.text, SegsOf(p))]
    /\ UNCHANGED <<doc, reached, target, steps>>

LookupNext ==
    \/ OpenFromBytes \/ OpenNew \/ OpenFrom
    \/ ByKey \/ ByKeys \/ ByKeysFast \/ ByIndex \/ ByWalk
    \/ AskRaw

LookupSpec == LookupInit /\ [][LookupNext]_lookupVars

-----------------------------------------------------------------------------
(* Properties.                                                               *)

(* The bytes a caller takes from a node: Raw of one with a type, RawBytes of *)
(* one that ArrayIndex or New made.                                          *)
NodeText ==
    TrimSpaceBytes(IF reached.typ = ZeroType THEN reached.raw ELSE Raw(reached))

TextAt(place) == SubSeq(doc.text, place.start, place.end - 1)

Lands == NodeText = TextAt(target)

IsRight(answer) ==
    answer = IF PlaceAt(doc, path) = Nowhere
               THEN NotFound ELSE Found(TextAt(PlaceAt(doc, path)))

Kinds(p) == {p[k].kind : k \in DOMAIN p}

FitsInt(p) == \A k \in DOMAIN p : p[k].kind = "digits" => p[k].value < IntWrap \div 2

(* From the node of FromBytes, any sequence of Get, GetPath, GetPathFast and  *)
(* elements handed out by ForEachArray lands on the member or element the     *)
(* document has there, and on nothing where it has none: the functions       *)
(* agree with each other and with the grammar.                               *)
KeysLandRight ==
    root = "FromBytes" /\ steps \subseteq {"key", "walk"} /\ doc.bracketFree
        => Lands

(* Any sequence of ArrayIndex lands on the element the array has there, also *)
(* when the strings are full of brackets: the strict scanner knows strings.  *)
IndexesLandRight == root # "none" /\ steps = {"index"} => Lands

(* raw.GetBytes answers with the text of the value at the path, or with not  *)
(* found when there is none, whatever white space surrounds it.              *)
PathAnswersRight ==
    root = "raw" /\ doc.bracketFree /\ FitsInt(path) => IsRight(answers.plain)

(* raw.GetBytesByPlan answers for indexes what the text has there, and for   *)
(* paths with keys it never answers with the wrong value.                    *)
PlanAnswersRight ==
    root = "raw" /\ FitsInt(path) /\ "empty" \notin Kinds(path)
        => \/ IsRight(answers.byPlan)
           \/ "name" \in Kinds(path) /\ answers.byPlan = NotFound
=============================================================================
