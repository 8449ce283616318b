--------------------------- MODULE NodeWalkProofs ---------------------------
(***************************************************************************)
(* Proofs about NodeWalk, for texts of any length.  The order of the spans   *)
(* handed over is proved for every text whatever, well-formed or not; that   *)
(* no span leaves the document needs that it does not end with a backslash   *)
(* (TextAssumption).                                                        *)
(***************************************************************************)
EXTENDS NodeWalk, Lemmas

-----------------------------------------------------------------------------
(* The inductive invariants.                                                 *)

(* The node that is walked is a span of the document, or none.               *)
Walked ==
    /\ node.raw \in Seq(STRING)
    /\ node.start \in Nat \ {0}
    /\ node.end \in Nat
    /\ node.start <= node.end
    /\ node.typ \in {"a", "o"} => node.raw = doc.text

(* The loop is behind what it has handed over.                               *)
Behind ==
    /\ i \in Nat
    /\ pc = "enter" => call = NoCall
    /\ pc = "loop" => i >= 1 /\ node.typ \in {"a", "o"}
    /\ call # NoCall => /\ call.node.start \in Nat \ {0}
                        /\ call.node.end \in Nat
                        /\ call.node.start <= call.node.end
                        /\ pc = "loop" => i >= call.node.end

Typed ==
    /\ doc \in Documents
    /\ walk \in {"array", "object"}
    /\ pc \in {"enter", "loop", "done"}
    /\ idx \in 0 .. IndexWrap - 1
    /\ call # NoCall => call.index \in 0 .. IndexWrap - 1
    /\ stopped \in BOOLEAN

Ordered == Typed /\ Walked /\ Behind

(* Nothing leaves the document.                                              *)
Inside ==
    /\ node.end <= Len(doc.text) + 1
    /\ node.typ \in {"a", "o"} => node.start <= Len(doc.text)
    /\ i <= Len(doc.text) + 1
    /\ call # NoCall => call.node.end <= Len(doc.text) + 1

-----------------------------------------------------------------------------
(* FromBytes answers with a node over the document, or with none.            *)
LEMMA FromBytesMoves ==
    ASSUME NEW b \in Seq(STRING), NEW n, n = FromBytes(b)
    PROVE  /\ n.raw \in Seq(STRING)
           /\ n.start \in Nat \ {0}
           /\ n.end \in Nat
           /\ n.start <= n.end
           /\ n.typ \in {"a", "o"} => n.raw = b /\ n.start <= Len(b)
           /\ (b # <<>> => b[Len(b)] # "\\") => n.end <= Len(b) + 1
<1>1. Len(b) \in Nat /\ 1 \in Nat \ {0}
  OBVIOUS
<1>2. CASE SkipSpaces(b, 1) > Len(b)
  <2>1. n = [raw |-> <<>>, start |-> 1, end |-> 1, typ |-> ZeroType]
    BY <1>2 DEF FromBytes, NoNode
  <2>2. ZeroType \notin {"a", "o"}
    BY Zenon DEF ZeroType
  <2>3. n.raw = <<>> /\ n.start = 1 /\ n.end = 1 /\ n.typ \notin {"a", "o"}
    BY <2>1, <2>2
  <2>4. <<>> \in Seq(STRING)
    OBVIOUS
  <2> QED BY <1>1, <2>3, <2>4
<1>3. CASE ~ (SkipSpaces(b, 1) > Len(b))
  <2>1. n = NodeAt(b, 1)
    BY <1>3 DEF FromBytes
  <2>2. NodeAt(b, 1).start = SkipSpaces(b, 1)
    BY DEF NodeAt
  <2>3. SkipSpaces(b, 1) \in Nat /\ SkipSpaces(b, 1) >= 1
    BY <1>1, SkipSpacesMoves
  <2>4. SkipSpaces(b, 1) <= Len(b)
    BY <1>1, <1>3, <2>3
  <2>5. b # <<>> /\ 1 <= Len(b) + 1
    BY <1>1, <2>3, <2>4
  <2> QED BY <1>1, <2>1, <2>2, <2>3, <2>4, <2>5, NodeAtMoves
<1> QED BY <1>2, <1>3

(* What is handed over next, and where the loop stands then.                 *)
LEMMA VisitMoves ==
    ASSUME Ordered, VisitElement \/ VisitMember
    PROVE  /\ pc = "loop"
           /\ call'.node.start \in Nat /\ call'.node.end \in Nat
           /\ call'.node.start >= i
           /\ walk = "object" => call'.node.start > i
           /\ call'.node.start <= call'.node.end
           /\ call'.index = idx
           /\ UNCHANGED <<doc, walk, node>>
           /\ \/ /\ pc' = "loop" /\ UNCHANGED stopped
                 /\ i' = After(node, call'.node)
                 /\ idx' = (idx + 1) % IndexWrap
              \/ /\ pc' = "done" /\ stopped' = TRUE
                 /\ UNCHANGED <<i, idx>>
           /\ /\ i <= Len(doc.text) + 1
              /\ node.end <= Len(doc.text) + 1
              /\ doc.text # <<>> => doc.text[Len(doc.text)] # "\\"
              => call'.node.end <= Len(doc.text) + 1
<1> USE DEF Ordered, Typed, Walked, Behind
<1>1. /\ pc = "loop" /\ node.raw = doc.text /\ node.raw \in Seq(STRING)
      /\ i \in Nat \ {0} /\ Len(doc.text) \in Nat
  BY DEF VisitElement, VisitMember
<1> DEFINE Whole == doc.text # <<>> => doc.text[Len(doc.text)] # "\\"
<1>2. CASE VisitElement
  <2> DEFINE v == NodeAt(node.raw, i)
  <2>1. /\ walk = "array" /\ HasElement(node, i)
        /\ call' = [index |-> idx, key |-> <<>>, node |-> v]
        /\ Answered(v)
        /\ UNCHANGED <<doc, walk, node>>
    BY <1>2 DEF VisitElement
  <2>2. /\ v.start \in Nat /\ v.start >= i /\ v.end \in Nat /\ v.end >= v.start
        /\ i <= Len(doc.text) + 1 /\ doc.text[Len(doc.text)] # "\\"
             => v.end <= Len(doc.text) + 1
    BY <1>1, NodeAtMoves
  <2>3. node.end <= Len(doc.text) + 1 => doc.text # <<>>
    <3>1. i < node.end
      BY <2>1 DEF HasElement
    <3> QED BY <1>1, <3>1
  <2> HIDE DEF v
  <2>4. call'.node = v /\ call'.index = idx
    BY <2>1
  <2>5. \/ /\ i' = After(node, v)
           /\ idx' = (idx + 1) % IndexWrap
           /\ UNCHANGED <<pc, stopped>>
        \/ /\ pc' = "done"
           /\ stopped' = TRUE
           /\ UNCHANGED <<i, idx>>
    BY <2>1 DEF Answered
  <2> QED BY <1>1, <2>1, <2>2, <2>3, <2>4, <2>5
<1>3. CASE VisitMember
  <2> DEFINE v == NodeAt(node.raw, Colon(node, i) + 1)
  <2>1. /\ walk = "object" /\ HasMember(node, i)
        /\ call' = [index |-> idx, key |-> MemberKey(node, i), node |-> v]
        /\ Answered(v)
        /\ UNCHANGED <<doc, walk, node>>
    BY <1>3 DEF VisitMember, MemberNode
  <2>2. /\ Colon(node, i) \in Nat /\ Colon(node, i) >= i /\ Colon(node, i) < node.end
    BY <1>1, <2>1, ColonMoves DEF HasMember
  <2>3. Colon(node, i) + 1 \in Nat \ {0}
    BY <2>2
  <2>4. /\ v.start \in Nat /\ v.start >= Colon(node, i) + 1
        /\ v.end \in Nat /\ v.end >= v.start
        /\ Colon(node, i) + 1 <= Len(doc.text) + 1 /\ doc.text[Len(doc.text)] # "\\"
             => v.end <= Len(doc.text) + 1
    BY <1>1, <2>3, NodeAtMoves
  <2>5. node.end <= Len(doc.text) + 1 =>
          doc.text # <<>> /\ Colon(node, i) + 1 <= Len(doc.text) + 1
    BY <1>1, <2>2
  <2> HIDE DEF v
  <2>6. call'.node = v /\ call'.index = idx
    BY <2>1
  <2>7. \/ /\ i' = After(node, v)
           /\ idx' = (idx + 1) % IndexWrap
           /\ UNCHANGED <<pc, stopped>>
        \/ /\ pc' = "done"
           /\ stopped' = TRUE
           /\ UNCHANGED <<i, idx>>
    BY <2>1 DEF Answered
  <2> QED BY <1>1, <2>1, <2>2, <2>4, <2>5, <2>6, <2>7
<1> QED BY <1>2, <1>3

-----------------------------------------------------------------------------
(* Ordered is inductive.                                                     *)
LEMMA InitOrdered == Init => Ordered
<1>1. SUFFICES ASSUME Init PROVE Ordered
  OBVIOUS
<1>2. doc \in Documents /\ doc.text \in Seq(STRING)
  BY <1>1, WalkAssumption DEF Init
<1>3. Walked
  BY <1>1, <1>2, FromBytesMoves DEF Init, Walked
<1>4. Behind
  BY <1>1 DEF Init, Behind
<1>5. 0 \in 0 .. IndexWrap - 1
  BY WalkAssumption
<1>6. Typed
  BY <1>1, <1>2, <1>5 DEF Init, Typed
<1> QED BY <1>3, <1>4, <1>6 DEF Ordered

(* Every step keeps the loop behind what it has handed over.                 *)
LEMMA NextOrdered == Ordered /\ [Next]_vars => Ordered'
<1> SUFFICES ASSUME Ordered, [Next]_vars PROVE Ordered'
  OBVIOUS
<1> USE DEF Ordered, Typed, Walked, Behind
<1>1. CASE EnterWrongType
  BY <1>1 DEF EnterWrongType
<1>2. CASE Enter
  <2>1. node.typ \in {"a", "o"}
    BY <1>2 DEF Enter
  <2>2. /\ i' = node.start + 1 /\ pc' = "loop" /\ call = NoCall
        /\ UNCHANGED <<doc, walk, node, idx, call, stopped>>
    BY <1>2 DEF Enter
  <2> QED BY <2>1, <2>2
<1>3. CASE VisitElement \/ VisitMember
  <2>1. node.typ \in {"a", "o"} /\ node.raw = doc.text /\ i >= 1 /\ i \in Nat
    BY <1>3, VisitMoves
  <2>2. After(node, call'.node) \in Nat /\ After(node, call'.node) >= call'.node.end
    BY <1>3, VisitMoves, AfterMoves
  <2>3. (idx + 1) % IndexWrap \in 0 .. IndexWrap - 1
    BY WalkAssumption
  <2>4. Typed'
    BY <1>3, <2>3, VisitMoves
  <2>5. Walked'
    BY <1>3, VisitMoves
  <2>6. /\ call'.node.start \in Nat \ {0} /\ call'.node.end \in Nat
        /\ call'.node.start <= call'.node.end
        /\ call'.node.end >= 1
    <3>1. /\ call'.node.start \in Nat /\ call'.node.end \in Nat
          /\ call'.node.start <= call'.node.end /\ call'.node.start >= i
      BY <1>3, VisitMoves
    <3> QED BY <2>1, <3>1
  <2>7. \/ pc' = "loop" /\ i' = After(node, call'.node)
        \/ pc' = "done" /\ i' = i
    BY <1>3, VisitMoves
  <2>8. i' \in Nat /\ pc' # "enter" /\ (pc' = "loop" => i' >= 1 /\ i' >= call'.node.end)
    BY <2>1, <2>2, <2>6, <2>7
  <2>9. node' = node
    BY <1>3, VisitMoves
  <2>10. Behind'
    BY <2>1, <2>6, <2>8, <2>9
  <2> QED BY <2>4, <2>5, <2>10
<1>4. CASE Leave
  BY <1>4 DEF Leave
<1>5. CASE UNCHANGED vars
  BY <1>5 DEF vars
<1> QED BY <1>1, <1>2, <1>3, <1>4, <1>5 DEF Next

(* The loop is always behind what it has handed over, in any text.             *)
THEOREM Invariance == Safety => []Ordered
<1>1. Init => Ordered
  BY InitOrdered
<1>2. Ordered /\ [Next]_vars => Ordered'
  BY NextOrdered
<1> QED BY <1>1, <1>2, PTL DEF Safety

(* ForEachArray and ForEachObject hand over parts of the document in order,   *)
(* none overlapping another, whatever the text is.                           *)
THEOREM SpansAreInOrder == Safety => SpansInOrder
<1>1. Ordered /\ [Next]_vars =>
        [call # NoCall /\ call' # call =>
           /\ call'.node.start >= call.node.end
           /\ walk = "object" => call'.node.start > call.node.end]_vars
  <2> SUFFICES ASSUME Ordered, [Next]_vars, call # NoCall, call' # call
               PROVE  /\ call'.node.start >= call.node.end
                      /\ walk = "object" => call'.node.start > call.node.end
    OBVIOUS
  <2>1. VisitElement \/ VisitMember
    BY DEF Next, EnterWrongType, Enter, Leave, vars
  <2>2. /\ pc = "loop" /\ call'.node.start \in Nat /\ call'.node.start >= i
        /\ walk = "object" => call'.node.start > i
    BY <2>1, VisitMoves
  <2> QED BY <2>2 DEF Ordered, Behind
<1> QED BY <1>1, Invariance, PTL DEF Safety, SpansInOrder

-----------------------------------------------------------------------------
(* Inside, too, for documents that do not end with a backslash.              *)
LEMMA InitInside == Init => Inside
<1>1. SUFFICES ASSUME Init PROVE Inside
  OBVIOUS
<1>2. doc \in Documents /\ doc.text \in Seq(STRING) /\ Len(doc.text) \in Nat
  BY <1>1, WalkAssumption DEF Init
<1>3. doc.text # <<>> => doc.text[Len(doc.text)] # "\\"
  BY <1>2, TextAssumption
<1>4. node = FromBytes(doc.text)
  BY <1>1 DEF Init
<1>5. /\ node.end <= Len(doc.text) + 1
      /\ node.typ \in {"a", "o"} => node.start <= Len(doc.text)
  BY <1>2, <1>3, <1>4, FromBytesMoves
<1> QED BY <1>1, <1>2, <1>5 DEF Init, Inside

(* No step leaves the document.                                              *)
LEMMA NextInside == Ordered /\ Inside /\ [Next]_vars => Inside'
<1> SUFFICES ASSUME Ordered, Inside, [Next]_vars PROVE Inside'
  OBVIOUS
<1>0. /\ doc \in Documents /\ doc.text \in Seq(STRING) /\ Len(doc.text) \in Nat
      /\ doc.text # <<>> => doc.text[Len(doc.text)] # "\\"
  BY WalkAssumption, TextAssumption DEF Ordered, Typed
<1> USE DEF Inside
<1>1. CASE EnterWrongType
  BY <1>1 DEF EnterWrongType
<1>2. CASE Enter
  <2>1. node.typ \in {"a", "o"} /\ node.start \in Nat
    BY <1>2 DEF Enter, Ordered, Walked, Typed
  <2> QED BY <1>0, <1>2, <2>1 DEF Enter
<1>3. CASE VisitElement \/ VisitMember
  <2>1. call'.node.end <= Len(doc.text) + 1 /\ call'.node.end \in Nat
    BY <1>0, <1>3, VisitMoves
  <2>2. node.raw = doc.text /\ node.raw \in Seq(STRING) /\ node.end \in Nat
    BY <1>3, VisitMoves DEF Ordered, Walked, Behind
  <2>3. After(node, call'.node) <= Len(doc.text) + 1
    BY <2>1, <2>2, AfterMoves
  <2> QED BY <1>3, <2>1, <2>3, VisitMoves
<1>4. CASE Leave
  BY <1>4 DEF Leave
<1>5. CASE UNCHANGED vars
  BY <1>5 DEF vars
<1> QED BY <1>1, <1>2, <1>3, <1>4, <1>5 DEF Next

(* Every variable has its type; neither the loop nor a span that is handed    *)
(* over leaves the document, so that no slice of it is out of range.         *)
THEOREM TypeCorrect == Safety => []TypeOK
<1>1. Init => Inside
  BY InitInside
<1>2. Ordered /\ Inside /\ [Next]_vars => Inside'
  BY NextInside
<1>3. Ordered /\ Inside => TypeOK
  <2> SUFFICES ASSUME Ordered, Inside PROVE TypeOK
    OBVIOUS
  <2>1. Len(doc.text) \in Nat
    BY WalkAssumption DEF Ordered, Typed
  <2> QED BY <2>1 DEF Ordered, Typed, Walked, Behind, Inside, TypeOK
<1> QED BY <1>1, <1>2, <1>3, Invariance, PTL DEF Safety

-----------------------------------------------------------------------------
(* What is handed over, in a document whose container lies from c up to e.    *)

(* The loop stands before the item with the number of the next call, and the  *)
(* last call was for the item before.                                        *)
OnItemsOf(c, e) ==
    /\ Blank(doc.text, 1, c) /\ Holds(doc, c, e)
    /\ node.raw = doc.text /\ node.start = c /\ node.end = e
    /\ node.typ = IF walk = "array" THEN "a" ELSE "o"
    /\ idx <= Len(doc.items)
    /\ pc = "enter" => idx = 0
    /\ pc = "loop" => StandsBefore(doc, c, e, idx + 1, i)
    /\ pc = "done" /\ ~ stopped => idx = Len(doc.items)
    /\ call # NoCall => HandsOverItsItem

OnItems ==
    Fits /\ doc.bracketFree =>
        \E c \in 1 .. Len(doc.text), e \in 1 .. Len(doc.text) + 1 : OnItemsOf(c, e)

(* OnItems holds at the start.                                               *)
LEMMA InitOnItems == Init => OnItems
<1> SUFFICES ASSUME Init, Fits, doc.bracketFree
             PROVE  \E c \in 1 .. Len(doc.text), e \in 1 .. Len(doc.text) + 1 : OnItemsOf(c, e)
  BY DEF OnItems
<1>1. /\ doc \in Documents /\ doc.text \in Seq(STRING)
      /\ walk \in {"array", "object"} /\ walk = doc.kind
  BY WalkAssumption DEF Init, Fits
<1>2. PICK c \in 1 .. Len(doc.text), e \in 1 .. Len(doc.text) + 1 :
        Blank(doc.text, 1, c) /\ Holds(doc, c, e)
  BY Zenon, <1>1, LayoutAssumption
<1>3. node = [raw |-> doc.text, start |-> c, end |-> e,
              typ |-> IF doc.kind = "array" THEN "a" ELSE "o"]
  BY Zenon, <1>1, <1>2, ContainerFound DEF Init
<1>4. /\ node.raw = doc.text /\ node.start = c /\ node.end = e
      /\ node.typ = IF walk = "array" THEN "a" ELSE "o"
  BY <1>1, <1>3
<1>5. idx = 0 /\ pc = "enter" /\ call = NoCall
  BY DEF Init
<1>6. 0 <= Len(doc.items)
  BY <1>1, <1>2, ContainerInText
<1>7. OnItemsOf(c, e)
  BY <1>2, <1>4, <1>5, <1>6 DEF OnItemsOf
<1> QED BY Zenon, <1>2, <1>7

(* A call is made exactly before an item.                                    *)
LEMMA ItemThere ==
    ASSUME Ordered, Fits, NEW c, NEW e, OnItemsOf(c, e), pc = "loop"
    PROVE  /\ doc.text \in Seq(STRING) /\ Holds(doc, c, e)
           /\ idx \in Nat /\ Len(doc.items) \in Nat
           /\ idx = Len(doc.items) <=>
                ~ (IF walk = "array" THEN HasElement(node, i) ELSE HasMember(node, i))
           /\ idx # Len(doc.items) =>
                /\ idx + 1 \in 1 .. Len(doc.items)
                /\ walk = "array" =>
                     /\ doc.items[idx + 1].key = <<>>
                     /\ i \in Nat \ {0} /\ Blank(doc.text, i, doc.items[idx + 1].start)
                /\ walk = "object" =>
                     /\ MemberKey(node, i) = doc.items[idx + 1].key
                     /\ Colon(node, i) + 1 \in Nat \ {0}
                     /\ Blank(doc.text, Colon(node, i) + 1, doc.items[idx + 1].start)
<1>1. /\ doc.text \in Seq(STRING) /\ walk \in {"array", "object"} /\ walk = doc.kind
      /\ idx \in Nat
  BY WalkAssumption DEF Ordered, Typed, Fits
<1>2. /\ Holds(doc, c, e) /\ node.raw = doc.text /\ node.end = e /\ idx <= Len(doc.items)
      /\ StandsBefore(doc, c, e, idx + 1, i)
  BY Zenon DEF OnItemsOf
<1>3. Len(doc.items) \in Nat
  BY Zenon, <1>1, <1>2, ContainerInText
<1>4. /\ idx + 1 \in 1 .. Len(doc.items) + 1
      /\ idx = Len(doc.items) <=> idx + 1 = Len(doc.items) + 1
      /\ idx # Len(doc.items) => idx + 1 \in 1 .. Len(doc.items)
  BY <1>1, <1>2, <1>3
<1>5. CASE walk = "array"
  <2>1. walk # "object" /\ doc.kind = "array"
    BY Zenon, <1>1, <1>5
  <2>2. /\ HasElement(node, i) <=> idx + 1 # Len(doc.items) + 1
        /\ idx + 1 # Len(doc.items) + 1 =>
             /\ doc.items[idx + 1].key = <<>>
             /\ i \in Nat \ {0} /\ Blank(doc.text, i, doc.items[idx + 1].start)
    BY <1>1, <1>2, <1>4, <2>1, ElementThere
  <2> QED BY Zenon, <1>1, <1>2, <1>3, <1>4, <1>5, <2>1, <2>2
<1>6. CASE walk = "object"
  <2>1. walk # "array" /\ doc.kind = "object"
    BY Zenon, <1>1, <1>6
  <2>2. /\ HasMember(node, i) <=> idx + 1 # Len(doc.items) + 1
        /\ idx + 1 # Len(doc.items) + 1 =>
             /\ MemberKey(node, i) = doc.items[idx + 1].key
             /\ Colon(node, i) + 1 \in Nat \ {0}
             /\ Blank(doc.text, Colon(node, i) + 1, doc.items[idx + 1].start)
    BY <1>1, <1>2, <1>4, <2>1, MemberThere
  <2> QED BY Zenon, <1>1, <1>2, <1>3, <1>4, <1>6, <2>1, <2>2
<1> QED BY Zenon, <1>1, <1>5, <1>6

(* A call is for the item the loop stands before, and the loop goes on before  *)
(* the next.                                                                 *)
LEMMA VisitItem ==
    ASSUME Ordered, Fits, NEW c, NEW e, OnItemsOf(c, e), VisitElement \/ VisitMember
    PROVE  /\ idx + 1 \in 1 .. Len(doc.items)
           /\ HandsOverItsItem'
           /\ StandsBefore(doc, c, e, idx + 2, After(node, call'.node))
<1> DEFINE from == IF walk = "array" THEN i ELSE Colon(node, i) + 1
           item == doc.items[idx + 1]
           v == NodeAt(doc.text, from)
<1>1. pc = "loop" /\ doc' = doc
  BY DEF VisitElement, VisitMember
<1>2. node.raw = doc.text /\ node.end = e
  BY Zenon DEF OnItemsOf
<1>3. /\ call'.index = idx /\ call'.node = v
      /\ call'.key = IF walk = "array" THEN <<>> ELSE MemberKey(node, i)
      /\ IF walk = "array" THEN HasElement(node, i) ELSE HasMember(node, i)
      /\ walk \in {"array", "object"}
  <2>1. CASE VisitElement
    <3>1. /\ call' = [index |-> idx, key |-> <<>>, node |-> NodeAt(node.raw, i)]
          /\ walk = "array" /\ HasElement(node, i)
      BY <2>1 DEF VisitElement
    <3>2. v = NodeAt(node.raw, i)
      BY Zenon, <1>2, <3>1
    <3> HIDE DEF v
    <3> QED BY <3>1, <3>2
  <2>2. CASE VisitMember
    <3>1. /\ call' = [index |-> idx, key |-> MemberKey(node, i),
                      node |-> NodeAt(node.raw, Colon(node, i) + 1)]
          /\ walk = "object" /\ HasMember(node, i)
      BY <2>2 DEF VisitMember, MemberNode
    <3>2. walk # "array"
      BY <3>1
    <3>3. v = NodeAt(node.raw, Colon(node, i) + 1)
      BY Zenon, <1>2, <3>2
    <3> HIDE DEF v
    <3> QED BY <3>1, <3>2, <3>3
  <2> QED BY Zenon, <2>1, <2>2
<1>4. /\ doc.text \in Seq(STRING) /\ Holds(doc, c, e) /\ idx \in Nat /\ Len(doc.items) \in Nat
      /\ idx + 1 \in 1 .. Len(doc.items)
  BY Zenon, <1>1, <1>3, ItemThere
<1>5. idx # Len(doc.items)
  BY <1>4
<1>6. call'.key = item.key /\ from \in Nat \ {0} /\ Blank(doc.text, from, item.start)
  <2>1. CASE walk = "array"
    BY Zenon, <1>1, <1>3, <1>5, <2>1, ItemThere
  <2>2. CASE walk = "object"
    <3>1. walk # "array"
      BY Zenon, <2>2
    <3> QED BY Zenon, <1>1, <1>3, <1>5, <2>2, <3>1, ItemThere
  <2> QED BY Zenon, <1>3, <2>1, <2>2
<1> HIDE DEF from
<1>7. PICK z : /\ EndsAt(doc, c, e, idx + 1, z)
               /\ v.end = item.end \/ (item.kind = "literal" /\ v.end = z)
               /\ v.start = item.start /\ v.typ = item.typ
  BY Zenon, <1>4, <1>6, NodeAtItem
<1>8. StandsBefore(doc, c, e, (idx + 1) + 1, After(node, v))
  <2>1. v.end \in {item.end, z}
    BY Zenon, <1>7
  <2> HIDE DEF v
  <2> QED BY Zenon, <1>2, <1>4, <1>7, <2>1, AfterItem
<1>9. item.end \in Nat /\ doc.blanks \in Nat /\ z \in item.end .. item.end + doc.blanks
  BY Zenon, <1>4, <1>7, ItemInText, ContainerInText DEF EndsAt
<1> HIDE DEF v
<1>10. v.end \in item.end .. item.end + (IF item.kind = "literal" THEN doc.blanks ELSE 0)
  <2> HIDE DEF item
  <2> QED BY <1>7, <1>9
<1>11. doc'.items[call'.index + 1] = item /\ doc'.items = doc.items /\ doc'.blanks = doc.blanks
  BY Zenon, <1>1, <1>3
<1>12. (idx + 1) + 1 = idx + 2 /\ idx < Len(doc.items)
  BY <1>4
<1>13. HandsOverItsItem'
  <2>1. call'.index < Len(doc'.items)
    BY Zenon, <1>3, <1>11, <1>12
  <2>2. /\ call'.key = item.key /\ call'.node.typ = item.typ /\ call'.node.start = item.start
        /\ call'.node.end \in item.end ..
             item.end + (IF item.kind = "literal" THEN doc'.blanks ELSE 0)
    BY Zenon, <1>3, <1>6, <1>7, <1>10, <1>11
  <2> HIDE DEF item
  <2> QED BY Zenon, <1>11, <2>1, <2>2 DEF HandsOverItsItem, HandsOver
<1> QED BY Zenon, <1>3, <1>4, <1>8, <1>12, <1>13

(* Every step of a walk keeps it on the items.                               *)
LEMMA NextOnItems == Ordered /\ OnItems /\ [Next]_vars => OnItems'
<1> SUFFICES ASSUME Ordered, OnItems, [Next]_vars, (Fits /\ doc.bracketFree)'
             PROVE  (\E c \in 1 .. Len(doc.text), e \in 1 .. Len(doc.text) + 1 :
                       OnItemsOf(c, e))'
  BY DEF OnItems
<1>1. doc' = doc /\ walk' = walk /\ node' = node
  BY DEF Next, EnterWrongType, Enter, VisitElement, VisitMember, Leave, vars
<1>2. Fits /\ doc.bracketFree
  BY <1>1 DEF Fits
<1>3. PICK c \in 1 .. Len(doc.text), e \in 1 .. Len(doc.text) + 1 : OnItemsOf(c, e)
  BY Zenon, <1>2 DEF OnItems
<1>4. /\ Blank(doc.text, 1, c) /\ Holds(doc, c, e)
      /\ node.raw = doc.text /\ node.start = c /\ node.end = e
      /\ node.typ = IF walk = "array" THEN "a" ELSE "o"
      /\ idx <= Len(doc.items)
      /\ pc = "enter" => idx = 0
      /\ pc = "loop" => StandsBefore(doc, c, e, idx + 1, i)
      /\ pc = "done" /\ ~ stopped => idx = Len(doc.items)
      /\ call # NoCall => HandsOverItsItem
  BY Zenon, <1>3 DEF OnItemsOf
<1>5. /\ doc \in Documents /\ doc.text \in Seq(STRING) /\ idx \in Nat /\ IndexWrap \in Nat \ {0}
      /\ walk \in {"array", "object"} /\ walk = doc.kind
  BY <1>2, WalkAssumption DEF Ordered, Typed, Fits
<1>6. Len(doc.items) \in Nat /\ Len(doc.items) < IndexWrap
  <2>1. Len(doc.items) < IndexWrap
    BY Zenon, <1>2, <1>5, LayoutAssumption
  <2> QED BY Zenon, <1>4, <1>5, <2>1, ContainerInText
<1>7. UNCHANGED call => (HandsOverItsItem => HandsOverItsItem')
  BY <1>1 DEF HandsOverItsItem, HandsOver
<1> SUFFICES OnItemsOf(c, e)'
  BY Zenon, <1>1
<1>8. ASSUME idx' <= Len(doc.items), pc' # "enter",
             pc' = "loop" => StandsBefore(doc, c, e, idx' + 1, i'),
             pc' = "done" /\ ~ stopped' => idx' = Len(doc.items),
             call' # NoCall => HandsOverItsItem'
      PROVE  OnItemsOf(c, e)'
  BY Zenon, <1>1, <1>4, <1>8 DEF OnItemsOf
<1>9. CASE EnterWrongType
  BY Zenon, <1>4, <1>9 DEF EnterWrongType
<1>10. CASE Enter
  <2>1. pc = "enter" /\ pc' = "loop" /\ i' = node.start + 1 /\ UNCHANGED <<idx, call, stopped>>
    BY <1>10 DEF Enter
  <2>2. idx' = 0 /\ i' = c + 1 /\ 0 + 1 = 1
    BY <1>4, <2>1
  <2>3. StandsBefore(doc, c, e, idx' + 1, i')
    BY Zenon, <1>4, <1>5, <2>2, StandsBeforeFirst DEF Holds
  <2>4. pc' # "enter" /\ pc' # "done"
    BY <2>1
  <2>5. call' # NoCall => HandsOverItsItem'
    BY Zenon, <1>4, <1>7, <2>1
  <2>6. idx' <= Len(doc.items)
    BY Zenon, <1>4, <2>1
  <2> QED BY Zenon, <1>8, <2>3, <2>4, <2>5, <2>6
<1>11. CASE VisitElement \/ VisitMember
  <2>1. /\ idx + 1 \in 1 .. Len(doc.items)
        /\ HandsOverItsItem'
        /\ StandsBefore(doc, c, e, idx + 2, After(node, call'.node))
    BY Zenon, <1>2, <1>3, <1>11, VisitItem
  <2>2. CASE pc' = "loop" /\ i' = After(node, call'.node) /\ idx' = (idx + 1) % IndexWrap
    <3>1. idx' = idx + 1
      <4>1. idx + 1 \in 0 .. IndexWrap - 1
        BY <1>5, <1>6, <2>1
      <4> QED BY <1>5, <2>2, <4>1
    <3>2. idx' + 1 = idx + 2 /\ idx' <= Len(doc.items)
      BY <1>5, <1>6, <2>1, <3>1
    <3>3. pc' # "enter" /\ pc' # "done"
      BY <2>2
    <3> QED BY Zenon, <1>8, <2>1, <2>2, <3>2, <3>3
  <2>3. CASE pc' = "done" /\ stopped' = TRUE /\ UNCHANGED <<i, idx>>
    <3>1. pc' # "enter" /\ pc' # "loop" /\ idx' <= Len(doc.items)
      BY <1>4, <2>3
    <3> QED BY Zenon, <1>8, <2>1, <2>3, <3>1
  <2> QED BY <1>11, <2>2, <2>3, VisitMoves
<1>12. CASE Leave
  <2>1. /\ pc = "loop" /\ pc' = "done" /\ UNCHANGED <<idx, call, stopped>>
        /\ ~ (IF walk = "array" THEN HasElement(node, i) ELSE HasMember(node, i))
    BY Zenon, <1>12 DEF Leave
  <2>2. idx = Len(doc.items)
    BY Zenon, <1>2, <1>3, <2>1, ItemThere
  <2>3. pc' # "enter" /\ pc' # "loop"
    BY Zenon, <2>1
  <2>4. idx' = Len(doc.items) /\ idx' <= Len(doc.items)
    BY Zenon, <1>4, <2>1, <2>2
  <2>5. call' # NoCall => HandsOverItsItem'
    BY Zenon, <1>4, <1>7, <2>1
  <2> QED BY Zenon, <1>8, <2>3, <2>4, <2>5
<1>13. CASE UNCHANGED vars
  BY <1>3, <1>13 DEF OnItemsOf, vars, HandsOverItsItem, HandsOver
<1> QED BY Zenon, <1>9, <1>10, <1>11, <1>12, <1>13 DEF Next

(* The walk is always on the items of its document.                          *)
LEMMA WalkOnItems == Safety => []OnItems
<1>1. Init => OnItems
  BY InitOnItems
<1>2. Ordered /\ OnItems /\ [Next]_vars => OnItems'
  BY NextOnItems
<1> QED BY <1>1, <1>2, Invariance, PTL DEF Safety

(* Call k of ForEachArray or ForEachObject is for item k of the document, in   *)
(* full, however long the document is and however it is laid out.            *)
THEOREM EachItemHandedOver == Safety => []ItemsHandedOver
<1>1. OnItems => ItemsHandedOver
  BY Zenon DEF OnItems, OnItemsOf, ItemsHandedOver
<1> QED BY <1>1, WalkOnItems, PTL

(* A walk that its function lets run hands over all the items before it ends. *)
THEOREM AllItemsHandedOver == Safety => []NoItemLeftOut
<1>1. OnItems => NoItemLeftOut
  BY Zenon DEF OnItems, OnItemsOf, NoItemLeftOut
<1> QED BY <1>1, WalkOnItems, PTL
=============================================================================
