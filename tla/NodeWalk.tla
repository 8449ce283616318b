------------------------------ MODULE NodeWalk ------------------------------
(***************************************************************************)
(* ForEachArray and ForEachObject of package zeronode: the scan of a        *)
(* container that hands each item to a function of the caller, which may    *)
(* stop it.  One iteration of the loop, with its call, is one step.         *)
(*                                                                          *)
(* A document comes with what it holds: the items the function should be     *)
(* handed, with their types and places.                                     *)
(***************************************************************************)
EXTENDS Layout

CONSTANTS
    Documents,    \* texts of JSON values and their items
    IndexWrap,    \* 2^64, the width of idx
    NoCall

ASSUME WalkAssumption ==
    /\ \A d \in Documents : d.text \in Seq(STRING)
    /\ IndexWrap \in Nat \ {0}

(* No JSON value ends with a backslash.                                      *)
ASSUME TextAssumption ==
    \A d \in Documents : d.text # <<>> => d.text[Len(d.text)] # "\\"

(* A document that is a container has its items where JSON has them; an array *)
(* of 2^64 items fits in no memory.                                          *)
ASSUME LayoutAssumption ==
    \A d \in Documents : d.kind \in {"array", "object"} /\ d.bracketFree =>
        /\ Len(d.items) < IndexWrap
        /\ \E c \in 1 .. Len(d.text), e \in 1 .. Len(d.text) + 1 :
             Blank(d.text, 1, c) /\ Holds(d, c, e)

VARIABLES
    doc,          \* the document that is walked
    walk,         \* which function was called, "array" or "object"
    node,         \* the node it was called on
    pc,           \* "enter", "loop", "done"
    i,            \* where the loop stands in the document
    idx,          \* the count of calls, modulo IndexWrap
    call,         \* the last call: its index or key, and its node
    stopped       \* the function returned false

vars == <<doc, walk, node, pc, i, idx, call, stopped>>

Init ==
    /\ doc \in Documents
    /\ walk \in {"array", "object"}
    /\ node = FromBytes(doc.text)
    /\ pc = "enter"
    /\ i = 0
    /\ idx = 0
    /\ call = NoCall
    /\ stopped = FALSE

(* A node of another type is not walked.                                     *)
EnterWrongType ==
    /\ pc = "enter"
    /\ node.typ # (IF walk = "array" THEN "a" ELSE "o")
    /\ pc' = "done"
    /\ UNCHANGED <<doc, walk, node, i, idx, call, stopped>>

Enter ==
    /\ pc = "enter"
    /\ node.typ = (IF walk = "array" THEN "a" ELSE "o")
    /\ pc' = "loop"
    /\ i' = node.start + 1
    /\ UNCHANGED <<doc, walk, node, idx, call, stopped>>

(* The function answers true, and the loop goes on behind the value, or      *)
(* false, and the walk is over.                                              *)
Answered(v) ==
    \/ /\ i' = After(node, v)
       /\ idx' = (idx + 1) % IndexWrap
       /\ UNCHANGED <<pc, stopped>>
    \/ /\ pc' = "done"
       /\ stopped' = TRUE
       /\ UNCHANGED <<i, idx>>

(* fn(idx, element)                                                          *)
VisitElement ==
    /\ pc = "loop" /\ walk = "array"
    /\ HasElement(node, i)
    /\ \E v \in {NodeAt(node.raw, i)} :
         /\ call' = [index |-> idx, key |-> <<>>, node |-> v]
         /\ Answered(v)
    /\ UNCHANGED <<doc, walk, node>>

(* fn(key, value)                                                            *)
VisitMember ==
    /\ pc = "loop" /\ walk = "object"
    /\ HasMember(node, i)
    /\ \E v \in {MemberNode(node, i)} :
         /\ call' = [index |-> idx, key |-> MemberKey(node, i), node |-> v]
         /\ Answered(v)
    /\ UNCHANGED <<doc, walk, node>>

(* The close of the container, its end, or what is no key and no colon.      *)
Leave ==
    /\ pc = "loop"
    /\ ~ (IF walk = "array" THEN HasElement(node, i) ELSE HasMember(node, i))
    /\ pc' = "done"
    /\ UNCHANGED <<doc, walk, node, i, idx, call, stopped>>

Next == EnterWrongType \/ Enter \/ VisitElement \/ VisitMember \/ Leave

(* The loop of a running function goes on.                                   *)
Fairness == WF_vars(Next)

Safety == Init /\ [][Next]_vars
Spec == Safety /\ Fairness

-----------------------------------------------------------------------------
(* Properties.                                                               *)

(* The function that fits the document is called.                            *)
Fits == walk = doc.kind

(* The last call was for this item, and for all of it: the type of its node  *)
(* and the place where it starts are right, and its end is right up to the   *)
(* white space behind a literal.                                             *)
HandsOver(item) ==
    /\ call.key = item.key
    /\ call.node.typ = item.typ
    /\ call.node.start = item.start
    /\ call.node.end \in item.end ..
         item.end + (IF item.kind = "literal" THEN doc.blanks ELSE 0)

HandsOverItsItem ==
    /\ call.index < Len(doc.items)
    /\ HandsOver(doc.items[call.index + 1])

(* Every variable has its type, and no span leaves the document.             *)
TypeOK ==
    /\ walk \in {"array", "object"}
    /\ node.start \in 1 .. node.end /\ node.end <= Len(doc.text) + 1
    /\ pc \in {"enter", "loop", "done"}
    /\ i \in 0 .. Len(doc.text) + 1
    /\ idx \in 0 .. IndexWrap - 1
    /\ call # NoCall => /\ call.index \in 0 .. IndexWrap - 1
                        /\ call.node.start \in 1 .. call.node.end
                        /\ call.node.end <= Len(doc.text) + 1
    /\ stopped \in BOOLEAN

(* Call k of the walk hands over item k, whatever the layout of the text.    *)
(* The bracket counting of findValueEnd needs that no container has its own  *)
(* kind of bracket in a string; brackets of the other kind do no harm.       *)
ItemsHandedOver ==
    call # NoCall /\ Fits /\ doc.bracketFree => HandsOverItsItem

(* A walk that its function did not stop has handed over every item.         *)
NoItemLeftOut ==
    pc = "done" /\ ~ stopped /\ Fits /\ doc.bracketFree =>
        idx = Len(doc.items)

(* Each call is for a part of the document behind that of the last call: the  *)
(* spans never overlap and come in order, brackets in strings or not.  The   *)
(* value of a member starts further on, behind its key; so a walk of an       *)
(* object cannot stay where it is.                                           *)
SpansInOrder ==
    [][call # NoCall /\ call' # call =>
        /\ call'.node.start >= call.node.end
        /\ walk = "object" => call'.node.start > call.node.end]_vars

(* Every walk of an object ends, whatever its strings hold: each turn of the *)
(* loop needs a quote and a colon that are still ahead.  A walk of an array  *)
(* ends when the bracket counting is right.                                  *)
WalkEnds == (walk = "object" \/ doc.bracketFree) ~> pc = "done"
=============================================================================
