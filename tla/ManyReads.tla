----------------------------- MODULE ManyReads -----------------------------
(***************************************************************************)
(* GetManyInto of package zeronode, as it is meant to be used: a caller      *)
(* keeps one out buffer and reads many keys of one node after the other     *)
(* into it, so what an earlier read left there is what a later one finds.   *)
(***************************************************************************)
EXTENDS ZeroNode

CONSTANTS
    Texts,        \* documents, objects and others
    KeyLists,     \* lists of keys that are asked for
    OutLen        \* the length of the caller's buffer

ASSUME ReadAssumption ==
    /\ \A text \in Texts : text \in Seq(STRING)
    /\ \A asked \in KeyLists : asked \in Seq(Seq(STRING))
    /\ OutLen \in Nat

(* No text ends where the value of a member should be: that member would be   *)
(* counted as found, and have no type.                                       *)
ASSUME ValueAssumption ==
    \A text \in Texts :
        LET members == Members(FromBytes(text))
        IN  \A m \in DOMAIN members : members[m].node.typ # ZeroType

VARIABLES
    out,          \* the buffer
    node,         \* the node of the last read
    keys,         \* the keys of the last read
    count         \* what the last read returned

vars == <<out, node, keys, count>>

Init ==
    /\ out = [k \in 1 .. OutLen |-> NoNode]
    /\ node = NoNode
    /\ keys = <<>>
    /\ count = 0

ReadMany ==
    \E text \in Texts, asked \in KeyLists :
        \E read \in {GetManyInto(FromBytes(text), asked, out)} :
            /\ node' = FromBytes(text)
            /\ keys' = asked
            /\ out' = read.out
            /\ count' = read.count

Next == ReadMany

Spec == Init /\ [][Next]_vars

-----------------------------------------------------------------------------
(* Properties.                                                               *)

Distinct(s) == \A j, k \in DOMAIN s : s[j] = s[k] => j = k

Hits == {k \in DOMAIN keys : out[k].typ # ZeroType}

(* out[k] answers as Get does: the same node, or nothing.                    *)
AnswersAsGet(k) ==
    LET n == GetBytes(node, keys[k])
    IN  IF n = NoNode THEN out[k].typ = ZeroType ELSE out[k] = n

(* After a read of an object for different keys, whatever the buffer held,    *)
(* each entry is what Get finds for its key: the one scan answers as many.   *)
OneScanAnswersAsGets ==
    Scannable(node, keys, out) /\ Distinct(keys) =>
        /\ \A k \in DOMAIN keys : AnswersAsGet(k)
        /\ count = Cardinality(Hits)

(* A read touches no entry behind those of its keys: a caller may keep the    *)
(* nodes of an earlier read there.                                           *)
RestUntouched == [][\A k \in 1 .. OutLen : k > Len(keys') => out'[k] = out[k]]_vars
=============================================================================
