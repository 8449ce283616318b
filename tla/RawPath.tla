------------------------------ MODULE RawPath ------------------------------
(***************************************************************************)
(* Package raw (raw/raw.go): the text of the value at a path.  GetBytes     *)
(* reads the path as it goes; GetBytesByPlan follows a compiled plan.       *)
(*                                                                          *)
(* Keys are character sequences, as in a document, and NoName is the empty  *)
(* one.  An answer is what was found and whether it was.                    *)
(***************************************************************************)
EXTENDS ZeroNode, PathSyntax

NotFound == [ok |-> FALSE, bytes |-> <<>>]
Found(bytes) == [ok |-> TRUE, bytes |-> bytes]

TrimSpaceBytes(b) ==
    LET start == SelectInSeq(b, LAMBDA c : c \notin WhiteSpace)
        end == SelectLastInSeq(b, LAMBDA c : c \notin WhiteSpace)
    IN  IF start = 0 THEN <<>> ELSE SubSeq(b, start, end)

(* arrayIndex: ForEachArray with a function that stops at element want, as   *)
(* the walk of module NodeWalk does.  Where that walk stands still, its index *)
(* goes on, and comes to every want that is not negative.                    *)
ElementNode(n, want) ==
    LET scan[at \in Nat \X Nat] ==
          LET i == at[1]
              idx == at[2]
              from(v) == IF idx = want THEN v ELSE scan[<<After(n, v), idx + 1>>]
          IN  IF HasElement(n, i) THEN from(NodeAt(n.raw, i)) ELSE NoNode
    IN  IF n.typ = "a" THEN scan[<<n.start + 1, 0>>] ELSE NoNode

(* A step of a findByPath that forgets to skip the empty segments.           *)
StepOfEmptyToo(cur, tok) ==
    IF cur.typ = ZeroType THEN NoNode
    ELSE CASE tok.kind = "digits" -> ElementNode(cur, AtoiDigits(tok.value))
           [] tok.kind = "empty" -> GetBytes(cur, NoName)
           [] OTHER -> GetBytes(cur, tok.name)

(* One segment of findByPath: empty ones are skipped, digits take an element *)
(* of an array, other names a member of an object.                           *)
Step(cur, tok) ==
    IF cur.typ = ZeroType THEN NoNode
    ELSE CASE tok.kind = "empty" -> cur
           [] tok.kind = "digits" -> ElementNode(cur, AtoiDigits(tok.value))
           [] OTHER -> GetBytes(cur, tok.name)

FindByPath(b, path) == FoldLeft(Step, FromBytes(b), path)

ValueOf(n) == IF n.typ = ZeroType THEN NotFound ELSE Found(TrimSpaceBytes(Raw(n)))
RawGetBytes(b, path) == ValueOf(FindByPath(b, path))

WhereFound(n) == [found |-> n.typ # ZeroType, node |-> n]

(* A loop that goes on with the node it has when a seg is not found.         *)
FollowSegOrStay(at, sg) ==
    LET n == IF sg.key # NoName THEN GetBytes(at.node, sg.key)
                                ELSE ArrayIndex(at.node, sg.idx).node
    IN  [found |-> TRUE, node |-> IF n = NoNode THEN at.node ELSE n]

(* GetBytesByPlan: each seg by ObjectKey or ArrayIndex, from a node without  *)
(* a type, and in the end all the bytes the last node was cut from.          *)
FollowSeg(at, sg) ==
    IF ~ at.found THEN at
    ELSE IF sg.key # NoName THEN WhereFound(GetBytes(at.node, sg.key))
    ELSE ArrayIndex(at.node, sg.idx)

RawGetBytesByPlan(b, segs) ==
    LET answer(end) == IF end.found THEN Found(end.node.raw) ELSE NotFound
    IN  answer(FoldLeft(FollowSeg, [found |-> TRUE, node |-> New(b)], segs))
=============================================================================
