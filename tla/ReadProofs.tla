------------------------------ MODULE ReadProofs ------------------------------
(***************************************************************************)
(* Proofs about reads by key, by index and by path.  Of any text: a batch of  *)
(* keys read by GetManyInto, read after read, and GetPathFast.  Of texts that *)
(* are laid out as JSON: that GetBytes, GetManyInto, the walk of an array and *)
(* raw.GetBytes land on what the text has there, and that the scan for a top  *)
(* key finds it.  Of the text of an integer: that it is read as it is written. *)
(***************************************************************************)
EXTENDS ManyReads, Lookups, TopKeyScan, Numerals, Lemmas, FiniteSetTheorems

(* The types a node may have, none included.                                *)
Letters == {ZeroType, "o", "a", "s", "b", "l", "n"}

Nodes == [raw : Seq(STRING), start : Nat, end : Nat, typ : Letters]

(* The members a loop over n may meet.                                       *)
MemberSet(n) ==
    {[key |-> MemberKey(n, i), node |-> MemberNode(n, i)] : i \in Nat}

-----------------------------------------------------------------------------
(* What is read from a text.                                                 *)

(* A type is one of the letters, whatever a text holds.                      *)
LEMMA TypeAtIsLetter ==
    ASSUME NEW b, NEW i
    PROVE  TypeAt(b, i) \in Letters
<1>1. CASE i > Len(b)
  BY <1>1, Zenon DEF TypeAt, Letters
<1>2. CASE ~ (i > Len(b))
  <2> DEFINE c == b[i]
  <2>1. TypeAt(b, i) =
          CASE c = "{" -> "o"
            [] c = "[" -> "a"
            [] c = QuoteMark -> "s"
            [] c \in {"t", "f"} -> "b"
            [] c = "n" -> "l"
            [] OTHER -> "n"
    BY <1>2, Zenon DEF TypeAt
  <2>2. QuoteMark \notin {"{", "[", "t", "f", "n"}
    BY Zenon DEF QuoteMark
  <2> HIDE DEF c
  <2>3. TypeAt(b, i) \in {"o", "a", "s", "b", "l", "n"}
    BY <2>1, <2>2, Zenon
  <2> QED BY <2>3, Zenon DEF Letters
<1> QED BY <1>1, <1>2

(* What is read from behind a position is a node.                            *)
LEMMA NodeAtIsNode ==
    ASSUME NEW b \in Seq(STRING), NEW i \in Nat
    PROVE  NodeAt(b, i) \in Nodes
<1>1. Len(b) \in Nat
  OBVIOUS
<1> DEFINE s == SkipSpaces(b, i)
<1>2. s \in Nat
  BY <1>1, SkipSpacesMoves
<1>3. NodeAt(b, i) = [raw |-> b, start |-> s, end |-> FindValueEnd(b, s),
                      typ |-> TypeAt(b, s)]
  BY DEF NodeAt
<1> HIDE DEF s
<1>4. FindValueEnd(b, s) \in Nat
  BY <1>2, FindValueEndMoves
<1>5. TypeAt(b, s) \in Letters
  BY TypeAtIsLetter
<1> QED BY <1>2, <1>3, <1>4, <1>5 DEF Nodes

(* The empty node is a node.                                                 *)
LEMMA NoNodeIsNode == NoNode \in Nodes
<1>1. ZeroType \in Letters
  BY Zenon DEF Letters
<1>2. <<>> \in Seq(STRING)
  OBVIOUS
<1> QED BY <1>1, <1>2 DEF NoNode, Nodes

(* FromBytes answers with a node, of any text.                               *)
LEMMA FromBytesIsNode ==
    ASSUME NEW b \in Seq(STRING)
    PROVE  FromBytes(b) \in Nodes
BY NodeAtIsNode, NoNodeIsNode DEF FromBytes

(* The value of a member is behind i, and the loop goes on behind that.      *)
LEMMA MemberMoves ==
    ASSUME NEW n \in Nodes, NEW i \in Nat
    PROVE  /\ MemberNode(n, i) \in Nodes
           /\ After(n, MemberNode(n, i)) \in Nat
           /\ After(n, MemberNode(n, i)) > i
<1>1. n.raw \in Seq(STRING) /\ n.end \in Nat
  BY DEF Nodes
<1> DEFINE c == Colon(n, i) + 1
           v == MemberNode(n, i)
<1>2. c \in Nat \ {0} /\ c > i
  <2>1. Colon(n, i) \in Nat /\ Colon(n, i) >= i
    BY <1>1, ColonMoves
  <2> QED BY <2>1
<1>3. v = NodeAt(n.raw, c)
  BY DEF MemberNode
<1> HIDE DEF c, v
<1>4. v \in Nodes
  BY <1>1, <1>2, <1>3, NodeAtIsNode
<1>5. v.start \in Nat /\ v.start >= c /\ v.end \in Nat /\ v.end >= v.start
  BY <1>1, <1>2, <1>3, NodeAtMoves
<1>6. After(n, v) \in Nat /\ After(n, v) >= v.end
  BY <1>1, <1>5, AfterMoves
<1>7. After(n, v) > i
  BY <1>2, <1>5, <1>6
<1> QED BY <1>4, <1>6, <1>7 DEF v

(* A sequence with one more element in front.                                *)
LEMMA InFront ==
    ASSUME NEW R, NEW e \in R, NEW s \in Seq(R)
    PROVE  <<e>> \o s \in Seq(R)
OBVIOUS

(* What the loop makes from each position on, u, is one member more than from  *)
(* the position behind it.                                                   *)
Scan(n, u) ==
    \A i \in Nat :
        /\ u[i] \in Seq(MemberSet(n))
        /\ u[i] = IF HasMember(n, i)
                  THEN <<[key |-> MemberKey(n, i), node |-> MemberNode(n, i)]>>
                       \o u[After(n, MemberNode(n, i))]
                  ELSE <<>>

(* The loop ends: it makes a sequence of the members of n.                   *)
LEMMA MembersUnfold ==
    ASSUME NEW n \in Nodes
    PROVE  \E u : /\ Members(n) = IF n.typ = "o" THEN u[n.start + 1] ELSE <<>>
                  /\ Scan(n, u)
<1> DEFINE S == Nat
           R == MemberSet(n)
           V == Seq(R)
           pos == [i \in S |-> i]
           Ends == {i \in S : ~ HasMember(n, i)}
           item(i) == [key |-> MemberKey(n, i), node |-> MemberNode(n, i)]
           next == [i \in S |-> After(n, MemberNode(n, i))]
           val == [i \in S |-> <<>>]
           up == [x \in S \X V |-> <<item(x[1])>> \o x[2]]
           rhs(f, i) == IF HasMember(n, i)
                        THEN <<item(i)>> \o f[After(n, MemberNode(n, i))] ELSE <<>>
           Eq(f) == f = [i \in Nat |-> rhs(f, i)]
           u == CHOOSE f : Eq(f)
<1>1. Members(n) = IF n.typ = "o" THEN u[n.start + 1] ELSE <<>>
  BY DEF Members
<1>2. n.end \in Nat /\ pos \in [S -> Nat] /\ Ends \in SUBSET S
  BY DEF Nodes
<1>3. next \in [S -> S] /\ \A i \in S : pos[next[i]] > pos[i]
  BY MemberMoves
<1>4. \A i \in S : pos[i] > n.end => i \in Ends
  BY DEF HasMember, Nodes
<1>5. val \in [S -> V]
  <2>1. <<>> \in V
    OBVIOUS
  <2> QED BY <2>1
<1>6. up \in [S \X V -> V]
  <2>1. ASSUME NEW i \in S, NEW s \in V
        PROVE  <<item(i)>> \o s \in V
    <3>1. item(i) \in R
      BY DEF MemberSet
    <3> HIDE DEF item, R
    <3> QED BY <3>1, InFront
  <2> HIDE DEF item, V
  <2> QED BY <2>1
<1>7. ASSUME NEW f, NEW i \in S
      PROVE  rhs(f, i) = IF i \in Ends THEN val[i] ELSE <<item(i)>> \o f[next[i]]
  OBVIOUS
<1>8. ASSUME NEW f \in [S -> V], NEW i \in S
      PROVE  up[<<i, f[next[i]]>>] = <<item(i)>> \o f[next[i]]
  <2>1. f[next[i]] \in V
    BY <1>3
  <2> HIDE DEF V, item, next
  <2> QED BY <2>1
<1>9. n.start + 1 \in S
  BY DEF Nodes
<1> HIDE DEF S, V, pos, Ends, next, val, up, rhs, item
<1>10. Moves(S, n.end, pos, Ends, next)
  BY <1>2, <1>3, <1>4 DEF Moves
<1>11. PICK f \in [S -> V] : Builds(f, S, Ends, next, val, up)
  BY <1>10, <1>5, <1>6, BuildExists
<1>12. Eq(f)
  BY <1>7, <1>8, <1>11 DEF Builds, S
<1> HIDE DEF Eq
<1>13. Eq(u)
  BY <1>12
<1> HIDE DEF u
<1>14. \A i \in S : u[i] = IF i \in Ends THEN val[i] ELSE <<item(i)>> \o u[next[i]]
  BY <1>7, <1>13 DEF Eq, S
<1> DEFINE P == {i \in S : u[i] \in V}
<1>15. ASSUME NEW i \in S, i \in Ends
       PROVE  i \in P
  BY <1>5, <1>14, <1>15
<1>16. ASSUME NEW i \in S, i \notin Ends, next[i] \in P
       PROVE  i \in P
  <2>1. u[i] = <<item(i)>> \o u[next[i]]
    BY <1>14, <1>16
  <2>2. item(i) \in R /\ u[next[i]] \in V
    BY <1>16 DEF item, MemberSet, S
  <2> HIDE DEF R
  <2>3. u[i] \in V
    BY <2>1, <2>2, InFront DEF V
  <2> QED BY <2>3
<1> HIDE DEF P
<1>17. \A i \in S : i \in P
  <2>1. Inherited(S, Ends, next, P)
    BY <1>15, <1>16 DEF Inherited
  <2> QED BY <1>10, <2>1, WalkInduction
<1>18. \A i \in Nat : u[i] \in V
  BY <1>17 DEF P, S
<1>19. \A i \in Nat : u[i] = rhs(u, i)
  BY <1>13 DEF Eq
<1>20. Scan(n, u)
  BY Zenon, <1>18, <1>19 DEF Scan, V, rhs, item
<1> QED BY Zenon, <1>1, <1>20

(* The loop makes a sequence of the members of n.                            *)
LEMMA MembersAreMembers ==
    ASSUME NEW n \in Nodes
    PROVE  Members(n) \in Seq(MemberSet(n))
<1>1. PICK u : /\ Members(n) = IF n.typ = "o" THEN u[n.start + 1] ELSE <<>>
               /\ Scan(n, u)
  BY Zenon, MembersUnfold
<1>2. n.start + 1 \in Nat
  BY DEF Nodes
<1>3. u[n.start + 1] \in Seq(MemberSet(n))
  BY Zenon, <1>1, <1>2 DEF Scan
<1>4. <<>> \in Seq(MemberSet(n))
  OBVIOUS
<1> QED BY Zenon, <1>1, <1>3, <1>4

(* The members of a node, and where GetBytes finds a key among them.          *)
LEMMA MembersTyped ==
    ASSUME NEW n \in Nodes
    PROVE  /\ Len(Members(n)) \in Nat
           /\ DOMAIN Members(n) = 1 .. Len(Members(n))
           /\ \A m \in 1 .. Len(Members(n)) : Members(n)[m].node \in Nodes
<1> DEFINE ms == Members(n)
<1>1. ms \in Seq(MemberSet(n))
  BY MembersAreMembers
<1>2. \A mb \in MemberSet(n) : mb.node \in Nodes
  BY MemberMoves DEF MemberSet
<1> HIDE DEF ms
<1>3. /\ Len(ms) \in Nat
      /\ DOMAIN ms = 1 .. Len(ms)
      /\ \A m \in 1 .. Len(ms) : ms[m] \in MemberSet(n)
  BY <1>1
<1> QED BY <1>2, <1>3 DEF ms

(* NodeOf answers with the first member that has the key.                    *)
LEMMA NodeOfFirst ==
    ASSUME NEW ms, Len(ms) \in Nat, NEW key
    PROVE  /\ (\A m \in 1 .. Len(ms) : ms[m].key # key) => NodeOf(ms, key) = NoNode
           /\ \A m \in 1 .. Len(ms) :
                ms[m].key = key /\ (\A l \in 1 .. m - 1 : ms[l].key # key) =>
                    NodeOf(ms, key) = ms[m].node
<1> DEFINE I == {m \in 1 .. Len(ms) : ms[m].key = key}
           at == IF I # {} THEN Min(I) ELSE 0
<1>1. NodeOf(ms, key) = IF at = 0 THEN NoNode ELSE ms[at].node
  BY DEF NodeOf, SelectInSeq
<1>2. CASE I = {}
  BY <1>1, <1>2
<1>3. CASE I # {}
  <2>1. I \in SUBSET Nat
    OBVIOUS
  <2>2. PICK m \in I : \A k \in I : m <= k
    BY <1>3, <2>1, Least
  <2>3. \A k \in I : (\A l \in I : k <= l) => k = m
    BY <2>1, <2>2
  <2>4. at = m
    BY <1>3, <2>2, <2>3 DEF Min
  <2>5. m \in 1 .. Len(ms) /\ ms[m].key = key /\ NodeOf(ms, key) = ms[m].node
    BY <1>1, <2>2, <2>4
  <2>6. ASSUME NEW k \in 1 .. Len(ms), ms[k].key = key,
               \A l \in 1 .. k - 1 : ms[l].key # key
        PROVE  k = m
    <3>1. k \in I /\ m <= k
      BY <2>2, <2>6
    <3>2. m \notin 1 .. k - 1
      BY <2>5, <2>6
    <3> QED BY <2>5, <3>1, <3>2
  <2> QED BY <2>5, <2>6
<1> QED BY <1>2, <1>3

-----------------------------------------------------------------------------
(* One scan.                                                                 *)

(* What the scan of a list of keys works on: a buffer of any content.         *)
Buffers(len) == [1 .. len -> Nodes]
States(len) == [out : Buffers(len), remain : Int]

(* A free key is picked for a member.                                        *)
LEMMA HandOutOne ==
    ASSUME NEW len \in Nat, NEW ks \in Seq(Seq(STRING)), Len(ks) <= len,
           NEW s \in States(len), NEW mb, mb.node \in Nodes
    PROVE  /\ HandOut(ks, s, mb) \in States(len)
           /\ \/ /\ HandOut(ks, s, mb) = s
                 /\ s.remain = 0 \/ FreeFor(ks, s.out, mb) = {}
              \/ \E j \in FreeFor(ks, s.out, mb) :
                    /\ j \in 1 .. Len(ks) /\ j \in 1 .. len
                    /\ HandOut(ks, s, mb) =
                         [out |-> [s.out EXCEPT ![j] = mb.node], remain |-> s.remain - 1]
<1> DEFINE free == FreeFor(ks, s.out, mb)
           j == Min(free)
<1>1. CASE s.remain = 0 \/ free = {}
  BY <1>1 DEF HandOut
<1>2. CASE ~ (s.remain = 0 \/ free = {})
  <2>1. free \in SUBSET (1 .. Len(ks))
    BY DEF FreeFor, NamedBy
  <2>2. free \in SUBSET Nat
    BY <2>1
  <2>3. \E k \in free : \A l \in free : k <= l
    BY <1>2, <2>2, Least
  <2>4. j \in free
    BY <2>3 DEF Min
  <2>5. j \in 1 .. Len(ks) /\ j \in 1 .. len
    BY <2>1, <2>4
  <2>6. HandOut(ks, s, mb) =
          [out |-> [s.out EXCEPT ![j] = mb.node], remain |-> s.remain - 1]
    BY <1>2 DEF HandOut
  <2> HIDE DEF j
  <2>7. [s.out EXCEPT ![j] = mb.node] \in Buffers(len) /\ s.remain - 1 \in Int
    BY <2>5 DEF States, Buffers
  <2>8. HandOut(ks, s, mb) \in States(len)
    BY <2>6, <2>7 DEF States
  <2> QED BY <2>4, <2>5, <2>6, <2>8
<1> QED BY <1>1, <1>2

(* The scan hands o the members one by one.                                *)
LEMMA HandOutSteps ==
    ASSUME NEW len \in Nat, NEW ks \in Seq(Seq(STRING)), Len(ks) <= len,
           NEW o \in Buffers(len), NEW ms, Len(ms) \in Nat,
           \A m \in 1 .. Len(ms) : ms[m].node \in Nodes
    PROVE  \E f \in [0 .. Len(ms) -> States(len)] :
             /\ f[0] = [out |-> Cleared(ks, o), remain |-> Len(ks)]
             /\ \A m \in 1 .. Len(ms) : f[m] = HandOut(ks, f[m - 1], ms[m])
             /\ HandOutAll(ks, o, ms) = f[Len(ms)]
<1> DEFINE n == Len(ms)
           V == States(len)
           base == [out |-> Cleared(ks, o), remain |-> Len(ks)]
           step == [x \in V \X (1 .. n) |-> HandOut(ks, x[1], ms[x[2]])]
           Eq(f) == f = [k \in 0 .. Len(ms) |->
                           IF k = 0 THEN [out |-> Cleared(ks, o), remain |-> Len(ks)]
                                    ELSE HandOut(ks, f[k - 1], ms[k])]
           u == CHOOSE f : Eq(f)
<1>1. base \in V
  <2>1. \A j \in 1 .. len : [o[j] EXCEPT !.typ = ZeroType] \in Nodes
    BY DEF Buffers, Nodes, Letters
  <2>2. Cleared(ks, o) \in Buffers(len)
    BY <2>1 DEF Cleared, Buffers
  <2> QED BY <2>2 DEF States
<1>2. step \in [V \X (1 .. n) -> V]
  BY HandOutOne
<1>3. HandOutAll(ks, o, ms) = u[n]
  BY DEF HandOutAll
<1>4. \A v \in V, k \in 1 .. n : step[<<v, k>>] = HandOut(ks, v, ms[k])
  OBVIOUS
<1>5. n \in Nat
  OBVIOUS
<1> HIDE DEF V, step, base, n
<1>6. PICK f \in [0 .. n -> V] : Steps(f, n, base, step)
  BY <1>1, <1>2, <1>5, StepsExist
<1>7. \A k \in 1 .. n : f[k] = HandOut(ks, f[k - 1], ms[k])
  <2> TAKE k \in 1 .. n
  <2>1. k - 1 \in 0 .. n
    BY <1>5
  <2>2. f[k - 1] \in V
    BY <2>1
  <2> QED BY <1>4, <1>6, <2>2 DEF Steps
<1>8. Eq(f)
  <2> DEFINE rhs == [k \in 0 .. n |-> IF k = 0 THEN base ELSE HandOut(ks, f[k - 1], ms[k])]
  <2>1. \A k \in 0 .. n : f[k] = IF k = 0 THEN base ELSE HandOut(ks, f[k - 1], ms[k])
    <3> TAKE k \in 0 .. n
    <3>1. k = 0 \/ (k \in 1 .. n /\ k # 0)
      BY <1>5
    <3>2. f[0] = base
      BY Zenon, <1>6 DEF Steps
    <3> QED BY Zenon, <1>7, <3>1, <3>2
  <2>2. f = rhs
    BY <2>1
  <2> QED BY <2>2 DEF n, base
<1> HIDE DEF Eq
<1>9. Eq(u)
  BY <1>8
<1> HIDE DEF u
<1>10. u = [k \in 0 .. n |-> IF k = 0 THEN base ELSE HandOut(ks, u[k - 1], ms[k])]
  BY <1>9 DEF Eq, base, n
<1>11. /\ u[0] = base
       /\ \A k \in 1 .. n : u[k] = HandOut(ks, u[k - 1], ms[k])
  BY <1>5, <1>10
<1> DEFINE P == {k \in Nat : k <= n => u[k] \in V}
<1>12. \A k \in Nat : k \in P
  <2>1. 0 \in P
    BY <1>1, <1>11
  <2>2. ASSUME NEW k \in Nat, k \in P
        PROVE  k + 1 \in P
    <3>1. SUFFICES ASSUME k + 1 <= n PROVE u[k + 1] \in V
      OBVIOUS
    <3>2. u[k] \in V /\ k + 1 \in 1 .. n
      BY <1>5, <2>2, <3>1
    <3>3. u[k + 1] = HandOut(ks, u[k], ms[k + 1])
      BY <1>11, <3>2
    <3> QED BY <3>2, <3>3, HandOutOne DEF V, n
  <2> HIDE DEF P
  <2> QED BY <2>1, <2>2, Induction
<1>13. u \in [0 .. n -> V]
  <2>1. \A k \in 0 .. n : u[k] \in V
    BY <1>5, <1>12
  <2> QED BY <1>10, <2>1
<1> QED BY <1>3, <1>11, <1>13 DEF V, n, base

(* The scan leaves the entries behind those of the keys alone.               *)
LEMMA HandOutAllKeeps ==
    ASSUME NEW len \in Nat, NEW ks \in Seq(Seq(STRING)), Len(ks) <= len,
           NEW o \in Buffers(len), NEW ms, Len(ms) \in Nat,
           \A m \in 1 .. Len(ms) : ms[m].node \in Nodes
    PROVE  /\ HandOutAll(ks, o, ms) \in States(len)
           /\ \A j \in 1 .. len : j > Len(ks) => HandOutAll(ks, o, ms).out[j] = o[j]
<1> DEFINE n == Len(ms)
           Kept(s) == \A j \in 1 .. len : j > Len(ks) => s.out[j] = o[j]
<1>1. PICK f \in [0 .. n -> States(len)] :
        /\ f[0] = [out |-> Cleared(ks, o), remain |-> Len(ks)]
        /\ \A m \in 1 .. n : f[m] = HandOut(ks, f[m - 1], ms[m])
        /\ HandOutAll(ks, o, ms) = f[n]
  BY HandOutSteps
<1>2. n \in Nat /\ Len(ks) \in Nat /\ DOMAIN ks = 1 .. Len(ks)
  OBVIOUS
<1> DEFINE P == {m \in Nat : m <= n => Kept(f[m])}
<1>3. 0 \in P
  <2>1. f[0].out = Cleared(ks, o)
    BY <1>1
  <2>2. \A j \in 1 .. len : j > Len(ks) => Cleared(ks, o)[j] = o[j]
    BY <1>2 DEF Cleared, Buffers
  <2> QED BY <2>1, <2>2
<1>4. ASSUME NEW m \in Nat, m \in P
      PROVE  m + 1 \in P
  <2>1. SUFFICES ASSUME m + 1 <= n PROVE Kept(f[m + 1])
    OBVIOUS
  <2>2. m \in 0 .. n /\ m + 1 \in 1 .. n /\ Kept(f[m])
    BY <1>2, <1>4, <2>1
  <2> HIDE DEF n
  <2> DEFINE s == f[m]
             mb == ms[m + 1]
  <2>3. f[m + 1] = HandOut(ks, s, mb)
    BY <1>1, <2>2
  <2>4. s \in States(len) /\ mb.node \in Nodes /\ Kept(s)
    BY <1>1, <2>2 DEF n
  <2> HIDE DEF s, mb
  <2>5. \/ HandOut(ks, s, mb) = s
        \/ \E j \in 1 .. Len(ks) :
             HandOut(ks, s, mb) =
               [out |-> [s.out EXCEPT ![j] = mb.node], remain |-> s.remain - 1]
    BY <2>4, HandOutOne
  <2>6. CASE HandOut(ks, s, mb) = s
    BY <2>3, <2>4, <2>6
  <2>7. ASSUME NEW j \in 1 .. Len(ks),
               HandOut(ks, s, mb) =
                 [out |-> [s.out EXCEPT ![j] = mb.node], remain |-> s.remain - 1]
        PROVE  Kept(f[m + 1])
    <3>1. f[m + 1].out = [s.out EXCEPT ![j] = mb.node]
      BY <2>3, <2>7
    <3>2. \A k \in 1 .. len : k # j => f[m + 1].out[k] = s.out[k]
      BY <2>4, <3>1 DEF States, Buffers
    <3>3. \A k \in 1 .. len : k > Len(ks) => k # j
      BY <1>2
    <3> QED BY Zenon, <2>4, <3>2, <3>3
  <2> QED BY <2>5, <2>6, <2>7
<1> HIDE DEF P
<1>5. n \in P
  BY <1>2, <1>3, <1>4, Induction
<1> QED BY <1>1, <1>2, <1>5 DEF P

(* Entry j holds what the first m members have for its key: nothing, or the   *)
(* node of the first of them with the key.                                   *)
Answered(ks, ms, m, o, j) ==
    \/ /\ o[j].typ = ZeroType
       /\ \A l \in 1 .. m : ms[l].key # ks[j]
    \/ \E l \in 1 .. m :
         /\ ms[l].key = ks[j]
         /\ \A i \in 1 .. l - 1 : ms[i].key # ks[j]
         /\ o[j] = ms[l].node

HitsOf(ks, o) == {j \in 1 .. Len(ks) : o[j].typ # ZeroType}

(* What the scan has done with the first m members.                          *)
Right(ks, ms, m, s) ==
    /\ \A j \in 1 .. Len(ks) : Answered(ks, ms, m, s.out, j)
    /\ s.remain = Len(ks) - Cardinality(HitsOf(ks, s.out))

(* The hits of a buffer are keys, and when there are as many, all of them.     *)
LEMMA HitsAreKeys ==
    ASSUME NEW ks \in Seq(Seq(STRING)), NEW o
    PROVE  /\ IsFiniteSet(HitsOf(ks, o))
           /\ Cardinality(HitsOf(ks, o)) \in Nat
           /\ Cardinality(HitsOf(ks, o)) = Len(ks) => HitsOf(ks, o) = 1 .. Len(ks)
<1>1. Len(ks) \in Nat
  OBVIOUS
<1> DEFINE All == 1 .. Len(ks)
           Some == HitsOf(ks, o)
<1>2. IsFiniteSet(All) /\ Cardinality(All) = Len(ks)
  <2>1. \A n \in Nat : n \in Int /\ (1 > n => n = 0) /\ (n - 1) + 1 = n
    OBVIOUS
  <2>2. Len(ks) \in Int /\ 1 \in Int
    BY <1>1
  <2>3. /\ IsFiniteSet(1 .. Len(ks))
        /\ Cardinality(1 .. Len(ks)) = IF 1 > Len(ks) THEN 0 ELSE Len(ks) - 1 + 1
    BY <2>2, FS_Interval
  <2> QED BY <1>1, <2>1, <2>3
<1>3. Some \in SUBSET All
  BY DEF HitsOf
<1> HIDE DEF All, Some
<1>4. /\ IsFiniteSet(Some)
      /\ Cardinality(All) = Cardinality(Some) => All = Some
  BY <1>2, <1>3, FS_Subset
<1>5. Cardinality(Some) \in Nat
  BY <1>4, FS_CardinalityType
<1> QED BY <1>2, <1>4, <1>5 DEF All, Some

(* With different keys, and members that all have a type, handing out one     *)
(* more member keeps that right.                                             *)
LEMMA HandOutRight ==
    ASSUME NEW len \in Nat, NEW ks \in Seq(Seq(STRING)), Len(ks) <= len, Distinct(ks),
           NEW ms, NEW n \in Nat,
           \A m \in 1 .. n : ms[m].node \in Nodes /\ ms[m].node.typ # ZeroType,
           NEW s \in States(len), NEW m \in Nat, m + 1 <= n, Right(ks, ms, m, s)
    PROVE  Right(ks, ms, m + 1, HandOut(ks, s, ms[m + 1]))
<1> DEFINE mb == ms[m + 1]
           t == HandOut(ks, s, mb)
<1>1. m + 1 \in 1 .. n /\ mb.node \in Nodes /\ mb.node.typ # ZeroType
  <2>1. m + 1 \in 1 .. n
    OBVIOUS
  <2> QED BY <2>1
<1>2. Len(ks) \in Nat /\ DOMAIN ks = 1 .. Len(ks)
  OBVIOUS
<1>3. ASSUME NEW j \in 1 .. Len(ks), s.out[j].typ # ZeroType
      PROVE  Answered(ks, ms, m + 1, s.out, j)
  <2>1. \E l \in 1 .. m :
         /\ ms[l].key = ks[j]
         /\ \A i \in 1 .. l - 1 : ms[i].key # ks[j]
         /\ s.out[j] = ms[l].node
    BY <1>3 DEF Right, Answered
  <2>2. \A l \in 1 .. m : l \in 1 .. m + 1
    OBVIOUS
  <2> QED BY <2>1, <2>2 DEF Answered
<1>4. ASSUME NEW j \in 1 .. Len(ks), ks[j] # mb.key
      PROVE  Answered(ks, ms, m + 1, s.out, j)
  <2>1. Answered(ks, ms, m, s.out, j)
    BY DEF Right
  <2>2. CASE s.out[j].typ # ZeroType
    BY <1>3, <2>2
  <2>3. CASE s.out[j].typ = ZeroType /\ \A l \in 1 .. m : ms[l].key # ks[j]
    <3>1. \A l \in 1 .. m + 1 : l \in 1 .. m \/ l = m + 1
      OBVIOUS
    <3>2. \A l \in 1 .. m + 1 : ms[l].key # ks[j]
      BY <1>4, <2>3, <3>1
    <3> QED BY <2>3, <3>2 DEF Answered
  <2>4. \A l \in 1 .. m : ms[l].node.typ # ZeroType
    BY <1>1
  <2> QED BY <2>1, <2>2, <2>3, <2>4 DEF Answered
<1>5. \/ t = s /\ (s.remain = 0 \/ FreeFor(ks, s.out, mb) = {})
      \/ \E j \in FreeFor(ks, s.out, mb) :
           /\ j \in 1 .. Len(ks) /\ j \in 1 .. len
           /\ t = [out |-> [s.out EXCEPT ![j] = mb.node], remain |-> s.remain - 1]
  BY <1>1, HandOutOne
<1> HIDE DEF mb, t
<1>6. CASE t = s /\ s.remain = 0
  <2>1. HitsOf(ks, s.out) = 1 .. Len(ks)
    BY <1>2, <1>6, HitsAreKeys DEF Right
  <2>2. \A j \in 1 .. Len(ks) : s.out[j].typ # ZeroType
    BY <2>1 DEF HitsOf
  <2> QED BY <1>3, <1>6, <2>2 DEF Right, t, mb
<1>7. CASE t = s /\ FreeFor(ks, s.out, mb) = {}
  <2>1. \A j \in 1 .. Len(ks) : ks[j] = mb.key => s.out[j].typ # ZeroType
    BY <1>2, <1>7 DEF FreeFor, NamedBy
  <2> QED BY <1>3, <1>4, <1>7, <2>1 DEF Right, t, mb
<1>8. ASSUME NEW j \in FreeFor(ks, s.out, mb), j \in 1 .. Len(ks), j \in 1 .. len,
             t = [out |-> [s.out EXCEPT ![j] = mb.node], remain |-> s.remain - 1]
      PROVE  Right(ks, ms, m + 1, t)
  <2>1. ks[j] = mb.key /\ s.out[j].typ = ZeroType
    BY DEF FreeFor, NamedBy
  <2>2. /\ t.remain = s.remain - 1
        /\ t.out = [s.out EXCEPT ![j] = mb.node]
    BY <1>8
  <2>3. /\ t.out[j] = mb.node
        /\ \A k \in 1 .. len : k # j => t.out[k] = s.out[k]
    BY <1>8, <2>2 DEF States, Buffers
  <2>4. \A k \in 1 .. Len(ks) : k # j => ks[k] # mb.key
    BY <1>2, <1>8, <2>1 DEF Distinct
  <2>5. Answered(ks, ms, m + 1, t.out, j)
    <3>1. \A l \in 1 .. m : ms[l].node.typ # ZeroType
      BY <1>1
    <3>2. \A l \in 1 .. m : ms[l].key # ks[j]
      BY <1>8, <2>1, <3>1 DEF Right, Answered
    <3>3. m + 1 \in 1 .. m + 1 /\ (m + 1) - 1 = m
      OBVIOUS
    <3>4. \A i \in 1 .. (m + 1) - 1 : ms[i].key # ks[j]
      BY <3>2, <3>3
    <3> QED BY <2>1, <2>3, <3>3, <3>4 DEF Answered, mb
  <2>6. ASSUME NEW k \in 1 .. Len(ks), k # j
        PROVE  Answered(ks, ms, m + 1, t.out, k)
    <3>1. t.out[k] = s.out[k]
      BY <1>2, <2>3, <2>6
    <3>2. Answered(ks, ms, m + 1, s.out, k)
      BY <1>4, <2>4, <2>6
    <3> QED BY <3>1, <3>2 DEF Answered
  <2>7. t.remain = Len(ks) - Cardinality(HitsOf(ks, t.out))
    <3> DEFINE H == HitsOf(ks, s.out)
    <3>1. IsFiniteSet(H) /\ Cardinality(H) \in Nat
      BY HitsAreKeys
    <3>2. j \notin H
      BY <2>1 DEF HitsOf
    <3>3. HitsOf(ks, t.out) = H \cup {j}
      <4>1. \A k \in 1 .. Len(ks) : k \in 1 .. len
        BY <1>2
      <4> QED BY <1>1, <1>8, <2>3, <4>1 DEF HitsOf, mb
    <3> HIDE DEF H
    <3>4. Cardinality(H \cup {j}) = Cardinality(H) + 1
      BY <3>1, <3>2, FS_AddElement
    <3>5. s.remain = Len(ks) - Cardinality(H)
      BY DEF Right, H
    <3>6. Cardinality(HitsOf(ks, t.out)) = Cardinality(H) + 1
      BY <3>3, <3>4
    <3>7. \A a, c \in Nat : (a - c) - 1 = a - (c + 1)
      OBVIOUS
    <3>8. s.remain - 1 = Len(ks) - (Cardinality(H) + 1)
      BY <1>2, <3>1, <3>5, <3>7
    <3> QED BY <2>2, <3>6, <3>8
  <2> QED BY <2>5, <2>6, <2>7 DEF Right
<1> QED BY <1>5, <1>6, <1>7, <1>8 DEF t, mb

(* So the whole scan is right.                                               *)
LEMMA ScanRight ==
    ASSUME NEW len \in Nat, NEW ks \in Seq(Seq(STRING)), Len(ks) <= len, Distinct(ks),
           NEW o \in Buffers(len), NEW ms, Len(ms) \in Nat,
           \A m \in 1 .. Len(ms) : ms[m].node \in Nodes /\ ms[m].node.typ # ZeroType
    PROVE  Right(ks, ms, Len(ms), HandOutAll(ks, o, ms))
<1> DEFINE n == Len(ms)
<1>1. PICK f \in [0 .. n -> States(len)] :
        /\ f[0] = [out |-> Cleared(ks, o), remain |-> Len(ks)]
        /\ \A m \in 1 .. n : f[m] = HandOut(ks, f[m - 1], ms[m])
        /\ HandOutAll(ks, o, ms) = f[n]
  BY HandOutSteps
<1>2. n \in Nat /\ Len(ks) \in Nat /\ DOMAIN ks = 1 .. Len(ks)
  OBVIOUS
<1> DEFINE P == {m \in Nat : m <= n => Right(ks, ms, m, f[m])}
<1>3. 0 \in P
  <2>1. \A j \in 1 .. Len(ks) : Cleared(ks, o)[j].typ = ZeroType
    <3>1. ASSUME NEW j \in 1 .. Len(ks)
          PROVE  Cleared(ks, o)[j].typ = ZeroType
      <4>1. o \in [1 .. len -> Nodes] /\ j \in 1 .. len
        BY <1>2 DEF Buffers
      <4>2. o[j] \in Nodes
        BY <4>1
      <4>3. Cleared(ks, o)[j] = [o[j] EXCEPT !.typ = ZeroType]
        BY <1>2, <4>1 DEF Cleared
      <4> QED BY <4>2, <4>3 DEF Nodes
    <3> QED BY <3>1
  <2>2. HitsOf(ks, Cleared(ks, o)) = {}
    BY <2>1 DEF HitsOf
  <2>3. Cardinality(HitsOf(ks, Cleared(ks, o))) = 0
    BY <2>2, FS_EmptySet
  <2>4. \A j \in 1 .. Len(ks) : Answered(ks, ms, 0, Cleared(ks, o), j)
    BY <2>1 DEF Answered
  <2>5. Right(ks, ms, 0, f[0])
    BY <1>1, <1>2, <2>3, <2>4 DEF Right
  <2> QED BY <2>5
<1>4. ASSUME NEW m \in Nat, m \in P
      PROVE  m + 1 \in P
  <2>1. SUFFICES ASSUME m + 1 <= n PROVE Right(ks, ms, m + 1, f[m + 1])
    OBVIOUS
  <2>2. m \in 0 .. n /\ m + 1 \in 1 .. n /\ Right(ks, ms, m, f[m])
    BY <1>2, <1>4, <2>1
  <2>3. f[m] \in States(len) /\ f[m + 1] = HandOut(ks, f[m], ms[m + 1])
    <3> HIDE DEF n
    <3>1. f[m + 1] = HandOut(ks, f[(m + 1) - 1], ms[m + 1])
      BY <1>1, <2>2
    <3>2. (m + 1) - 1 = m
      OBVIOUS
    <3>3. f[m] \in States(len)
      BY <1>1, <2>2
    <3> QED BY <3>1, <3>2, <3>3
  <2> HIDE DEF P
  <2> QED BY <1>2, <2>1, <2>2, <2>3, HandOutRight
<1> HIDE DEF P
<1>5. n \in P
  BY <1>2, <1>3, <1>4, Induction
<1> QED BY <1>1, <1>2, <1>5 DEF P

(* Entries that are right answer as Get does.                                *)
LEMMA RightAnswers ==
    ASSUME NEW ks, NEW ms, Len(ms) \in Nat, NEW o, NEW j,
           \A m \in 1 .. Len(ms) : ms[m].node.typ # ZeroType,
           Answered(ks, ms, Len(ms), o, j)
    PROVE  IF NodeOf(ms, ks[j]) = NoNode THEN o[j].typ = ZeroType
                                         ELSE o[j] = NodeOf(ms, ks[j])
<1> DEFINE k == ks[j]
<1>1. /\ (\A m \in 1 .. Len(ms) : ms[m].key # k) => NodeOf(ms, k) = NoNode
      /\ \A m \in 1 .. Len(ms) :
           ms[m].key = k /\ (\A l \in 1 .. m - 1 : ms[l].key # k) => NodeOf(ms, k) = ms[m].node
  BY NodeOfFirst
<1>2. NoNode.typ = ZeroType
  BY DEF NoNode
<1> QED BY <1>1, <1>2 DEF Answered

(* What one call does, whatever the node and the buffer.                     *)
LEMMA GetManyIntoIsRight ==
    ASSUME NEW len \in Nat, NEW ks \in Seq(Seq(STRING)), NEW o \in Buffers(len),
           NEW n \in Nodes,
           \A m \in DOMAIN Members(n) : Members(n)[m].node.typ # ZeroType
    PROVE  LET r == GetManyInto(n, ks, o)
           IN  /\ r.out \in Buffers(len)
               /\ \A j \in 1 .. len : j > Len(ks) => r.out[j] = o[j]
               /\ Scannable(n, ks, r.out) /\ Distinct(ks) =>
                    /\ \A j \in 1 .. Len(ks) :
                         LET g == GetBytes(n, ks[j])
                         IN  IF g = NoNode THEN r.out[j].typ = ZeroType ELSE r.out[j] = g
                    /\ r.count = Cardinality(HitsOf(ks, r.out))
<1> DEFINE r == GetManyInto(n, ks, o)
           ms == Members(n)
           end == HandOutAll(ks, o, ms)
<1>1. \A a \in Buffers(len) : Len(a) = len
  BY DEF Buffers
<1>2. /\ Len(ms) \in Nat
      /\ \A m \in 1 .. Len(ms) : ms[m].node \in Nodes /\ ms[m].node.typ # ZeroType
  BY MembersTyped
<1>3. Len(ks) \in Nat
  OBVIOUS
<1>4. CASE ~ Scannable(n, ks, o)
  <2>1. r.out = o
    BY <1>4 DEF GetManyInto
  <2> QED BY <1>4, <2>1
<1>5. CASE Scannable(n, ks, o)
  <2>1. r.out = end.out /\ r.count = Len(ks) - end.remain
    BY <1>5 DEF GetManyInto
  <2>2. Len(ks) <= len
    BY <1>1, <1>3, <1>5 DEF Scannable
  <2>3. \A j \in 1 .. Len(ks) : GetBytes(n, ks[j]) = NodeOf(ms, ks[j])
    BY DEF GetBytes
  <2> HIDE DEF r, ms
  <2>4. /\ end \in States(len)
        /\ \A j \in 1 .. len : j > Len(ks) => end.out[j] = o[j]
    BY <1>2, <2>2, HandOutAllKeeps
  <2>5. ASSUME Distinct(ks)
        PROVE  Right(ks, ms, Len(ms), end)
    BY <1>2, <2>2, <2>5, ScanRight
  <2> HIDE DEF end
  <2>6. ASSUME Distinct(ks)
        PROVE  /\ \A j \in 1 .. Len(ks) :
                    IF NodeOf(ms, ks[j]) = NoNode THEN r.out[j].typ = ZeroType
                                                  ELSE r.out[j] = NodeOf(ms, ks[j])
               /\ r.count = Cardinality(HitsOf(ks, r.out))
    <3>1. Right(ks, ms, Len(ms), end)
      BY <2>5, <2>6
    <3>2. \A j \in 1 .. Len(ks) : Answered(ks, ms, Len(ms), r.out, j)
      BY <2>1, <3>1 DEF Right
    <3>3. Cardinality(HitsOf(ks, r.out)) \in Nat
      BY HitsAreKeys
    <3>4. r.count = Cardinality(HitsOf(ks, r.out))
      BY <1>3, <2>1, <3>1, <3>3 DEF Right
    <3>5. ASSUME NEW j \in 1 .. Len(ks)
          PROVE  IF NodeOf(ms, ks[j]) = NoNode THEN r.out[j].typ = ZeroType
                                               ELSE r.out[j] = NodeOf(ms, ks[j])
      BY <1>2, <3>2, RightAnswers
    <3> QED BY <3>4, <3>5
  <2> QED BY <2>1, <2>3, <2>4, <2>6 DEF States, r
<1> QED BY <1>4, <1>5

-----------------------------------------------------------------------------
(* Read after read.                                                          *)

Typed ==
    /\ out \in Buffers(OutLen)
    /\ node \in Nodes
    /\ keys \in Seq(Seq(STRING))

IInv == Typed /\ OneScanAnswersAsGets

(* The buffer starts with empty nodes, and there is no object to scan.         *)
LEMMA InitHolds == Init => IInv
<1> SUFFICES ASSUME Init PROVE IInv
  OBVIOUS
<1>1. Typed
  <2>1. <<>> \in Seq(Seq(STRING))
    OBVIOUS
  <2> QED BY <2>1, NoNodeIsNode DEF Init, Typed, Buffers
<1>2. ~ Scannable(node, keys, out)
  BY DEF Init, Scannable
<1> QED BY <1>1, <1>2 DEF IInv, OneScanAnswersAsGets

(* A read, from any buffer.                                                  *)
LEMMA ReadManyHolds ==
    ASSUME Typed, ReadMany
    PROVE  /\ IInv'
           /\ \A k \in 1 .. OutLen : k > Len(keys') => out'[k] = out[k]
<1>1. PICK text \in Texts, asked \in KeyLists :
        /\ node' = FromBytes(text)
        /\ keys' = asked
        /\ out' = GetManyInto(FromBytes(text), asked, out).out
        /\ count' = GetManyInto(FromBytes(text), asked, out).count
  BY DEF ReadMany
<1> DEFINE n == FromBytes(text)
           r == GetManyInto(n, asked, out)
<1>2. text \in Seq(STRING) /\ asked \in Seq(Seq(STRING)) /\ OutLen \in Nat
  BY ReadAssumption
<1>3. n \in Nodes
  BY <1>2, FromBytesIsNode
<1>4. \A m \in DOMAIN Members(n) : Members(n)[m].node.typ # ZeroType
  BY ValueAssumption
<1>5. out \in Buffers(OutLen)
  BY DEF Typed
<1>6. node' = n /\ keys' = asked /\ out' = r.out /\ count' = r.count
  BY <1>1
<1> HIDE DEF n
<1>7. /\ r.out \in Buffers(OutLen)
      /\ \A j \in 1 .. OutLen : j > Len(asked) => r.out[j] = out[j]
      /\ Scannable(n, asked, r.out) /\ Distinct(asked) =>
           /\ \A j \in 1 .. Len(asked) :
                LET g == GetBytes(n, asked[j])
                IN  IF g = NoNode THEN r.out[j].typ = ZeroType ELSE r.out[j] = g
           /\ r.count = Cardinality(HitsOf(asked, r.out))
  BY <1>2, <1>3, <1>4, <1>5, GetManyIntoIsRight
<1> HIDE DEF r
<1>8. Typed'
  BY <1>2, <1>3, <1>6, <1>7 DEF Typed
<1>9. OneScanAnswersAsGets'
  <2>1. SUFFICES ASSUME Scannable(n, asked, r.out), Distinct(asked)
                 PROVE  /\ \A k \in DOMAIN keys' : AnswersAsGet(k)'
                        /\ count' = Cardinality(Hits')
    BY <1>6 DEF OneScanAnswersAsGets
  <2>2. DOMAIN asked = 1 .. Len(asked)
    BY <1>2
  <2>3. Hits' = HitsOf(asked, r.out)
    BY <1>6, <2>2 DEF Hits, HitsOf
  <2>4. \A k \in DOMAIN keys' : AnswersAsGet(k)'
    BY <1>6, <1>7, <2>1, <2>2 DEF AnswersAsGet
  <2> QED BY <1>6, <1>7, <2>1, <2>3, <2>4
<1> QED BY <1>6, <1>7, <1>8, <1>9 DEF IInv

(* The invariant speaks of the variables alone.                              *)
LEMMA StutterHolds == IInv /\ UNCHANGED vars => IInv'
BY DEF IInv, Typed, OneScanAnswersAsGets, AnswersAsGet, Hits, vars

(* The buffer holds nodes, and after every read that is a scan each entry is   *)
(* what Get finds, and the count that of the entries with a type.             *)
THEOREM Invariance == Spec => []IInv
<1>1. IInv /\ [Next]_vars => IInv'
  BY ReadManyHolds, StutterHolds DEF IInv, Next
<1> QED BY <1>1, InitHolds, PTL DEF Spec

(* One scan for many keys answers as one Get for each of them, whatever the   *)
(* reads before it have left in the buffer.                                  *)
THEOREM OneScanAsGets == Spec => []OneScanAnswersAsGets
<1>1. IInv => OneScanAnswersAsGets
  BY DEF IInv
<1> QED BY <1>1, Invariance, PTL

(* No read touches the entries behind those of its keys.                     *)
THEOREM RestStays == Spec => RestUntouched
<1>1. IInv /\ [Next]_vars =>
        [\A k \in 1 .. OutLen : k > Len(keys') => out'[k] = out[k]]_vars
  BY ReadManyHolds DEF IInv, Next
<1> QED BY <1>1, Invariance, PTL DEF Spec, RestUntouched

-----------------------------------------------------------------------------
(* What is read from an object whose text is laid out as Layout says.        *)

(* The members of the node of an object are the items of the object.         *)
LEMMA MembersAreItems ==
    ASSUME NEW d, d.text \in Seq(STRING), NEW c, NEW e, Holds(d, c, e), d.kind = "object",
           NEW n \in Nodes, n.raw = d.text, n.start = c, n.end = e, n.typ = "o"
    PROVE  /\ Len(Members(n)) = Len(d.items)
           /\ \A k \in 1 .. Len(d.items) :
                Members(n)[k].key = d.items[k].key /\ LandsOn(Members(n)[k].node, d, k)
<1> DEFINE len == Len(d.items)
           Is(mb, k) == mb.key = d.items[k].key /\ LandsOn(mb.node, d, k)
           Rest(s, k) == /\ Len(s) = len + 1 - k
                         /\ \A l \in 1 .. len + 1 - k : Is(s[l], k - 1 + l)
<1>1. len \in Nat /\ c \in Nat /\ e \in Nat
  BY Zenon, ContainerInText
<1>2. PICK u : /\ Members(n) = IF n.typ = "o" THEN u[n.start + 1] ELSE <<>>
               /\ Scan(n, u)
  BY Zenon, MembersUnfold
<1>3. Members(n) = u[c + 1]
  BY Zenon, <1>2
<1>4. ASSUME NEW k \in 1 .. len + 1, NEW q, StandsBefore(d, c, e, k, q)
      PROVE  /\ q \in Nat
             /\ k = len + 1 => u[q] = <<>>
             /\ k # len + 1 =>
                  \E mb, r : /\ u[q] = <<mb>> \o u[r] /\ u[r] \in Seq(MemberSet(n))
                             /\ Is(mb, k) /\ StandsBefore(d, c, e, k + 1, r)
  <2>1. q \in Nat
    BY <1>1, <1>4 DEF StandsBefore
  <2>2. /\ HasMember(n, q) <=> k # len + 1
        /\ k # len + 1 =>
             /\ MemberKey(n, q) = d.items[k].key
             /\ Colon(n, q) + 1 \in Nat \ {0}
             /\ Blank(d.text, Colon(n, q) + 1, d.items[k].start)
    BY Zenon, <1>4, MemberThere
  <2>3. u[q] = IF HasMember(n, q)
               THEN <<[key |-> MemberKey(n, q), node |-> MemberNode(n, q)]>>
                      \o u[After(n, MemberNode(n, q))]
               ELSE <<>>
    BY Zenon, <1>2, <2>1 DEF Scan
  <2>4. CASE k = len + 1
    BY Zenon, <2>1, <2>2, <2>3, <2>4
  <2>5. CASE k # len + 1
    <3> DEFINE v == MemberNode(n, q)
               r == After(n, v)
               mb == [key |-> MemberKey(n, q), node |-> v]
    <3>1. k \in 1 .. len
      BY <1>1, <2>5
    <3>2. v = NodeAt(d.text, Colon(n, q) + 1)
      BY Zenon DEF MemberNode
    <3>3. LandsOn(v, d, k) /\ StandsBefore(d, c, e, k + 1, r)
      <4> HIDE DEF v
      <4> QED BY Zenon, <2>2, <2>5, <3>1, <3>2, ItemRead
    <3>4. u[q] = <<mb>> \o u[r]
      BY Zenon, <2>2, <2>3, <2>5
    <3>5. r \in Nat
      BY MemberMoves, <2>1
    <3>6. u[r] \in Seq(MemberSet(n))
      BY Zenon, <1>2, <3>5 DEF Scan
    <3>7. mb.key = d.items[k].key /\ mb.node = v
      BY <2>2, <2>5
    <3>8. Is(mb, k)
      BY Zenon, <3>3, <3>7
    <3> HIDE DEF mb, r
    <3> QED BY Zenon, <2>1, <2>5, <3>3, <3>4, <3>6, <3>8
  <2> QED BY Zenon, <2>4, <2>5
<1> DEFINE P == {m \in Nat : \A k \in 1 .. len + 1 : \A q :
                   len + 1 - k = m /\ StandsBefore(d, c, e, k, q) => Rest(u[q], k)}
<1>5. 0 \in P
  <2>1. ASSUME NEW k \in 1 .. len + 1, NEW q, len + 1 - k = 0, StandsBefore(d, c, e, k, q)
        PROVE  Rest(u[q], k)
    <3>1. k = len + 1
      BY <1>1, <2>1
    <3>2. u[q] = <<>>
      BY Zenon, <1>4, <2>1, <3>1
    <3> QED BY <2>1, <3>2
  <2> QED BY <2>1
<1>6. ASSUME NEW m \in Nat, m \in P
      PROVE  m + 1 \in P
  <2>1. ASSUME NEW k \in 1 .. len + 1, NEW q, len + 1 - k = m + 1, StandsBefore(d, c, e, k, q)
        PROVE  Rest(u[q], k)
    <3>1. k # len + 1 /\ k + 1 \in 1 .. len + 1 /\ len + 1 - (k + 1) = m
      <4>1. len \in Nat /\ k \in 1 .. len + 1 /\ len + 1 - k = m + 1
        BY Zenon, <1>1, <2>1
      <4> HIDE DEF len
      <4> QED BY <4>1
    <3>2. PICK mb, r : /\ u[q] = <<mb>> \o u[r] /\ u[r] \in Seq(MemberSet(n))
                       /\ Is(mb, k) /\ StandsBefore(d, c, e, k + 1, r)
      BY Zenon, <1>4, <2>1, <3>1
    <3>3. Rest(u[r], k + 1)
      BY Zenon, <1>6, <3>1, <3>2
    <3> HIDE DEF Is, len
    <3>4. Len(u[r]) = m /\ \A l \in 1 .. m : Is(u[r][l], k + l)
      <4>1. (k + 1) - 1 = k
        BY <2>1
      <4> QED BY Zenon, <3>1, <3>3, <4>1
    <3>5. /\ Len(u[q]) = m + 1 /\ u[q][1] = mb
          /\ \A l \in 2 .. m + 1 : u[q][l] = u[r][l - 1]
      BY <3>2, <3>4
    <3>6. ASSUME NEW l \in 1 .. m + 1
          PROVE  Is(u[q][l], k - 1 + l)
      <4>1. CASE l = 1
        <5>1. k - 1 + l = k
          BY <1>1, <4>1
        <5> QED BY Zenon, <3>2, <3>5, <4>1, <5>1
      <4>2. CASE l # 1
        <5>1. l \in 2 .. m + 1 /\ l - 1 \in 1 .. m /\ k + (l - 1) = k - 1 + l
          BY <1>1, <4>2
        <5> QED BY Zenon, <3>4, <3>5, <5>1
      <4> QED BY <4>1, <4>2
    <3> QED BY Zenon, <2>1, <3>5, <3>6
  <2> QED BY <2>1
<1> HIDE DEF P, Rest
<1>7. len \in P
  BY <1>1, <1>5, <1>6, Induction
<1>8. StandsBefore(d, c, e, 1, c + 1)
  BY Zenon, StandsBeforeFirst DEF Holds
<1>9. 1 \in 1 .. len + 1 /\ len + 1 - 1 = len
  BY <1>1
<1>10. Rest(u[c + 1], 1)
  BY Zenon, <1>7, <1>8, <1>9 DEF P
<1>11. \A l \in 1 .. len : 1 - 1 + l = l
  BY <1>1
<1> QED BY Zenon, <1>3, <1>9, <1>10, <1>11 DEF Rest

(* Get, GetBytes and ObjectKey land on the first member of an object that has *)
(* the key, and on nothing when no member has it, however long the text is.   *)
THEOREM GetBytesLands ==
    ASSUME NEW d, d.text \in Seq(STRING), NEW c, NEW e, Holds(d, c, e), d.kind = "object",
           NEW n \in Nodes, n.raw = d.text, n.start = c, n.end = e, n.typ = "o",
           NEW key
    PROVE  /\ (\A k \in 1 .. Len(d.items) : d.items[k].key # key) =>
                GetBytes(n, key) = NoNode
           /\ \A k \in 1 .. Len(d.items) :
                d.items[k].key = key /\ (\A l \in 1 .. k - 1 : d.items[l].key # key) =>
                    LandsOn(GetBytes(n, key), d, k)
<1> DEFINE ms == Members(n)
           len == Len(d.items)
<1>1. /\ Len(ms) = len
      /\ \A k \in 1 .. len : ms[k].key = d.items[k].key /\ LandsOn(ms[k].node, d, k)
  BY Zenon, MembersAreItems
<1>2. GetBytes(n, key) = NodeOf(ms, key)
  BY Zenon DEF GetBytes
<1>3. len \in Nat
  BY Zenon, ContainerInText
<1>4. \A k \in 1 .. len : \A l \in 1 .. k - 1 : l \in 1 .. len
  BY <1>3
<1> HIDE DEF ms, len
<1>5. /\ (\A m \in 1 .. len : ms[m].key # key) => NodeOf(ms, key) = NoNode
      /\ \A m \in 1 .. len :
           ms[m].key = key /\ (\A l \in 1 .. m - 1 : ms[l].key # key) =>
               NodeOf(ms, key) = ms[m].node
  BY <1>1, <1>3, NodeOfFirst
<1>6. ASSUME \A k \in 1 .. len : d.items[k].key # key
      PROVE  GetBytes(n, key) = NoNode
  BY Zenon, <1>1, <1>2, <1>5, <1>6
<1>7. ASSUME NEW k \in 1 .. len, d.items[k].key = key,
             \A l \in 1 .. k - 1 : d.items[l].key # key
      PROVE  LandsOn(GetBytes(n, key), d, k)
  <2>1. ms[k].key = key
    BY Zenon, <1>1, <1>7
  <2>2. \A l \in 1 .. k - 1 : ms[l].key # key
    BY Zenon, <1>1, <1>4, <1>7
  <2> QED BY Zenon, <1>1, <1>2, <1>5, <2>1, <2>2
<1> QED BY Zenon, <1>6, <1>7 DEF len

(* The letter of a value is none but the zero byte.                          *)
LEMMA LetterOfIsLetter ==
    ASSUME NEW kind \in {"object", "array", "string", "literal"}, NEW char
    PROVE  LetterOf(kind, char) \in Letters \ {ZeroType}
<1>1. CASE kind = "object"
  <2>1. LetterOf(kind, char) = "o"
    BY Zenon, <1>1 DEF LetterOf
  <2> QED BY Zenon, <2>1 DEF ZeroType, Letters
<1>2. CASE kind = "array"
  <2>1. LetterOf(kind, char) = "a"
    BY Zenon, <1>2 DEF LetterOf
  <2> QED BY Zenon, <2>1 DEF ZeroType, Letters
<1>3. CASE kind = "string"
  <2>1. LetterOf(kind, char) = "s"
    BY Zenon, <1>3 DEF LetterOf
  <2> QED BY Zenon, <2>1 DEF ZeroType, Letters
<1>4. CASE kind = "literal"
  <2>1. LetterOf(kind, char) \in {"b", "l", "n"}
    BY Zenon, <1>4 DEF LetterOf
  <2> QED BY Zenon, <2>1 DEF ZeroType, Letters
<1> QED BY Zenon, <1>1, <1>2, <1>3, <1>4

(* An item has a type.                                                       *)
LEMMA ItemHasType ==
    ASSUME NEW d, d.text \in Seq(STRING), NEW c, NEW e, Holds(d, c, e),
           NEW k \in 1 .. Len(d.items)
    PROVE  d.items[k].typ \in Letters \ {ZeroType}
<1>1. /\ IsValue(d.text, d.items[k].start, d.items[k].end, d.items[k].kind)
      /\ d.items[k].typ = LetterOf(d.items[k].kind, d.text[d.items[k].start])
  BY Zenon, ItemInText
<1>2. d.items[k].kind \in {"object", "array", "string", "literal"}
  BY Zenon, <1>1 DEF IsValue
<1> QED BY Zenon, <1>1, <1>2, LetterOfIsLetter

(* A node that lands on an item has the type of the item.                    *)
LEMMA LandedHasType ==
    ASSUME NEW d, d.text \in Seq(STRING), NEW c, NEW e, Holds(d, c, e),
           NEW k \in 1 .. Len(d.items), NEW v, LandsOn(v, d, k)
    PROVE  v.typ = d.items[k].typ /\ v.typ # ZeroType
<1>1. v = [raw |-> d.text, start |-> d.items[k].start, end |-> v.end, typ |-> d.items[k].typ]
  BY Zenon DEF LandsOn
<1>2. v.typ = d.items[k].typ
  BY <1>1
<1> QED BY Zenon, <1>2, ItemHasType

(* One GetManyInto over an object lands each of its keys, if they are         *)
(* different, on the first member that has it, whatever the buffer held.     *)
THEOREM GetManyLands ==
    ASSUME NEW d, d.text \in Seq(STRING), NEW c, NEW e, Holds(d, c, e), d.kind = "object",
           NEW n \in Nodes, n.raw = d.text, n.start = c, n.end = e, n.typ = "o",
           NEW len \in Nat, NEW ks \in Seq(Seq(STRING)), ks # <<>>, Len(ks) <= len,
           Distinct(ks), NEW o \in Buffers(len), NEW j \in 1 .. Len(ks)
    PROVE  /\ (\A k \in 1 .. Len(d.items) : d.items[k].key # ks[j]) =>
                GetManyInto(n, ks, o).out[j].typ = ZeroType
           /\ \A k \in 1 .. Len(d.items) :
                d.items[k].key = ks[j] /\ (\A l \in 1 .. k - 1 : d.items[l].key # ks[j]) =>
                    LandsOn(GetManyInto(n, ks, o).out[j], d, k)
<1> DEFINE r == GetManyInto(n, ks, o)
           ms == Members(n)
           g == GetBytes(n, ks[j])
<1>1. \A m \in DOMAIN ms : ms[m].node.typ # ZeroType
  <2>1. /\ Len(ms) = Len(d.items)
        /\ \A k \in 1 .. Len(d.items) : LandsOn(ms[k].node, d, k)
    BY Zenon, MembersAreItems
  <2>2. DOMAIN ms = 1 .. Len(ms)
    BY Zenon, MembersTyped
  <2> HIDE DEF ms
  <2> QED BY Zenon, <2>1, <2>2, LandedHasType
<1>2. /\ r.out \in Buffers(len)
      /\ Scannable(n, ks, r.out) =>
           IF g = NoNode THEN r.out[j].typ = ZeroType ELSE r.out[j] = g
  BY <1>1, GetManyIntoIsRight
<1>3. Scannable(n, ks, r.out)
  <2> HIDE DEF r
  <2>1. Len(r.out) = len
    BY <1>2 DEF Buffers
  <2> QED BY <2>1 DEF Scannable
<1>4. /\ (\A k \in 1 .. Len(d.items) : d.items[k].key # ks[j]) => g = NoNode
      /\ \A k \in 1 .. Len(d.items) :
           d.items[k].key = ks[j] /\ (\A l \in 1 .. k - 1 : d.items[l].key # ks[j]) =>
               LandsOn(g, d, k)
  BY Zenon, GetBytesLands
<1>5. NoNode.typ = ZeroType
  BY DEF NoNode
<1>6. \A k \in 1 .. Len(d.items) : LandsOn(g, d, k) => g # NoNode
  BY Zenon, <1>5, LandedHasType
<1> QED BY Zenon, <1>2, <1>3, <1>4, <1>6

-----------------------------------------------------------------------------
(* Elements of an array, as raw.GetBytes takes them.                         *)

(* What the walk of arrayIndex finds from each position and index on, u.      *)
ElementScan(n, want, u) ==
    \A i \in Nat, idx \in Nat :
        u[<<i, idx>>] = IF HasElement(n, i)
                        THEN IF idx = want THEN NodeAt(n.raw, i)
                             ELSE u[<<After(n, NodeAt(n.raw, i)), idx + 1>>]
                        ELSE NoNode

(* The loop goes on somewhere behind an element.                             *)
LEMMA ElementMoves ==
    ASSUME NEW n \in Nodes, NEW i \in Nat
    PROVE  NodeAt(n.raw, i) \in Nodes /\ After(n, NodeAt(n.raw, i)) \in Nat
<1>1. n.raw \in Seq(STRING) /\ n.end \in Nat
  BY DEF Nodes
<1>2. NodeAt(n.raw, i) \in Nodes
  BY <1>1, NodeAtIsNode
<1>3. NodeAt(n.raw, i).end \in Nat
  BY <1>2 DEF Nodes
<1> QED BY <1>1, <1>2, <1>3, AfterMoves

(* The walk ends, at the element that is wanted or where there is none.       *)
LEMMA ElementUnfolds ==
    ASSUME NEW n \in Nodes, NEW want \in Int
    PROVE  \E u : /\ ElementNode(n, want) = IF n.typ = "a" THEN u[<<n.start + 1, 0>>] ELSE NoNode
                  /\ ElementScan(n, want, u)
<1> DEFINE S == Nat \X Nat
           top == IF want >= 0 THEN want ELSE 0
           pos == [s \in S |-> s[2]]
           Ends == {s \in S : s[2] >= want \/ ~ HasElement(n, s[1])}
           next == [s \in S |-> <<After(n, NodeAt(n.raw, s[1])), s[2] + 1>>]
           val == [s \in S |-> IF HasElement(n, s[1]) /\ s[2] = want
                               THEN NodeAt(n.raw, s[1]) ELSE NoNode]
           up == [x \in S \X Nodes |-> x[2]]
           rhs(f, s) == IF HasElement(n, s[1])
                        THEN IF s[2] = want THEN NodeAt(n.raw, s[1])
                             ELSE f[<<After(n, NodeAt(n.raw, s[1])), s[2] + 1>>]
                        ELSE NoNode
           Eq(f) == f = [s \in Nat \X Nat |-> rhs(f, s)]
           u == CHOOSE f : Eq(f)
<1>1. ElementNode(n, want) = IF n.typ = "a" THEN u[<<n.start + 1, 0>>] ELSE NoNode
  BY DEF ElementNode
<1>2. ASSUME NEW s \in S
      PROVE  /\ s[1] \in Nat /\ s[2] \in Nat
             /\ NodeAt(n.raw, s[1]) \in Nodes
             /\ next[s] = <<After(n, NodeAt(n.raw, s[1])), s[2] + 1>>
             /\ next[s] \in S /\ pos[next[s]] = s[2] + 1 /\ pos[s] = s[2]
  <2>1. s[1] \in Nat /\ s[2] \in Nat
    OBVIOUS
  <2>2. NodeAt(n.raw, s[1]) \in Nodes /\ After(n, NodeAt(n.raw, s[1])) \in Nat
    BY <2>1, ElementMoves
  <2> QED BY <2>1, <2>2
<1>3. top \in Nat /\ pos \in [S -> Nat] /\ Ends \in SUBSET S /\ next \in [S -> S]
  <2>1. top \in Nat
    OBVIOUS
  <2>2. pos \in [S -> Nat]
    OBVIOUS
  <2>3. Ends \in SUBSET S
    OBVIOUS
  <2>4. \A s \in S : <<After(n, NodeAt(n.raw, s[1])), s[2] + 1>> \in S
    BY <1>2
  <2>5. next \in [S -> S]
    BY <2>4
  <2> QED BY <2>1, <2>2, <2>3, <2>5
<1>4. \A s \in S : pos[s] > top => s \in Ends
  OBVIOUS
<1>5. \A s \in S : s \notin Ends => pos[next[s]] > pos[s]
  BY <1>2
<1>6. val \in [S -> Nodes]
  BY <1>2, NoNodeIsNode
<1>7. up \in [S \X Nodes -> Nodes] /\ \A s \in S, v \in Nodes : up[<<s, v>>] = v
  OBVIOUS
<1>8. Moves(S, top, pos, Ends, next)
  <2> HIDE DEF top, pos, Ends, next, S
  <2> QED BY <1>3, <1>4, <1>5 DEF Moves
<1>9. PICK f \in [S -> Nodes] : Builds(f, S, Ends, next, val, up)
  <2> HIDE DEF S, top, pos, Ends, next, val, up
  <2> QED BY <1>6, <1>7, <1>8, BuildExists
<1>10. ASSUME NEW s \in S
       PROVE  f[s] = IF s \in Ends THEN val[s] ELSE f[next[s]]
  <2>1. next[s] \in S
    BY <1>2
  <2> HIDE DEF S, Ends, next, val, up
  <2>2. f[next[s]] \in Nodes
    BY <2>1
  <2> QED BY <1>7, <1>9, <2>2 DEF Builds
<1>11. ASSUME NEW s \in S
       PROVE  f[s] = rhs(f, s)
  <2>1. CASE s \notin Ends
    <3>1. f[s] = f[next[s]]
      BY Zenon, <1>10, <2>1
    <3>2. HasElement(n, s[1]) /\ s[2] # want
      BY <1>2, <2>1
    <3> QED BY <1>2, <3>1, <3>2
  <2>2. CASE s \in Ends
    <3>1. f[s] = IF HasElement(n, s[1]) /\ s[2] = want THEN NodeAt(n.raw, s[1]) ELSE NoNode
      BY <1>10, <2>2
    <3>2. CASE ~ HasElement(n, s[1]) \/ s[2] = want
      BY <3>1, <3>2
    <3>3. CASE HasElement(n, s[1]) /\ s[2] # want
      <4>1. s[2] > want /\ next[s][2] = s[2] + 1 /\ next[s] \in S
        <5>1. s[2] >= want /\ s[2] \in Nat /\ next[s] \in S
          BY <1>2, <2>2, <3>3
        <5>2. next[s] = <<After(n, NodeAt(n.raw, s[1])), s[2] + 1>>
          BY Zenon, <1>2
        <5> HIDE DEF next
        <5> QED BY <3>3, <5>1, <5>2
      <4>2. next[s] \in Ends /\ next[s][2] # want
        BY <1>2, <4>1
      <4>3. f[next[s]] = NoNode
        BY <1>10, <4>1, <4>2
      <4>4. f[s] = NoNode
        BY <3>1, <3>3
      <4> QED BY <1>2, <3>3, <4>3, <4>4
    <3> QED BY <3>2, <3>3
  <2> QED BY <2>1, <2>2
<1> HIDE DEF rhs
<1>12. Eq(f)
  BY <1>11
<1> HIDE DEF Eq
<1>13. Eq(u)
  BY <1>12
<1> HIDE DEF u
<1>14. \A s \in S : u[s] = rhs(u, s)
  BY <1>13 DEF Eq
<1>15. ElementScan(n, want, u)
  <2> SUFFICES ASSUME NEW i \in Nat, NEW idx \in Nat
               PROVE  u[<<i, idx>>] = IF HasElement(n, i)
                        THEN IF idx = want THEN NodeAt(n.raw, i)
                             ELSE u[<<After(n, NodeAt(n.raw, i)), idx + 1>>]
                        ELSE NoNode
    BY Zenon DEF ElementScan
  <2> DEFINE s == <<i, idx>>
  <2>1. s \in S /\ s[1] = i /\ s[2] = idx
    OBVIOUS
  <2> HIDE DEF s, S
  <2>2. u[s] = rhs(u, s)
    BY <1>14, <2>1
  <2>3. rhs(u, s) = IF HasElement(n, i)
                    THEN IF idx = want THEN NodeAt(n.raw, i)
                         ELSE u[<<After(n, NodeAt(n.raw, i)), idx + 1>>]
                    ELSE NoNode
    BY Zenon, <2>1 DEF rhs
  <2> QED BY Zenon, <2>2, <2>3 DEF s
<1> QED BY Zenon, <1>1, <1>15

(* arrayIndex lands on the element with the index, and on nothing when the    *)
(* array has none, however long its text is.                                 *)
THEOREM ElementLands ==
    ASSUME NEW d, d.text \in Seq(STRING), NEW c, NEW e, Holds(d, c, e), d.kind = "array",
           NEW n \in Nodes, n.raw = d.text, n.start = c, n.end = e, n.typ = "a",
           NEW want \in Int
    PROVE  IF want \in 0 .. Len(d.items) - 1 THEN LandsOn(ElementNode(n, want), d, want + 1)
                                             ELSE ElementNode(n, want) = NoNode
<1> DEFINE len == Len(d.items)
           Is(v, idx) == IF want \in idx .. len - 1 THEN LandsOn(v, d, want + 1)
                                                    ELSE v = NoNode
<1>1. len \in Nat /\ c \in Nat /\ e \in Nat
  BY Zenon, ContainerInText
<1>2. PICK u : /\ ElementNode(n, want) = IF n.typ = "a" THEN u[<<n.start + 1, 0>>] ELSE NoNode
               /\ ElementScan(n, want, u)
  BY Zenon, ElementUnfolds
<1>3. ElementNode(n, want) = u[<<c + 1, 0>>]
  BY Zenon, <1>2
<1>4. ASSUME NEW k \in 1 .. len + 1, NEW q, StandsBefore(d, c, e, k, q)
      PROVE  /\ k = len + 1 => u[<<q, k - 1>>] = NoNode
             /\ k # len + 1 =>
                  \E v, r : /\ LandsOn(v, d, k) /\ StandsBefore(d, c, e, k + 1, r)
                            /\ u[<<q, k - 1>>] = IF k - 1 = want THEN v
                                                 ELSE u[<<r, (k - 1) + 1>>]
  <2> DEFINE idx == k - 1
  <2>1. q \in Nat /\ idx \in Nat
    BY <1>1, <1>4 DEF StandsBefore
  <2> HIDE DEF idx
  <2>2. /\ HasElement(n, q) <=> k # len + 1
        /\ k # len + 1 => q \in Nat \ {0} /\ Blank(d.text, q, d.items[k].start)
    BY Zenon, <1>4, ElementThere
  <2>3. u[<<q, idx>>] = IF HasElement(n, q)
                        THEN IF idx = want THEN NodeAt(n.raw, q)
                             ELSE u[<<After(n, NodeAt(n.raw, q)), idx + 1>>]
                        ELSE NoNode
    BY Zenon, <1>2, <2>1 DEF ElementScan
  <2>4. CASE k = len + 1
    BY Zenon, <2>2, <2>3, <2>4 DEF idx
  <2>5. CASE k # len + 1
    <3> DEFINE v == NodeAt(d.text, q)
    <3>1. k \in 1 .. len
      BY <1>1, <2>5
    <3>2. LandsOn(v, d, k) /\ StandsBefore(d, c, e, k + 1, After(n, v))
      BY Zenon, <2>2, <2>5, <3>1, ItemRead
    <3>3. u[<<q, idx>>] = IF idx = want THEN v ELSE u[<<After(n, v), idx + 1>>]
      BY Zenon, <2>2, <2>3, <2>5
    <3> HIDE DEF v
    <3> QED BY Zenon, <2>5, <3>2, <3>3 DEF idx
  <2> QED BY Zenon, <2>4, <2>5
<1> DEFINE P == {m \in Nat : \A k \in 1 .. len + 1 : \A q :
                   len + 1 - k = m /\ StandsBefore(d, c, e, k, q) => Is(u[<<q, k - 1>>], k - 1)}
<1>5. 0 \in P
  <2>1. ASSUME NEW k \in 1 .. len + 1, NEW q, len + 1 - k = 0, StandsBefore(d, c, e, k, q)
        PROVE  Is(u[<<q, k - 1>>], k - 1)
    <3>1. k = len + 1 /\ want \notin k - 1 .. len - 1
      BY <1>1, <2>1
    <3>2. u[<<q, k - 1>>] = NoNode
      BY Zenon, <1>4, <2>1, <3>1
    <3> QED BY Zenon, <3>1, <3>2
  <2> QED BY <2>1
<1>6. ASSUME NEW m \in Nat, m \in P
      PROVE  m + 1 \in P
  <2>1. ASSUME NEW k \in 1 .. len + 1, NEW q, len + 1 - k = m + 1, StandsBefore(d, c, e, k, q)
        PROVE  Is(u[<<q, k - 1>>], k - 1)
    <3>1. /\ k # len + 1 /\ k + 1 \in 1 .. len + 1 /\ len + 1 - (k + 1) = m
          /\ (k - 1) + 1 = k /\ (k + 1) - 1 = k
          /\ want = k - 1 => want \in k - 1 .. len - 1 /\ want + 1 = k
          /\ want # k - 1 => (want \in k - 1 .. len - 1 <=> want \in k .. len - 1)
      <4>1. len \in Nat /\ k \in 1 .. len + 1 /\ len + 1 - k = m + 1
        BY Zenon, <1>1, <2>1
      <4> HIDE DEF len
      <4>2. /\ k # len + 1 /\ k + 1 \in 1 .. len + 1 /\ len + 1 - (k + 1) = m
            /\ (k - 1) + 1 = k /\ (k + 1) - 1 = k
        BY <4>1
      <4>3. want = k - 1 => want \in k - 1 .. len - 1 /\ want + 1 = k
        BY <4>1
      <4>4. want # k - 1 => (want \in k - 1 .. len - 1 <=> want \in k .. len - 1)
        BY <4>1
      <4> QED BY <4>2, <4>3, <4>4
    <3>2. PICK v, r : /\ LandsOn(v, d, k) /\ StandsBefore(d, c, e, k + 1, r)
                      /\ u[<<q, k - 1>>] = IF k - 1 = want THEN v ELSE u[<<r, (k - 1) + 1>>]
      BY Zenon, <1>4, <2>1, <3>1
    <3>3. Is(u[<<r, k>>], k)
      BY Zenon, <1>6, <3>1, <3>2
    <3>4. CASE want = k - 1
      BY Zenon, <3>1, <3>2, <3>4
    <3>5. CASE want # k - 1
      <4>1. u[<<q, k - 1>>] = u[<<r, k>>]
        BY Zenon, <3>1, <3>2, <3>5
      <4> QED BY Zenon, <3>1, <3>3, <3>5, <4>1
    <3> QED BY Zenon, <3>4, <3>5
  <2> QED BY <2>1
<1> HIDE DEF P, Is
<1>7. len \in P
  BY <1>1, <1>5, <1>6, Induction
<1>8. StandsBefore(d, c, e, 1, c + 1)
  BY Zenon, StandsBeforeFirst DEF Holds
<1>9. 1 \in 1 .. len + 1 /\ len + 1 - 1 = len /\ 1 - 1 = 0
  BY <1>1
<1>10. Is(u[<<c + 1, 0>>], 0)
  BY Zenon, <1>7, <1>8, <1>9 DEF P
<1> QED BY Zenon, <1>3, <1>10 DEF Is

-----------------------------------------------------------------------------
(* Paths, as raw.GetBytes follows them.                                      *)

(* The sets of indexes that a fold over m things takes apart.                 *)
LEMMA IndexSets ==
    ASSUME NEW m \in Nat
    PROVE  /\ \A s \in SUBSET (1 .. m) :
                /\ Cardinality(s) \in Nat /\ Cardinality(s) <= m
                /\ s # {} => /\ Max(s) \in s /\ s \ {Max(s)} \in SUBSET (1 .. m)
                             /\ Cardinality(s \ {Max(s)}) = Cardinality(s) - 1
           /\ \A j \in 1 .. m : Max(1 .. j) = j
<1> DEFINE S == SUBSET (1 .. m)
<1>1. ASSUME NEW s \in S
      PROVE  /\ Cardinality(s) \in Nat
             /\ s # {} => /\ Max(s) \in s /\ s \ {Max(s)} \in S
                          /\ Cardinality(s \ {Max(s)}) = Cardinality(s) - 1
             /\ Cardinality(s) <= m
  <2>1. IsFiniteSet(1 .. m) /\ Cardinality(1 .. m) = m
    BY FS_Interval
  <2>2. IsFiniteSet(s) /\ Cardinality(s) <= m
    <3> DEFINE T == 1 .. m
    <3>1. s \in SUBSET T /\ IsFiniteSet(T) /\ Cardinality(T) = m
      BY <2>1
    <3> HIDE DEF T
    <3> QED BY <3>1, FS_Subset
  <2>3. Cardinality(s) \in Nat
    BY <2>2, FS_CardinalityType
  <2>4. ASSUME s # {}
        PROVE  Max(s) \in s
    <3>1. s \in SUBSET (0 .. m)
      OBVIOUS
    <3>2. \E k \in s : \A l \in s : l <= k
      BY <2>4, <3>1, Greatest
    <3>3. \A k, l \in s : l <= k <=> k >= l
      OBVIOUS
    <3> QED BY <3>2, <3>3 DEF Max
  <2>5. ASSUME s # {}
        PROVE  Cardinality(s \ {Max(s)}) = Cardinality(s) - 1
    BY <2>2, <2>4, <2>5, FS_RemoveElement
  <2> QED BY <2>2, <2>3, <2>4, <2>5
<1>2. ASSUME NEW j \in 1 .. m
      PROVE  Max(1 .. j) = j
  <2>1. j \in 1 .. j /\ \A k \in 1 .. j : j >= k
    OBVIOUS
  <2>2. \A x \in 1 .. j : (\A y \in 1 .. j : x >= y) => x = j
    BY <2>1
  <2> QED BY <2>1, <2>2 DEF Max
<1> QED BY <1>1, <1>2

(* at goes through the nodes findByPath has behind the first tokens of p.     *)
ThroughNodes(b, p, m, at) ==
    /\ at[0] = FromBytes(b)
    /\ \A j \in 1 .. m : at[j] = Step(at[j - 1], p[j])
    /\ FindByPath(b, p) = at[m]

(* findByPath takes the segments of a path one after the other.              *)
LEMMA PathInSteps ==
    ASSUME NEW b, NEW p, NEW m \in Nat, DOMAIN p = 1 .. m
    PROVE  \E at : ThroughNodes(b, p, m, at)
<1> DEFINE S == SUBSET (1 .. m)
           rhs(f, s) == IF s = {} THEN FromBytes(b)
                        ELSE Step(f[s \ {Max(s)}], p[Max(s)])
           Eq(f) == f = [s \in SUBSET DOMAIN p |-> rhs(f, s)]
           u == CHOOSE f : Eq(f)
           Fits(f, c) == \A s \in S : Cardinality(s) <= c => f[s] = rhs(f, s)
           N == {c \in Nat : \E f : Fits(f, c)}
<1>1. FindByPath(b, p) = u[1 .. m]
  BY DEF FindByPath, FoldLeft, MapThenFoldSet
<1> HIDE DEF u
<1>2. \A s \in S :
        /\ Cardinality(s) \in Nat
        /\ s # {} => /\ Max(s) \in s /\ s \ {Max(s)} \in S
                     /\ Cardinality(s \ {Max(s)}) = Cardinality(s) - 1
        /\ Cardinality(s) <= m
  BY IndexSets
<1>3. 0 \in N
  <2> DEFINE f == [s \in S |-> FromBytes(b)]
  <2>1. ASSUME NEW s \in S, Cardinality(s) <= 0
        PROVE  f[s] = rhs(f, s)
    <3>1. s = {}
      <4>1. CASE s # {}
        <5>1. Cardinality(s \ {Max(s)}) \in Nat
          BY <1>2, <4>1
        <5> QED BY <1>2, <2>1, <4>1, <5>1
      <4> QED BY <4>1
    <3> QED BY <3>1
  <2> HIDE DEF f, rhs
  <2>2. Fits(f, 0)
    BY <2>1
  <2> HIDE DEF Fits
  <2> QED BY <2>2
<1>4. ASSUME NEW c \in Nat, c \in N
      PROVE  c + 1 \in N
  <2>1. PICK f : Fits(f, c)
    BY <1>4
  <2> DEFINE g == [s \in S |-> IF Cardinality(s) <= c THEN f[s] ELSE rhs(f, s)]
  <2>2. ASSUME NEW s \in S, Cardinality(s) <= c + 1
        PROVE  g[s] = rhs(g, s)
    <3>1. g[s] = rhs(f, s)
      BY <2>1
    <3>2. s # {} => g[s \ {Max(s)}] = f[s \ {Max(s)}]
      BY <1>2, <2>2
    <3> HIDE DEF g
    <3> QED BY <3>1, <3>2
  <2> HIDE DEF g, rhs
  <2>3. Fits(g, c + 1)
    BY <2>2
  <2> HIDE DEF Fits
  <2> QED BY <2>3
<1>5. m \in N
  <2> HIDE DEF N
  <2> QED BY <1>3, <1>4, Induction
<1>6. PICK f : \A s \in S : f[s] = rhs(f, s)
  <2> HIDE DEF rhs
  <2> QED BY <1>2, <1>5
<1>7. Eq([s \in S |-> f[s]])
  <2> DEFINE g == [s \in S |-> f[s]]
  <2>1. ASSUME NEW s \in S
        PROVE  g[s] = rhs(g, s)
    <3>1. s # {} => g[s \ {Max(s)}] = f[s \ {Max(s)}]
      BY <1>2
    <3>2. g[s] = f[s]
      OBVIOUS
    <3> HIDE DEF g
    <3> QED BY <1>6, <3>1, <3>2
  <2> HIDE DEF rhs
  <2> QED BY <2>1
<1>8. Eq(u)
  <2> HIDE DEF Eq
  <2> QED BY <1>7 DEF u
<1>9. ASSUME NEW s \in S
      PROVE  u[s] = rhs(u, s)
  <2> HIDE DEF rhs
  <2> QED BY <1>8
<1> DEFINE at == [j \in 0 .. m |-> u[1 .. j]]
<1>10. at[0] = FromBytes(b)
  <2>1. 1 .. 0 = {} /\ 0 \in 0 .. m
    OBVIOUS
  <2> QED BY <1>9, <2>1
<1>11. ASSUME NEW j \in 1 .. m
       PROVE  at[j] = Step(at[j - 1], p[j])
  <2>1. 1 .. j \in S /\ 1 .. j # {} /\ j \in 0 .. m /\ j - 1 \in 0 .. m
    OBVIOUS
  <2>2. Max(1 .. j) = j
    BY IndexSets
  <2>3. (1 .. j) \ {j} = 1 .. j - 1
    OBVIOUS
  <2>4. u[1 .. j] = Step(u[1 .. j - 1], p[j])
    BY <1>9, <2>1, <2>2, <2>3
  <2> QED BY <2>1, <2>4
<1>12. FindByPath(b, p) = at[m]
  BY <1>1
<1> HIDE DEF at
<1>13. ThroughNodes(b, p, m, at)
  BY <1>10, <1>11, <1>12 DEF ThroughNodes
<1> QED BY <1>13

(* The container d lies at a place in b.                                     *)
LiesAt(d, b, place) ==
    d.text = b /\ d.kind = place.kind /\ Holds(d, place.start, place.end)

(* v is the node of the value at a place in b.                               *)
IsNodeAt(v, b, place) ==
    /\ place.start \in 1 .. Len(b) /\ place.end \in 1 .. Len(b) + 1
    /\ IsValue(b, place.start, place.end, place.kind)
    /\ v = [raw |-> b, start |-> place.start, end |-> v.end,
            typ |-> LetterOf(place.kind, b[place.start])]
    /\ v.end \in place.end .. Len(b) + 1 /\ Blank(b, place.end, v.end)
    /\ place.kind # "literal" => v.end = place.end

(* Such a node is one, and has a type.                                       *)
LEMMA NodeAtPlace ==
    ASSUME NEW b \in Seq(STRING), NEW place, NEW v, IsNodeAt(v, b, place)
    PROVE  /\ v \in Nodes /\ v.typ # ZeroType
           /\ v.raw = b /\ v.start = place.start
           /\ v.typ = LetterOf(place.kind, b[place.start])
<1>1. place.kind \in {"object", "array", "string", "literal"}
  BY Zenon DEF IsNodeAt, IsValue
<1>2. LetterOf(place.kind, b[place.start]) \in Letters \ {ZeroType}
  BY Zenon, <1>1, LetterOfIsLetter
<1> DEFINE letter == LetterOf(place.kind, b[place.start])
<1>3. /\ v = [raw |-> b, start |-> place.start, end |-> v.end, typ |-> letter]
      /\ place.start \in 1 .. Len(b) /\ place.end \in 1 .. Len(b) + 1
      /\ v.end \in place.end .. Len(b) + 1
  BY Zenon DEF IsNodeAt
<1> HIDE DEF letter
<1>4. place.start \in Nat /\ v.end \in Nat
  BY <1>3
<1>5. v.raw = b /\ v.start = place.start /\ v.typ = letter
  BY <1>3
<1>6. v \in Nodes
  BY <1>2, <1>3, <1>4 DEF Nodes, letter
<1> QED BY Zenon, <1>2, <1>5, <1>6 DEF letter

(* FromBytes starts at the value the document is.                            *)
LEMMA DocumentFound ==
    ASSUME NEW b \in Seq(STRING), NEW place,
           place.start \in 1 .. Len(b), place.end \in 1 .. Len(b) + 1,
           place.kind # "literal", IsValue(b, place.start, place.end, place.kind),
           Blank(b, 1, place.start)
    PROVE  IsNodeAt(FromBytes(b), b, place)
<1> DEFINE c == place.start
           e == place.end
           kind == place.kind
<1>1. /\ Len(b) \in Nat /\ c \in Nat /\ e \in Nat /\ c <= Len(b) /\ e <= Len(b) + 1
      /\ ~ (c > Len(b))
  OBVIOUS
<1>2. b[c] \notin WhiteSpace
  BY Zenon, <1>1, ValueBegins
<1>3. SkipSpaces(b, 1) = c
  <2>1. Blank(b, 1, c)
    OBVIOUS
  <2> HIDE DEF c
  <2> QED BY <1>1, <1>2, <2>1, SkipSpacesFinds
<1>4. FindValueEnd(b, c) = e
  BY Zenon, <1>1, FindValueEndFinds
<1>5. TypeAt(b, c) = LetterOf(kind, b[c])
  BY Zenon, <1>1, TypeAtFinds
<1>6. FromBytes(b) = [raw |-> b, start |-> c, end |-> e, typ |-> LetterOf(kind, b[c])]
  BY Zenon, <1>1, <1>3, <1>4, <1>5 DEF FromBytes, NodeAt
<1> DEFINE letter == LetterOf(kind, b[c])
<1> HIDE DEF letter
<1>7. FromBytes(b).end = e
  BY <1>6
<1>8. e \in e .. Len(b) + 1 /\ Blank(b, e, e)
  BY <1>1 DEF Blank
<1> QED BY Zenon, <1>6, <1>7, <1>8 DEF IsNodeAt

(* A node that lands on an item is the node of the place of the item.        *)
LEMMA LandsAtPlace ==
    ASSUME NEW d, d.text \in Seq(STRING), NEW c, NEW e, Holds(d, c, e),
           NEW k \in 1 .. Len(d.items), NEW v, LandsOn(v, d, k)
    PROVE  IsNodeAt(v, d.text, Place(d.items[k]))
<1> DEFINE b == d.text
           item == d.items[k]
<1>1. /\ item.start \in Nat \ {0} /\ item.end \in Nat /\ item.start < item.end
      /\ item.end <= e - 1 /\ IsValue(b, item.start, item.end, item.kind)
      /\ item.typ = LetterOf(item.kind, b[item.start])
  BY Zenon, ItemInText
<1>2. Len(b) \in Nat /\ e \in Nat /\ e <= Len(b) + 1 /\ d.blanks \in Nat
  BY Zenon, ContainerInText
<1>3. /\ v = [raw |-> b, start |-> item.start, end |-> v.end, typ |-> item.typ]
      /\ v.end \in item.end .. item.end + (IF item.kind = "literal" THEN d.blanks ELSE 0)
      /\ Blank(b, item.end, v.end) /\ v.end <= Len(b)
  BY Zenon DEF LandsOn
<1>4. Place(item).start = item.start /\ Place(item).end = item.end /\ Place(item).kind = item.kind
  BY DEF Place
<1> HIDE DEF item, b
<1>6. /\ item.start \in 1 .. Len(b) /\ item.end \in 1 .. Len(b) + 1
      /\ v.end \in item.end .. Len(b) + 1
  BY <1>1, <1>2, <1>3
<1>7. item.kind # "literal" => v.end = item.end
  BY <1>1, <1>3
<1>8. IsNodeAt(v, b, Place(item))
  BY Zenon, <1>1, <1>3, <1>4, <1>6, <1>7 DEF IsNodeAt
<1> QED BY Zenon, <1>8 DEF b, item

(* The node of the place of a container has its span and type.               *)
LEMMA NodeOfContainer ==
    ASSUME NEW b \in Seq(STRING), NEW place, NEW v, IsNodeAt(v, b, place),
           NEW d, LiesAt(d, b, place)
    PROVE  /\ d.text \in Seq(STRING) /\ Holds(d, place.start, place.end)
           /\ v.raw = d.text /\ v.start = place.start /\ v.end = place.end
           /\ d.kind \in {"array", "object"}
           /\ d.kind = "array" => v.typ = "a"
           /\ d.kind = "object" => v.typ = "o"
<1>1. d.text \in Seq(STRING) /\ Holds(d, place.start, place.end) /\ d.kind = place.kind
      /\ d.text = b
  BY DEF LiesAt
<1>2. d.kind \in {"array", "object"}
  BY Zenon, <1>1, ContainerInText
<1>3. place.kind # "literal"
  BY Zenon, <1>1, <1>2
<1>4. v.end = place.end
  BY Zenon, <1>3 DEF IsNodeAt
<1>5. d.kind = "array" => LetterOf(place.kind, b[place.start]) = "a"
  BY Zenon, <1>1 DEF LetterOf
<1>6. d.kind = "object" => LetterOf(place.kind, b[place.start]) = "o"
  BY Zenon, <1>1 DEF LetterOf
<1>7. v.raw = b /\ v.start = place.start /\ v.typ = LetterOf(place.kind, b[place.start])
  BY NodeAtPlace
<1> QED BY Zenon, <1>1, <1>2, <1>4, <1>5, <1>6, <1>7

(* A span does not end with white space.                                     *)
LEMMA SpanCloses ==
    ASSUME NEW b, NEW i \in Nat, NEW e \in Nat, NEW kind, IsSpan(b, i, e, kind)
    PROVE  b[e - 1] \notin WhiteSpace
<1>1. CASE IsFrame(b, i, e, "{", "}")
  <2>1. b[e - 1] = "}"
    BY Zenon, <1>1 DEF IsFrame
  <2> QED BY Zenon, <2>1 DEF WhiteSpace
<1>2. CASE IsFrame(b, i, e, "[", "]")
  <2>1. b[e - 1] = "]"
    BY Zenon, <1>2 DEF IsFrame
  <2> QED BY Zenon, <2>1 DEF WhiteSpace
<1>3. CASE IsString(b, i, e)
  <2>1. b[e - 1] = QuoteMark
    BY Zenon, <1>3 DEF IsString
  <2> QED BY Zenon, <2>1, MarksAreNotBlank
<1>4. CASE IsLiteral(b, i, e)
  <2>1. i < e /\ \A k \in i .. e - 1 : b[k] \notin WhiteSpace
    BY Zenon, <1>4, LiteralChars
  <2>2. e - 1 \in i .. e - 1
    BY <2>1
  <2> QED BY Zenon, <2>1, <2>2
<1> QED BY Zenon, <1>1, <1>2, <1>3, <1>4 DEF IsSpan

(* A value does not end with white space.                                    *)
LEMMA ValueCloses ==
    ASSUME NEW b, NEW i \in Nat, NEW e \in Nat, NEW kind, IsValue(b, i, e, kind)
    PROVE  b[e - 1] \notin WhiteSpace
BY ValueIsSpan, SpanCloses

(* What is left of the bytes of a node, without the white space around them,  *)
(* is the text of the value.                                                 *)
LEMMA TrimmedToValue ==
    ASSUME NEW b \in Seq(STRING), NEW place, NEW v, IsNodeAt(v, b, place)
    PROVE  TrimSpaceBytes(Raw(v)) = SubSeq(b, place.start, place.end - 1)
<1> DEFINE s == place.start
           e == place.end
           r == Raw(v)
           len == v.end - s
           I == {k \in 1 .. Len(r) : r[k] \notin WhiteSpace}
<1>1. /\ s \in 1 .. Len(b) /\ e \in 1 .. Len(b) + 1 /\ IsValue(b, s, e, place.kind)
      /\ v.end \in e .. Len(b) + 1 /\ Blank(b, e, v.end)
  BY Zenon DEF IsNodeAt
<1>2. v.raw = b /\ v.start = s
  BY NodeAtPlace
<1>3. Len(b) \in Nat
  OBVIOUS
<1>4. r = SubSeq(b, s, v.end - 1)
  BY Zenon, <1>2 DEF Raw
<1> HIDE DEF s, e, r
<1>5. s \in Nat /\ e \in Nat /\ s \in Int /\ e \in Int
  BY <1>1, <1>3
<1>6. /\ s < e /\ b[s] \notin WhiteSpace /\ b[e - 1] \notin WhiteSpace
      /\ \A k \in e .. v.end - 1 : b[k] \in WhiteSpace
  <2>1. s < e /\ b[s] \notin WhiteSpace
    BY Zenon, <1>1, <1>5, ValueBegins
  <2>2. b[e - 1] \notin WhiteSpace
    BY Zenon, <1>1, <1>5, ValueCloses
  <2>3. \A k \in e .. v.end - 1 : b[k] \in WhiteSpace
    BY Zenon, <1>1 DEF Blank
  <2> QED BY <2>1, <2>2, <2>3
<1>7. Len(r) = len /\ \A k \in 1 .. len : r[k] = b[s + k - 1]
  BY <1>1, <1>3, <1>4, <1>5, <1>6
<1>8. /\ 1 \in I /\ \A k \in I : 1 <= k
      /\ e - s \in I /\ \A k \in I : e - s >= k
  <2>1. /\ v.end \in Nat /\ 1 \in 1 .. len /\ e - s \in 1 .. len /\ s + 1 - 1 = s
        /\ s + (e - s) - 1 = e - 1
    BY <1>1, <1>3, <1>5, <1>6
  <2>2. r[1] = b[s] /\ r[e - s] = b[e - 1]
    BY <1>7, <2>1
  <2>3. ASSUME NEW k \in 1 .. len, k > e - s
        PROVE  r[k] \in WhiteSpace
    <3>1. s + k - 1 \in e .. v.end - 1
      BY <1>5, <2>1, <2>3
    <3> QED BY <1>6, <1>7, <3>1
  <2>4. I = {k \in 1 .. len : r[k] \notin WhiteSpace}
    BY <1>7
  <2>5. ASSUME NEW k \in I
        PROVE  1 <= k /\ e - s >= k
    <3>1. k \in 1 .. len /\ r[k] \notin WhiteSpace
      BY <2>4
    <3> HIDE DEF I
    <3>2. ~ (k > e - s)
      BY <2>3, <3>1
    <3> QED BY <1>5, <3>1, <3>2
  <2> QED BY <1>6, <2>1, <2>2, <2>4, <2>5
<1>9. I # {} /\ I \subseteq Int
  BY <1>8
<1>10. Min(I) = 1 /\ Max(I) = e - s
  <2> HIDE DEF I
  <2>1. \A x, y \in I : x <= y /\ y <= x => x = y
    BY <1>9
  <2>2. \A x \in I : (\A y \in I : x <= y) => x = 1
    BY <1>8, <1>9, <2>1
  <2>3. \A x \in I : (\A y \in I : x >= y) => x = e - s
    <3>1. ASSUME NEW x \in I, \A y \in I : x >= y
          PROVE  x = e - s
      <4>1. x \in Int /\ x >= e - s /\ e - s >= x
        BY <1>8, <1>9, <3>1
      <4> QED BY <1>5, <4>1
    <3> QED BY <3>1
  <2>4. Min(I) = 1
    BY <1>8, <2>2 DEF Min
  <2>5. Max(I) = e - s
    BY <1>8, <2>3 DEF Max
  <2> QED BY <2>4, <2>5
<1>11. TrimSpaceBytes(r) = SubSeq(r, 1, e - s)
  <2>1. TrimSpaceBytes(r) = LET from == IF I # {} THEN Min(I) ELSE 0
                            IN  IF from = 0 THEN <<>>
                                ELSE SubSeq(r, from, IF I # {} THEN Max(I) ELSE 0)
    BY DEF TrimSpaceBytes, SelectInSeq, SelectLastInSeq
  <2>2. I # {} /\ Min(I) # 0
    BY <1>9, <1>10
  <2> HIDE DEF I
  <2> QED BY Zenon, <1>10, <2>1, <2>2
<1>12. SubSeq(r, 1, e - s) = SubSeq(b, s, e - 1)
  <2>1. v.end \in Nat /\ e - s \in 1 .. len /\ len \in Nat /\ v.end - 1 <= Len(b) /\ e - 1 <= Len(b)
    BY <1>1, <1>3, <1>5, <1>6
  <2>2. \A k \in 1 .. e - s : r[k] = b[s + k - 1]
    BY <1>7, <2>1
  <2>3. SubSeq(r, 1, e - s) = [k \in 1 .. e - s |-> r[k]]
    <3>1. r \in Seq(STRING)
      BY <1>1, <1>3, <1>4, <1>5, <1>6, <2>1
    <3> QED BY <1>7, <2>1, <3>1
  <2>4. SubSeq(b, s, e - 1) = [k \in 1 .. e - s |-> b[s + k - 1]]
    BY <1>1, <1>3, <1>5, <1>6, <2>1
  <2> QED BY <2>2, <2>3, <2>4
<1> QED BY Zenon, <1>11, <1>12 DEF r, s, e

(* Of a node that is no array there is no element.                           *)
LEMMA NoElement ==
    ASSUME NEW n, n.typ # "a", NEW want
    PROVE  ElementNode(n, want) = NoNode
BY Zenon DEF ElementNode

(* Of a node that is no object there is no member.                           *)
LEMMA NoMember ==
    ASSUME NEW n, n.typ # "o", NEW key
    PROVE  GetBytes(n, key) = NoNode
<1>1. Members(n) = <<>>
  BY Zenon DEF Members
<1>2. Len(<<>>) = 0 /\ 1 .. 0 = {}
  OBVIOUS
<1> QED BY <1>1, <1>2 DEF GetBytes, NodeOf, SelectInSeq

(* The letter of a string or a literal is not that of a container.           *)
LEMMA ScalarIsNoContainer ==
    ASSUME NEW kind \in {"string", "literal"}, NEW char
    PROVE  LetterOf(kind, char) \notin {"a", "o"}
<1>1. CASE kind = "string"
  <2>1. LetterOf(kind, char) = "s"
    BY Zenon, <1>1 DEF LetterOf
  <2> QED BY Zenon, <2>1
<1>2. CASE kind = "literal"
  <2>1. LetterOf(kind, char) \in {"b", "l", "n"}
    BY Zenon, <1>2 DEF LetterOf
  <2> QED BY Zenon, <2>1
<1> QED BY Zenon, <1>1, <1>2

-----------------------------------------------------------------------------
(* The client of module Lookups.                                             *)

(* The node is the one of the value at a place, or the empty one.            *)
Follows(d, n, place) ==
    IF place = Nowhere THEN n = NoNode
                       ELSE IsNodeAt(n, d.text, place) /\ Known(d, place)

(* Behind nothing but white space there is nothing.                          *)
LEMMA SkipSpacesLeaves ==
    ASSUME NEW b, Len(b) \in Nat, NEW i \in Nat \ {0}, Blank(b, i, Len(b) + 1)
    PROVE  SkipSpaces(b, i) = Len(b) + 1
<1> DEFINE I == {k \in i .. Len(b) : b[k] \notin WhiteSpace}
           at == IF I # {} THEN Min(I) ELSE 0
<1>1. I = {} /\ i <= Len(b) + 1
  BY DEF Blank
<1>2. SkipSpaces(b, i) = IF at # 0 THEN at ELSE IF i > Len(b) THEN i ELSE Len(b) + 1
  BY DEF SkipSpaces, SelectInSubSeq
<1> QED BY <1>1, <1>2

(* A literal with nothing but white space behind it goes up to the end.       *)
LEMMA LastLiteralEnds ==
    ASSUME NEW b, Len(b) \in Nat, NEW i \in Nat \ {0}, NEW e \in Nat,
           IsLiteral(b, i, e), Blank(b, e, Len(b) + 1)
    PROVE  FindValueEnd(b, i) = Len(b) + 1
<1> DEFINE z == Len(b) + 1
<1>0. Blank(b, e, z)
  OBVIOUS
<1> HIDE DEF z
<1>1. /\ i < e /\ b[i] \notin {"{", "[", QuoteMark}
      /\ \A k \in i .. e - 1 : b[k] \notin Stops
  BY Zenon, LiteralChars
<1>2. \A k \in e .. z - 1 : b[k] \notin Stops
  BY Zenon, <1>0, MarksAreNotBlank DEF Blank
<1>3. e <= Len(b) + 1
  BY DEF Blank
<1>4. i < e
  BY Zenon, <1>1
<1> DEFINE I == {k \in i .. Len(b) : b[k] \in Stops}
           at == IF I # {} THEN Min(I) ELSE 0
<1>5. /\ ~ (i > Len(b))
      /\ \A k \in i .. Len(b) : k \in i .. e - 1 \/ k \in e .. z - 1
  BY <1>3, <1>4 DEF z
<1>6. \A k \in i .. Len(b) : b[k] \notin Stops
  BY Zenon, <1>1, <1>2, <1>5
<1>7. FirstOf(b, i, Stops) = IF at # 0 THEN at ELSE IF i > Len(b) THEN i ELSE Len(b) + 1
  BY DEF FirstOf, SelectInSubSeq
<1>8. FirstOf(b, i, Stops) = Len(b) + 1
  BY <1>5, <1>6, <1>7
<1>9. FindValueEnd(b, i) = FirstOf(b, i, Stops)
  BY Zenon, <1>1, <1>5 DEF FindValueEnd, Stops
<1> QED BY Zenon, <1>8, <1>9

(* Where the brackets of every container balance, the scans that count them   *)
(* see values.                                                               *)
WellLaid(d) ==
    /\ d.value # Nowhere =>
         /\ d.value.start \in 1 .. Len(d.text) /\ d.value.end \in 1 .. Len(d.text) + 1
         /\ IsValue(d.text, d.value.start, d.value.end, d.value.kind)
         /\ Blank(d.text, 1, d.value.start) /\ Blank(d.text, d.value.end, Len(d.text) + 1)
         /\ Known(d, d.value)
    /\ \A place \in DOMAIN d.inside :
         /\ Holds(ContainerAt(d, place), place.start, place.end)
         /\ \A k \in DOMAIN d.inside[place] : Known(d, Place(d.inside[place][k]))

LEMMA ContainerFields ==
    ASSUME NEW d, NEW place
    PROVE  /\ ContainerAt(d, place).kind = place.kind
           /\ ContainerAt(d, place).text = d.text
           /\ ContainerAt(d, place).blanks = d.blanks
           /\ ContainerAt(d, place).items = d.inside[place]
BY DEF ContainerAt

LEMMA PlaceFields ==
    ASSUME NEW item
    PROVE  Place(item).start = item.start /\ Place(item).end = item.end
           /\ Place(item).kind = item.kind
BY DEF Place

LEMMA BalancedIsWellLaid ==
    ASSUME NEW d, Laid(d),
           \A place \in DOMAIN d.inside : Balanced(d.text, place.start, place.end, place.kind)
    PROVE  WellLaid(d)
<1>1. ASSUME NEW place, Known(d, place)
      PROVE  Balanced(d.text, place.start, place.end, place.kind)
  BY Zenon, <1>1 DEF Known, Balanced
<1>2. ASSUME d.value # Nowhere
      PROVE  IsValue(d.text, d.value.start, d.value.end, d.value.kind)
  BY Zenon, <1>1, <1>2, BalancedIsValue DEF Laid
<1>3. ASSUME NEW place \in DOMAIN d.inside
      PROVE  Holds(ContainerAt(d, place), place.start, place.end)
  <2> DEFINE c == ContainerAt(d, place)
             items == d.inside[place]
  <2>1. /\ Encloses(c, place.start, place.end)
        /\ \A k \in DOMAIN items : Known(d, Place(items[k]))
    BY Zenon DEF Laid
  <2>2. c.kind = place.kind /\ c.text = d.text /\ c.items = items
    BY Zenon, ContainerFields
  <2> HIDE DEF c, items
  <2>3. DOMAIN items = 1 .. Len(items)
    BY Zenon, <2>1, <2>2 DEF Encloses
  <2>4. ASSUME NEW k \in 1 .. Len(items)
        PROVE  Balanced(d.text, items[k].start, items[k].end, items[k].kind)
    <3>1. Known(d, Place(items[k]))
      BY Zenon, <2>1, <2>3
    <3>2. Balanced(d.text, Place(items[k]).start, Place(items[k]).end, Place(items[k]).kind)
      BY Zenon, <1>1, <3>1
    <3> QED BY Zenon, <3>2, PlaceFields
  <2>5. Holds(c, place.start, place.end)
    BY Zenon, <2>1, <2>2, <2>4 DEF Holds
  <2> QED BY Zenon, <2>5 DEF c
<1> QED BY Zenon, <1>2, <1>3 DEF Laid, WellLaid

(* FromBytes has the node of the value a document is.                        *)
LEMMA ValueFound ==
    ASSUME NEW d, d.text \in Seq(STRING), WellLaid(d),
           d.value = Nowhere => Blank(d.text, 1, Len(d.text) + 1)
    PROVE  Follows(d, FromBytes(d.text), d.value)
<1> DEFINE b == d.text
           place == d.value
           s == place.start
           e == place.end
<1>1. b \in Seq(STRING) /\ Len(b) \in Nat
  OBVIOUS
<1>2. CASE place = Nowhere
  <2>1. SkipSpaces(b, 1) = Len(b) + 1
    BY <1>1, <1>2, SkipSpacesLeaves
  <2>2. FromBytes(b) = NoNode
    BY <1>1, <2>1 DEF FromBytes
  <2> QED BY <1>2, <2>2 DEF Follows
<1>3. CASE place # Nowhere
  <2>1. /\ s \in 1 .. Len(b) /\ e \in 1 .. Len(b) + 1
        /\ IsValue(b, s, e, place.kind)
        /\ Blank(b, 1, s) /\ Blank(b, e, Len(b) + 1)
        /\ Known(d, place)
    BY Zenon, <1>3 DEF WellLaid
  <2>2. IsNodeAt(FromBytes(b), b, place)
    <3>1. CASE place.kind # "literal"
      BY Zenon, <1>1, <2>1, <3>1, DocumentFound
    <3>2. CASE place.kind = "literal"
      <4>1. /\ s \in Nat \ {0} /\ e \in Nat /\ s <= Len(b) /\ e <= Len(b) + 1
            /\ ~ (s > Len(b))
        BY <1>1, <2>1
      <4>2. SkipSpaces(b, 1) = s
        <5>1. b[s] \notin WhiteSpace
          BY Zenon, <2>1, <4>1, ValueBegins
        <5> HIDE DEF s
        <5> QED BY <1>1, <2>1, <4>1, <5>1, SkipSpacesFinds
      <4>3. IsLiteral(b, s, e)
        BY Zenon, <2>1, <3>2 DEF IsValue
      <4>4. FindValueEnd(b, s) = Len(b) + 1
        BY Zenon, <1>1, <2>1, <4>1, <4>3, LastLiteralEnds
      <4>5. TypeAt(b, s) = LetterOf(place.kind, b[s])
        BY Zenon, <1>1, <2>1, <4>1, TypeAtFinds
      <4>6. FromBytes(b) = [raw |-> b, start |-> s, end |-> Len(b) + 1,
                            typ |-> LetterOf(place.kind, b[s])]
        BY Zenon, <1>1, <4>1, <4>2, <4>4, <4>5 DEF FromBytes, NodeAt
      <4> DEFINE letter == LetterOf(place.kind, b[s])
      <4> HIDE DEF letter
      <4>7. FromBytes(b).end = Len(b) + 1
        BY <4>6
      <4>8. Len(b) + 1 \in e .. Len(b) + 1
        BY <1>1, <4>1
      <4> QED BY Zenon, <2>1, <3>2, <4>6, <4>7, <4>8 DEF IsNodeAt
    <3> QED BY <3>1, <3>2
  <2> QED BY Zenon, <1>3, <2>1, <2>2 DEF Follows
<1> QED BY <1>2, <1>3

(* The member MemberAt takes is the first that has the key.                  *)
LEMMA MemberAtFirst ==
    ASSUME NEW d, NEW place, place.kind = "object", NEW items, items = d.inside[place],
           Len(items) \in Nat, NEW key
    PROVE  \/ /\ \A k \in 1 .. Len(items) : items[k].key # key
              /\ MemberAt(d, place, key) = Nowhere
           \/ \E k \in 1 .. Len(items) :
                /\ items[k].key = key /\ \A l \in 1 .. k - 1 : items[l].key # key
                /\ MemberAt(d, place, key) = Place(items[k])
<1> DEFINE I == {k \in 1 .. Len(items) : items[k].key = key}
           at == IF I # {} THEN Min(I) ELSE 0
<1>1. MemberAt(d, place, key) = IF at = 0 THEN Nowhere ELSE Place(items[at])
  BY DEF MemberAt, SelectInSeq
<1>2. CASE I = {}
  BY <1>1, <1>2
<1>3. CASE I # {}
  <2>1. I \in SUBSET Nat
    OBVIOUS
  <2>2. PICK k \in I : \A l \in I : k <= l
    BY <1>3, <2>1, Least
  <2>3. \A l \in I : (\A j \in I : l <= j) => l = k
    BY <2>1, <2>2
  <2>4. at = k
    BY <1>3, <2>2, <2>3 DEF Min
  <2>5. k \in 1 .. Len(items) /\ items[k].key = key /\ k # 0
    BY <2>2
  <2>6. \A l \in 1 .. k - 1 : items[l].key # key
    BY <2>2
  <2>7. MemberAt(d, place, key) = Place(items[k])
    BY <1>1, <2>4, <2>5
  <2> QED BY <2>5, <2>6, <2>7
<1> QED BY <1>2, <1>3

(* A container a document tells of lies where it says, and its items follow   *)
(* the same rule.                                                            *)
LEMMA ContainerThere ==
    ASSUME NEW d, d.text \in Seq(STRING), WellLaid(d), NEW n, NEW place, place # Nowhere,
           Follows(d, n, place), place.kind \in {"array", "object"}
    PROVE  /\ IsNodeAt(n, d.text, place)
           /\ LiesAt(ContainerAt(d, place), d.text, place)
           /\ ContainerAt(d, place).items = d.inside[place]
           /\ ContainerAt(d, place).kind = place.kind
           /\ Len(d.inside[place]) \in Nat
           /\ \A k \in 1 .. Len(d.inside[place]) : Known(d, Place(d.inside[place][k]))
<1>1. IsNodeAt(n, d.text, place) /\ place \in DOMAIN d.inside
  BY Zenon DEF Follows, Known
<1>2. /\ Holds(ContainerAt(d, place), place.start, place.end)
      /\ \A k \in DOMAIN d.inside[place] : Known(d, Place(d.inside[place][k]))
  BY Zenon, <1>1 DEF WellLaid
<1> DEFINE items == d.inside[place]
           kind == place.kind
           text == d.text
           c == ContainerAt(d, place)
<1>3. c = [kind |-> kind, text |-> text, blanks |-> d.blanks, items |-> items]
  BY DEF ContainerAt
<1> HIDE DEF items, kind, text, c
<1>4. c.kind = kind /\ c.text = text /\ c.items = items
  BY <1>3
<1>5. Holds(c, place.start, place.end)
  BY <1>2 DEF c
<1>6. DOMAIN items = 1 .. Len(items) /\ Len(items) \in Nat
  BY Zenon, <1>4, <1>5 DEF Holds, Encloses
<1>7. \A k \in 1 .. Len(items) : Known(d, Place(items[k]))
  BY Zenon, <1>2, <1>6 DEF items
<1> QED BY Zenon, <1>1, <1>4, <1>5, <1>6, <1>7 DEF LiesAt, items, kind, text, c

(* Where a node is, something is.                                            *)
LEMMA NodeIsSomewhere ==
    ASSUME NEW b, NEW place, NEW v, IsNodeAt(v, b, place)
    PROVE  place # Nowhere
<1>1. place.kind \in {"object", "array", "string", "literal"}
  BY Zenon DEF IsNodeAt, IsValue
<1>2. Nowhere.kind = "absent"
  BY DEF Nowhere
<1> QED BY <1>1, <1>2

(* A node that follows a place has the type of its value, or none.            *)
LEMMA TypeFollows ==
    ASSUME NEW d, d.text \in Seq(STRING), NEW n, NEW place, Follows(d, n, place)
    PROVE  /\ place.kind # "object" => n.typ # "o"
           /\ place.kind # "array" => n.typ # "a"
<1>1. CASE place = Nowhere
  <2>1. n.typ = ZeroType
    BY <1>1 DEF Follows, NoNode
  <2> QED BY Zenon, <2>1 DEF ZeroType
<1>2. CASE place # Nowhere
  <2>1. IsNodeAt(n, d.text, place)
    BY Zenon, <1>2 DEF Follows
  <2>2. n.typ = LetterOf(place.kind, d.text[place.start])
    BY <2>1, NodeAtPlace
  <2>3. place.kind \in {"object", "array", "string", "literal"}
    BY Zenon, <2>1 DEF IsNodeAt, IsValue
  <2>4. CASE place.kind \in {"string", "literal"}
    BY Zenon, <2>2, <2>4, ScalarIsNoContainer
  <2>5. CASE place.kind = "array"
    <3>1. n.typ = "a"
      BY Zenon, <2>2, <2>5 DEF LetterOf
    <3> QED BY Zenon, <2>5, <3>1
  <2>6. CASE place.kind = "object"
    <3>1. n.typ = "o"
      BY Zenon, <2>2, <2>6 DEF LetterOf
    <3> QED BY Zenon, <2>6, <3>1
  <2> QED BY Zenon, <2>3, <2>4, <2>5, <2>6
<1> QED BY <1>1, <1>2

(* Get leads from the node of a value to that of its member, or to none.      *)
LEMMA MemberFollows ==
    ASSUME NEW d, d.text \in Seq(STRING), WellLaid(d), NEW n, NEW place,
           Follows(d, n, place), NEW key
    PROVE  Follows(d, GetBytes(n, key), MemberAt(d, place, key))
<1>1. CASE place.kind # "object"
  <2>1. GetBytes(n, key) = NoNode
    BY <1>1, TypeFollows, NoMember
  <2>2. MemberAt(d, place, key) = Nowhere
    BY Zenon, <1>1 DEF MemberAt
  <2> QED BY Zenon, <2>1, <2>2 DEF Follows
<1>2. CASE place.kind = "object"
  <2> DEFINE c == ContainerAt(d, place)
             items == d.inside[place]
  <2>1. place # Nowhere
    <3>1. Nowhere.kind = "absent"
      BY DEF Nowhere
    <3> QED BY <1>2, <3>1
  <2>2. /\ IsNodeAt(n, d.text, place) /\ LiesAt(c, d.text, place)
        /\ c.items = items /\ c.kind = "object" /\ Len(items) \in Nat
        /\ \A k \in 1 .. Len(items) : Known(d, Place(items[k]))
    BY Zenon, <1>2, <2>1, ContainerThere
  <2> HIDE DEF c, items
  <2>3. /\ c.text \in Seq(STRING) /\ Holds(c, place.start, place.end)
        /\ n.raw = c.text /\ n.start = place.start /\ n.end = place.end
        /\ c.kind \in {"array", "object"}
        /\ c.kind = "array" => n.typ = "a"
        /\ c.kind = "object" => n.typ = "o"
    <3>1. IsNodeAt(n, d.text, place) /\ LiesAt(c, d.text, place)
      BY Zenon, <2>2
    <3> QED BY ONLY Zenon, <3>1, d.text \in Seq(STRING), NodeOfContainer
  <2>4. n \in Nodes
    BY <2>2, NodeAtPlace
  <2>5. c.text = d.text
    BY Zenon, <2>2 DEF LiesAt
  <2>6. /\ (\A k \in 1 .. Len(items) : items[k].key # key) => GetBytes(n, key) = NoNode
        /\ \A k \in 1 .. Len(items) :
             items[k].key = key /\ (\A l \in 1 .. k - 1 : items[l].key # key) =>
                 LandsOn(GetBytes(n, key), c, k)
    <3>1. n.typ = "o"
      BY Zenon, <2>2, <2>3
    <3> QED BY Zenon, <2>2, <2>3, <2>4, <3>1, GetBytesLands
  <2>7. \/ /\ \A k \in 1 .. Len(items) : items[k].key # key
           /\ MemberAt(d, place, key) = Nowhere
        \/ \E k \in 1 .. Len(items) :
             /\ items[k].key = key /\ \A l \in 1 .. k - 1 : items[l].key # key
             /\ MemberAt(d, place, key) = Place(items[k])
    BY <1>2, <2>2, MemberAtFirst DEF items
  <2>8. CASE /\ \A k \in 1 .. Len(items) : items[k].key # key
             /\ MemberAt(d, place, key) = Nowhere
    BY Zenon, <2>6, <2>8 DEF Follows
  <2>9. ASSUME NEW k \in 1 .. Len(items), items[k].key = key,
               \A l \in 1 .. k - 1 : items[l].key # key,
               MemberAt(d, place, key) = Place(items[k])
        PROVE  Follows(d, GetBytes(n, key), MemberAt(d, place, key))
    <3>1. LandsOn(GetBytes(n, key), c, k)
      BY Zenon, <2>6, <2>9
    <3>2. k \in 1 .. Len(c.items) /\ c.items[k] = items[k]
      BY <2>2
    <3>3. IsNodeAt(GetBytes(n, key), d.text, Place(items[k]))
      BY Zenon, <2>3, <2>5, <3>1, <3>2, LandsAtPlace
    <3>4. Place(items[k]) # Nowhere
      BY <3>3, NodeIsSomewhere
    <3> QED BY Zenon, <2>2, <2>9, <3>3, <3>4 DEF Follows
  <2> QED BY Zenon, <2>7, <2>8, <2>9
<1> QED BY <1>1, <1>2

(* So does the walk that stops at an element.                                *)
LEMMA ElementFollows ==
    ASSUME NEW d, d.text \in Seq(STRING), WellLaid(d), NEW n, NEW place,
           Follows(d, n, place), NEW want \in Int
    PROVE  Follows(d, ElementNode(n, want), ElementAt(d, place, want))
<1>1. CASE place.kind # "array"
  <2>1. ElementNode(n, want) = NoNode
    BY <1>1, TypeFollows, NoElement
  <2>2. ElementAt(d, place, want) = Nowhere
    BY Zenon, <1>1 DEF ElementAt
  <2> QED BY Zenon, <2>1, <2>2 DEF Follows
<1>2. CASE place.kind = "array"
  <2> DEFINE c == ContainerAt(d, place)
             items == d.inside[place]
  <2>1. place # Nowhere
    <3>1. Nowhere.kind = "absent"
      BY DEF Nowhere
    <3> QED BY <1>2, <3>1
  <2>2. /\ IsNodeAt(n, d.text, place) /\ LiesAt(c, d.text, place)
        /\ c.items = items /\ c.kind = "array" /\ Len(items) \in Nat
        /\ \A k \in 1 .. Len(items) : Known(d, Place(items[k]))
    BY Zenon, <1>2, <2>1, ContainerThere
  <2>3. ElementAt(d, place, want) =
          IF want \in 0 .. Len(items) - 1 THEN Place(items[want + 1]) ELSE Nowhere
    BY Zenon, <1>2 DEF ElementAt
  <2> HIDE DEF c, items
  <2>4. /\ c.text \in Seq(STRING) /\ Holds(c, place.start, place.end)
        /\ n.raw = c.text /\ n.start = place.start /\ n.end = place.end
        /\ n.typ = "a"
    BY Zenon, <2>2, NodeOfContainer
  <2>5. n \in Nodes
    BY <2>2, NodeAtPlace
  <2>6. c.text = d.text
    BY Zenon, <2>2 DEF LiesAt
  <2>7. IF want \in 0 .. Len(items) - 1 THEN LandsOn(ElementNode(n, want), c, want + 1)
                                        ELSE ElementNode(n, want) = NoNode
    BY Zenon, <2>2, <2>4, <2>5, ElementLands
  <2>8. CASE want \notin 0 .. Len(items) - 1
    BY Zenon, <2>3, <2>7, <2>8 DEF Follows
  <2>9. CASE want \in 0 .. Len(items) - 1
    <3> DEFINE k == want + 1
    <3>1. k \in 1 .. Len(items)
      BY <2>2, <2>9
    <3>2. LandsOn(ElementNode(n, want), c, k) /\ ElementAt(d, place, want) = Place(items[k])
      BY Zenon, <2>3, <2>7, <2>9
    <3> HIDE DEF k
    <3>3. k \in 1 .. Len(c.items) /\ c.items[k] = items[k]
      BY <2>2, <3>1
    <3>4. IsNodeAt(ElementNode(n, want), d.text, Place(items[k]))
      BY Zenon, <2>4, <2>6, <3>2, <3>3, LandsAtPlace
    <3>5. Place(items[k]) # Nowhere
      BY <3>4, NodeIsSomewhere
    <3> QED BY Zenon, <2>2, <3>1, <3>2, <3>4, <3>5 DEF Follows
  <2> QED BY <2>8, <2>9
<1> QED BY <1>1, <1>2

(* A number that fits an int is the one atoiDigits makes of its digits.        *)
LEMMA DigitsRead ==
    ASSUME NEW v \in Nat, v < IntWrap \div 2
    PROVE  AtoiDigits(v) = v
<1> DEFINE h == IntWrap \div 2
<1>1. IntWrap \in Nat \ {0} /\ v < h
  BY AskedAssumption
<1>2. h \in Nat /\ h + h <= IntWrap
  BY <1>1
<1>3. AtoiDigits(v) = ((v + h) % IntWrap) - h
  BY DEF AtoiDigits, Wrapped
<1> HIDE DEF h
<1>4. v + h \in Nat /\ v + h < IntWrap
  BY <1>1, <1>2
<1>5. (v + h) % IntWrap = v + h
  BY <1>1, <1>4
<1> QED BY <1>1, <1>2, <1>3, <1>5

(* From nowhere no segment leads anywhere.                                   *)
LEMMA NowhereBehind ==
    ASSUME NEW d, NEW tok
    PROVE  PlaceBehind(d, Nowhere, tok) = Nowhere
<1>1. Nowhere.kind = "absent"
  BY DEF Nowhere
<1>2. \A k : MemberAt(d, Nowhere, k) = Nowhere /\ ElementAt(d, Nowhere, k) = Nowhere
  <2>1. Nowhere.kind # "object" /\ Nowhere.kind # "array"
    BY Zenon, <1>1
  <2> QED BY Zenon, <2>1 DEF MemberAt, ElementAt
<1> QED BY Zenon, <1>2 DEF PlaceBehind

(* A segment of a path leads to the node of the place it names.              *)
LEMMA StepFollows ==
    ASSUME NEW d, d.text \in Seq(STRING), WellLaid(d), NEW n, NEW place,
           Follows(d, n, place), NEW tok \in Token,
           tok.kind = "digits" => tok.value < IntWrap \div 2
    PROVE  Follows(d, Step(n, tok), PlaceBehind(d, place, tok))
<1>1. CASE place = Nowhere
  <2>1. n = NoNode /\ n.typ = ZeroType
    BY <1>1 DEF Follows, NoNode
  <2>2. Step(n, tok) = NoNode
    BY Zenon, <2>1 DEF Step
  <2>3. PlaceBehind(d, place, tok) = Nowhere
    BY Zenon, <1>1, NowhereBehind
  <2> QED BY Zenon, <2>2, <2>3 DEF Follows
<1>2. CASE place # Nowhere
  <2>1. IsNodeAt(n, d.text, place)
    BY Zenon, <1>2 DEF Follows
  <2>2. n.typ # ZeroType
    BY <2>1, NodeAtPlace
  <2>3. \/ tok.kind = "empty"
        \/ tok.kind = "digits" /\ tok.value \in Nat
        \/ tok.kind = "name"
    BY DEF Token, EmptyToken
  <2>4. CASE tok.kind = "empty"
    <3>1. Step(n, tok) = n /\ PlaceBehind(d, place, tok) = place
      BY Zenon, <2>2, <2>4 DEF Step, PlaceBehind
    <3> QED BY Zenon, <3>1
  <2>5. CASE tok.kind = "digits" /\ tok.value \in Nat
    <3>1. "digits" # "empty"
      BY Zenon
    <3>2. /\ Step(n, tok) = ElementNode(n, AtoiDigits(tok.value))
          /\ PlaceBehind(d, place, tok) = ElementAt(d, place, tok.value)
      BY Zenon, <2>2, <2>5, <3>1 DEF Step, PlaceBehind
    <3>3. AtoiDigits(tok.value) = tok.value
      BY <2>5, DigitsRead
    <3>4. tok.value \in Int
      BY <2>5
    <3> QED BY Zenon, <3>2, <3>3, <3>4, ElementFollows
  <2>6. CASE tok.kind = "name"
    <3>1. "name" # "empty" /\ "name" # "digits"
      BY Zenon
    <3>2. /\ Step(n, tok) = GetBytes(n, tok.name)
          /\ PlaceBehind(d, place, tok) = MemberAt(d, place, tok.name)
      BY Zenon, <2>2, <2>6, <3>1 DEF Step, PlaceBehind
    <3> QED BY Zenon, <3>2, MemberFollows
  <2> QED BY <2>3, <2>4, <2>5, <2>6
<1> QED BY <1>1, <1>2

(* A sequence of members with one more in front, and where a key is found.     *)
LEMMA NodeOfInFront ==
    ASSUME NEW R, NEW mb \in R, NEW ms \in Seq(R), NEW key
    PROVE  NodeOf(<<mb>> \o ms, key) = IF mb.key = key THEN mb.node ELSE NodeOf(ms, key)
<1> DEFINE t == <<mb>> \o ms
           l == Len(ms)
<1>1. l \in Nat /\ Len(t) = l + 1 /\ t[1] = mb
  OBVIOUS
<1>2. \A k \in 1 .. l : t[k + 1] = ms[k]
  OBVIOUS
<1> HIDE DEF t
<1>3. Len(t) \in Nat
  BY <1>1
<1>4. CASE mb.key = key
  <2>1. 1 \in 1 .. Len(t) /\ 1 .. 1 - 1 = {}
    BY <1>1
  <2>2. NodeOf(t, key) = t[1].node
    BY <1>1, <1>3, <1>4, <2>1, NodeOfFirst
  <2> QED BY <1>1, <1>4, <2>2 DEF t
<1>5. CASE mb.key # key
  <2>1. ASSUME \A k \in 1 .. l : ms[k].key # key
        PROVE  NodeOf(t, key) = NodeOf(ms, key)
    <3>1. ASSUME NEW k \in 1 .. Len(t)
          PROVE  t[k].key # key
      <4>1. CASE k = 1
        BY <1>1, <1>5, <4>1
      <4>2. CASE k # 1
        <5>1. k - 1 \in 1 .. l /\ (k - 1) + 1 = k
          BY <1>1, <4>2
        <5>2. t[k] = ms[k - 1]
          BY <1>2, <5>1
        <5> QED BY <2>1, <5>1, <5>2
      <4> QED BY <4>1, <4>2
    <3>2. NodeOf(t, key) = NoNode
      BY <1>3, <3>1, NodeOfFirst
    <3>3. NodeOf(ms, key) = NoNode
      BY <1>1, <2>1, NodeOfFirst
    <3> QED BY <3>2, <3>3
  <2>2. ASSUME \E k \in 1 .. l : ms[k].key = key
        PROVE  NodeOf(t, key) = NodeOf(ms, key)
    <3> DEFINE I == {k \in 1 .. l : ms[k].key = key}
    <3>1. I # {} /\ I \in SUBSET Nat
      BY <2>2
    <3>2. PICK m \in I : \A k \in I : m <= k
      BY <3>1, Least
    <3>3. m \in 1 .. l /\ ms[m].key = key
      OBVIOUS
    <3>4. \A k \in 1 .. m - 1 : ms[k].key # key
      BY <1>1, <3>2, <3>3
    <3> HIDE DEF I
    <3>5. NodeOf(ms, key) = ms[m].node
      BY <1>1, <3>3, <3>4, NodeOfFirst
    <3>6. m + 1 \in 1 .. Len(t) /\ t[m + 1] = ms[m]
      BY <1>1, <1>2, <3>3
    <3>7. ASSUME NEW k \in 1 .. (m + 1) - 1
          PROVE  t[k].key # key
      <4>1. CASE k = 1
        BY <1>1, <1>5, <4>1
      <4>2. CASE k # 1
        <5>1. k - 1 \in 1 .. m - 1 /\ k - 1 \in 1 .. l /\ (k - 1) + 1 = k
          BY <1>1, <3>3, <4>2
        <5>2. t[k] = ms[k - 1]
          BY <1>2, <5>1
        <5> QED BY <3>4, <5>1, <5>2
      <4> QED BY <4>1, <4>2
    <3>8. t[m + 1].key = key
      BY <3>3, <3>6
    <3>9. NodeOf(t, key) = t[m + 1].node
      BY <1>3, <3>6, <3>7, <3>8, NodeOfFirst
    <3> QED BY <3>5, <3>6, <3>9
  <2> QED BY <1>5, <2>1, <2>2 DEF t
<1> QED BY <1>4, <1>5

(* The loop that stops at the first member with the key answers as the search  *)
(* among all the members does.                                               *)
LEMMA FirstMemberIsGet ==
    ASSUME NEW n \in Nodes, NEW key
    PROVE  FirstMember(n, key) = GetBytes(n, key)
<1> DEFINE S == Nat
           R == MemberSet(n)
           item(i) == [key |-> MemberKey(n, i), node |-> MemberNode(n, i)]
           Ends == {i \in S : ~ HasMember(n, i) \/ MemberKey(n, i) = key}
           pos == [i \in S |-> i]
           next == [i \in S |-> After(n, MemberNode(n, i))]
           val == [i \in S |-> IF HasMember(n, i) THEN MemberNode(n, i) ELSE NoNode]
           up == [x \in S \X Nodes |-> x[2]]
           rhs(f, i) == IF ~ HasMember(n, i) THEN NoNode
                        ELSE IF MemberKey(n, i) = key THEN MemberNode(n, i)
                        ELSE f[After(n, MemberNode(n, i))]
           Eq(f) == f = [i \in Nat |-> rhs(f, i)]
           w == CHOOSE f : Eq(f)
<1>1. FirstMember(n, key) = IF n.typ = "o" THEN w[n.start + 1] ELSE NoNode
  BY DEF FirstMember
<1>2. n.end \in Nat /\ pos \in [S -> Nat] /\ Ends \in SUBSET S
  BY DEF Nodes
<1>3. next \in [S -> S] /\ \A i \in S : pos[next[i]] > pos[i]
  BY MemberMoves
<1>4. \A i \in S : pos[i] > n.end => i \in Ends
  BY DEF HasMember, Nodes
<1>5. val \in [S -> Nodes]
  BY MemberMoves, NoNodeIsNode
<1>6. up \in [S \X Nodes -> Nodes]
  OBVIOUS
<1>7. ASSUME NEW f, NEW i \in S
      PROVE  rhs(f, i) = IF i \in Ends THEN val[i] ELSE f[next[i]]
  OBVIOUS
<1>8. ASSUME NEW f \in [S -> Nodes], NEW i \in S
      PROVE  up[<<i, f[next[i]]>>] = f[next[i]]
  <2>1. f[next[i]] \in Nodes
    BY <1>3
  <2> HIDE DEF next
  <2> QED BY <2>1
<1>9. n.start + 1 \in S
  BY DEF Nodes
<1>10. \A i \in S : /\ i \in Ends <=> ~ HasMember(n, i) \/ MemberKey(n, i) = key
                    /\ val[i] = IF HasMember(n, i) THEN MemberNode(n, i) ELSE NoNode
                    /\ next[i] = After(n, MemberNode(n, i))
  OBVIOUS
<1> HIDE DEF S, pos, Ends, next, val, up, rhs
<1>11. Moves(S, n.end, pos, Ends, next)
  BY <1>2, <1>3, <1>4 DEF Moves
<1>12. PICK f \in [S -> Nodes] : Builds(f, S, Ends, next, val, up)
  BY <1>11, <1>5, <1>6, BuildExists
<1>13. Eq(f)
  BY <1>7, <1>8, <1>12 DEF Builds, S
<1> HIDE DEF Eq
<1>14. Eq(w)
  BY <1>13
<1> HIDE DEF w
<1>15. \A i \in S : w[i] = IF i \in Ends THEN val[i] ELSE w[next[i]]
  BY <1>7, <1>14 DEF Eq, S
<1>16. PICK u : /\ Members(n) = IF n.typ = "o" THEN u[n.start + 1] ELSE <<>>
                /\ Scan(n, u)
  BY Zenon, MembersUnfold
<1>17. \A i \in S : /\ u[i] \in Seq(R)
                    /\ u[i] = IF HasMember(n, i) THEN <<item(i)>> \o u[next[i]] ELSE <<>>
  BY Zenon, <1>10, <1>16 DEF Scan, S
<1>18. \A i \in S : item(i) \in R /\ item(i).key = MemberKey(n, i)
                    /\ item(i).node = MemberNode(n, i)
  BY DEF MemberSet, S
<1> HIDE DEF item, R
<1>19. ASSUME NEW i \in S
       PROVE  NodeOf(u[i], key) = IF ~ HasMember(n, i) THEN NoNode
                                  ELSE IF MemberKey(n, i) = key THEN MemberNode(n, i)
                                  ELSE NodeOf(u[next[i]], key)
  <2>1. CASE ~ HasMember(n, i)
    <3>1. u[i] = <<>>
      BY <1>17, <2>1
    <3>2. Len(<<>>) = 0 /\ 0 \in Nat /\ 1 .. 0 = {}
      OBVIOUS
    <3>3. NodeOf(<<>>, key) = NoNode
      BY <3>2, NodeOfFirst
    <3> QED BY <2>1, <3>1, <3>3
  <2>2. CASE HasMember(n, i)
    <3>1. next[i] \in S
      BY <1>3
    <3>2. u[i] = <<item(i)>> \o u[next[i]] /\ u[next[i]] \in Seq(R) /\ item(i) \in R
      BY <1>17, <1>18, <2>2, <3>1
    <3>3. NodeOf(u[i], key) = IF item(i).key = key THEN item(i).node
                              ELSE NodeOf(u[next[i]], key)
      BY <3>2, NodeOfInFront
    <3> QED BY <1>18, <2>2, <3>3
  <2> QED BY <2>1, <2>2
<1> DEFINE P == {i \in S : w[i] = NodeOf(u[i], key)}
<1>20. ASSUME NEW i \in S, i \in Ends
       PROVE  i \in P
  BY <1>10, <1>15, <1>19, <1>20
<1>21. ASSUME NEW i \in S, i \notin Ends, next[i] \in P
       PROVE  i \in P
  BY <1>10, <1>15, <1>19, <1>21
<1> HIDE DEF P
<1>22. \A i \in S : i \in P
  <2>1. Inherited(S, Ends, next, P)
    BY <1>20, <1>21 DEF Inherited
  <2> QED BY <1>11, <2>1, WalkInduction
<1>23. CASE n.typ = "o"
  <2>1. w[n.start + 1] = NodeOf(u[n.start + 1], key)
    BY <1>9, <1>22 DEF P
  <2> QED BY <1>1, <1>16, <1>23, <2>1 DEF GetBytes
<1>24. CASE n.typ # "o"
  BY <1>1, <1>24, NoMember
<1> QED BY <1>23, <1>24

(* What GetBytes answers is a node.                                          *)
LEMMA GetBytesIsNode ==
    ASSUME NEW n \in Nodes, NEW key
    PROVE  GetBytes(n, key) \in Nodes
<1> DEFINE ms == Members(n)
           I == {m \in 1 .. Len(ms) : ms[m].key = key}
<1>1. Len(ms) \in Nat /\ \A m \in 1 .. Len(ms) : ms[m].node \in Nodes
  BY MembersTyped
<1> HIDE DEF ms
<1>2. NodeOf(ms, key) \in Nodes
  <2>1. CASE I = {}
    <3>1. NodeOf(ms, key) = NoNode
      BY <1>1, <2>1, NodeOfFirst
    <3> QED BY <3>1, NoNodeIsNode
  <2>2. CASE I # {}
    <3>1. I \in SUBSET Nat
      OBVIOUS
    <3>2. PICK m \in I : \A k \in I : m <= k
      BY <2>2, <3>1, Least
    <3>3. m \in 1 .. Len(ms) /\ ms[m].key = key
      OBVIOUS
    <3>4. \A k \in 1 .. m - 1 : ms[k].key # key
      BY <1>1, <3>2, <3>3
    <3>5. NodeOf(ms, key) = ms[m].node
      BY <1>1, <3>3, <3>4, NodeOfFirst
    <3> QED BY <1>1, <3>3, <3>5
  <2> QED BY <2>1, <2>2
<1> QED BY <1>2 DEF GetBytes, ms

(* at goes through the nodes GetPath comes to with the first keys of p.       *)
ThroughGets(n, p, at) ==
    /\ at \in [0 .. Len(p) -> Nodes]
    /\ at[0] = n
    /\ \A k \in 1 .. Len(p) :
         at[k] = IF k > 1 /\ at[k - 1].typ = ZeroType THEN at[k - 1]
                 ELSE GetBytes(at[k - 1], p[k])
    /\ GetPath(n, p) = at[Len(p)]

(* at goes through those that GetPathFast comes to.                          *)
ThroughScans(n, p, at) ==
    /\ at[0] = n
    /\ \A k \in 1 .. Len(p) : at[k] = FirstMember(at[k - 1], p[k])
    /\ GetPathFast(n, p) = at[Len(p)]

(* GetPath takes the keys one after the other.                               *)
LEMMA GetPathInSteps ==
    ASSUME NEW n \in Nodes, NEW p, Len(p) \in Nat
    PROVE  \E at : ThroughGets(n, p, at)
<1> DEFINE m == Len(p)
           one(v, k) == IF k > 1 /\ v.typ = ZeroType THEN v ELSE GetBytes(v, p[k])
           step == [x \in Nodes \X (1 .. m) |-> one(x[1], x[2])]
           Eq(f) == f = [k \in 0 .. Len(p) |->
                           LET cur == f[k - 1]
                           IN  IF k = 0 THEN n
                               ELSE IF k > 1 /\ cur.typ = ZeroType THEN cur
                               ELSE GetBytes(cur, p[k])]
           u == CHOOSE f : Eq(f)
<1>1. \A v \in Nodes, k \in 1 .. m : one(v, k) \in Nodes
  BY GetBytesIsNode
<1>2. GetPath(n, p) = u[m]
  BY DEF GetPath
<1>3. ASSUME NEW f
      PROVE  Eq(f) <=> f = [k \in 0 .. m |-> IF k = 0 THEN n ELSE one(f[k - 1], k)]
  OBVIOUS
<1> HIDE DEF one
<1>4. step \in [Nodes \X (1 .. m) -> Nodes]
  BY <1>1
<1>5. \A v \in Nodes, k \in 1 .. m : step[<<v, k>>] = one(v, k)
  OBVIOUS
<1> HIDE DEF step, m, Eq
<1>6. m \in Nat
  BY DEF m
<1>7. PICK f \in [0 .. m -> Nodes] : Steps(f, m, n, step)
  BY <1>4, <1>6, StepsExist
<1>8. ASSUME NEW k \in 0 .. m
      PROVE  f[k] = IF k = 0 THEN n ELSE one(f[k - 1], k)
  <2>1. CASE k = 0
    BY <1>7, <2>1 DEF Steps
  <2>2. CASE k # 0
    <3>1. k \in 1 .. m /\ k - 1 \in 0 .. m
      BY <1>6, <2>2
    <3>2. f[k - 1] \in Nodes
      BY <3>1
    <3>3. f[k] = step[<<f[k - 1], k>>]
      BY <1>7, <3>1 DEF Steps
    <3> QED BY <1>5, <2>2, <3>1, <3>2, <3>3
  <2> QED BY <2>1, <2>2
<1>9. f = [k \in 0 .. m |-> IF k = 0 THEN n ELSE one(f[k - 1], k)]
  BY <1>8
<1>10. Eq(f)
  BY <1>3, <1>9
<1>11. Eq(u)
  BY <1>10
<1> HIDE DEF u
<1>12. u = [k \in 0 .. m |-> IF k = 0 THEN n ELSE one(u[k - 1], k)]
  BY <1>3, <1>11
<1>13. u[0] = n /\ \A k \in 1 .. m : u[k] = one(u[k - 1], k)
  BY <1>6, <1>12
<1> DEFINE Q == {k \in Nat : k <= m => u[k] \in Nodes}
<1>14. 0 \in Q
  BY <1>13
<1>15. ASSUME NEW k \in Nat, k \in Q
       PROVE  k + 1 \in Q
  <2>1. SUFFICES ASSUME k + 1 <= m PROVE u[k + 1] \in Nodes
    OBVIOUS
  <2>2. k + 1 \in 1 .. m /\ (k + 1) - 1 = k /\ u[k] \in Nodes
    BY <1>6, <1>15, <2>1
  <2> QED BY <1>1, <1>13, <2>2
<1> HIDE DEF Q
<1>16. \A k \in Nat : k \in Q
  BY <1>14, <1>15, Induction
<1>17. u \in [0 .. m -> Nodes]
  <2>1. \A k \in 0 .. m : u[k] \in Nodes
    BY <1>6, <1>16 DEF Q
  <2> QED BY <1>12, <2>1
<1>18. ThroughGets(n, p, u)
  BY <1>2, <1>13, <1>17 DEF ThroughGets, one, m
<1> QED BY <1>18

(* So does GetPathFast.                                                      *)
LEMMA GetPathFastInSteps ==
    ASSUME NEW n \in Nodes, NEW p, Len(p) \in Nat
    PROVE  \E at : ThroughScans(n, p, at)
<1> DEFINE m == Len(p)
           step == [x \in Nodes \X (1 .. m) |-> FirstMember(x[1], p[x[2]])]
           Eq(f) == f = [k \in 0 .. Len(p) |->
                           IF k = 0 THEN n ELSE FirstMember(f[k - 1], p[k])]
           u == CHOOSE f : Eq(f)
<1>1. \A v \in Nodes : \A key : FirstMember(v, key) \in Nodes
  BY FirstMemberIsGet, GetBytesIsNode
<1>2. GetPathFast(n, p) = u[m]
  BY DEF GetPathFast
<1>3. step \in [Nodes \X (1 .. m) -> Nodes]
  BY <1>1
<1>4. \A v \in Nodes, k \in 1 .. m : step[<<v, k>>] = FirstMember(v, p[k])
  OBVIOUS
<1>5. ASSUME NEW f
      PROVE  Eq(f) <=> f = [k \in 0 .. m |-> IF k = 0 THEN n ELSE FirstMember(f[k - 1], p[k])]
  OBVIOUS
<1> HIDE DEF step, m, Eq
<1>6. m \in Nat
  BY DEF m
<1>7. PICK f \in [0 .. m -> Nodes] : Steps(f, m, n, step)
  BY <1>3, <1>6, StepsExist
<1>8. ASSUME NEW k \in 0 .. m
      PROVE  f[k] = IF k = 0 THEN n ELSE FirstMember(f[k - 1], p[k])
  <2>1. CASE k = 0
    BY <1>7, <2>1 DEF Steps
  <2>2. CASE k # 0
    <3>1. k \in 1 .. m /\ k - 1 \in 0 .. m
      BY <1>6, <2>2
    <3>2. f[k - 1] \in Nodes
      BY <3>1
    <3>3. f[k] = step[<<f[k - 1], k>>]
      BY <1>7, <3>1 DEF Steps
    <3> QED BY <1>4, <2>2, <3>1, <3>2, <3>3
  <2> QED BY <2>1, <2>2
<1>9. f = [k \in 0 .. m |-> IF k = 0 THEN n ELSE FirstMember(f[k - 1], p[k])]
  BY <1>8
<1>10. Eq(f)
  BY <1>5, <1>9
<1>11. Eq(u)
  BY <1>10
<1> HIDE DEF u
<1>12. u = [k \in 0 .. m |-> IF k = 0 THEN n ELSE FirstMember(u[k - 1], p[k])]
  BY <1>5, <1>11
<1>13. u[0] = n /\ \A k \in 1 .. m : u[k] = FirstMember(u[k - 1], p[k])
  BY <1>6, <1>12
<1>14. ThroughScans(n, p, u)
  BY <1>2, <1>13 DEF ThroughScans, m
<1> QED BY <1>14

(* For any node of any text, also of one that is cut off, and any keys,      *)
(* GetPathFast answers what GetPath answers; where that is a node without a   *)
(* type, for a value that is missing, GetPathFast may answer the empty node.  *)
THEOREM GetPathFastAsGetPath ==
    ASSUME NEW n \in Nodes, NEW K, NEW keyList \in Seq(K)
    PROVE  \/ GetPathFast(n, keyList) = GetPath(n, keyList)
           \/ GetPathFast(n, keyList) = NoNode /\ GetPath(n, keyList).typ = ZeroType
<1> DEFINE m == Len(keyList)
<1>1. m \in Nat
  OBVIOUS
<1>2. PICK s : ThroughGets(n, keyList, s)
  BY Zenon, <1>1, GetPathInSteps
<1>3. PICK f : ThroughScans(n, keyList, f)
  BY Zenon, <1>1, GetPathFastInSteps
<1>4. /\ s[0] = n /\ f[0] = n
      /\ \A k \in 0 .. m : s[k] \in Nodes
      /\ \A k \in 1 .. m : f[k] = FirstMember(f[k - 1], keyList[k])
      /\ \A k \in 1 .. m :
           s[k] = IF k > 1 /\ s[k - 1].typ = ZeroType THEN s[k - 1]
                  ELSE GetBytes(s[k - 1], keyList[k])
      /\ GetPath(n, keyList) = s[m] /\ GetPathFast(n, keyList) = f[m]
  BY <1>2, <1>3 DEF ThroughGets, ThroughScans
<1> HIDE DEF m
<1>5. \A v, key : v.typ = ZeroType => FirstMember(v, key) = NoNode
  <2>1. ZeroType # "o"
    BY Zenon DEF ZeroType
  <2> QED BY Zenon, <2>1 DEF FirstMember
<1>6. NoNode.typ = ZeroType
  BY DEF NoNode
<1> DEFINE Alike(k) == \/ f[k] = s[k]
                       \/ k > 0 /\ f[k] = NoNode /\ s[k].typ = ZeroType
           P == {k \in Nat : k <= m => Alike(k)}
<1>7. 0 \in P
  BY <1>4
<1>8. ASSUME NEW k \in Nat, k \in P
      PROVE  k + 1 \in P
  <2>1. SUFFICES ASSUME k + 1 <= m PROVE Alike(k + 1)
    OBVIOUS
  <2>2. k + 1 \in 1 .. m /\ (k + 1) - 1 = k /\ k \in 0 .. m /\ Alike(k)
    BY <1>1, <1>8, <2>1
  <2>3. /\ s[k] \in Nodes
        /\ f[k + 1] = FirstMember(f[k], keyList[k + 1])
        /\ s[k + 1] = IF k + 1 > 1 /\ s[k].typ = ZeroType THEN s[k]
                      ELSE GetBytes(s[k], keyList[k + 1])
    BY <1>4, <2>2
  <2>4. CASE k > 0 /\ s[k].typ = ZeroType
    <3>1. f[k].typ = ZeroType
      BY <1>6, <2>2, <2>4
    <3>2. f[k + 1] = NoNode
      BY <1>5, <2>3, <3>1
    <3>3. s[k + 1] = s[k]
      BY <2>3, <2>4
    <3> QED BY <2>4, <3>2, <3>3
  <2>5. CASE ~ (k > 0 /\ s[k].typ = ZeroType)
    <3>1. f[k] = s[k]
      BY <2>2, <2>5
    <3>2. FirstMember(s[k], keyList[k + 1]) = GetBytes(s[k], keyList[k + 1])
      BY <2>3, FirstMemberIsGet
    <3>3. s[k + 1] = GetBytes(s[k], keyList[k + 1])
      BY <2>3, <2>5
    <3> QED BY <2>3, <3>1, <3>2, <3>3
  <2> QED BY <2>4, <2>5
<1> HIDE DEF P
<1>9. \A k \in Nat : k \in P
  BY <1>7, <1>8, Induction
<1>10. Alike(m)
  BY <1>1, <1>9 DEF P
<1> QED BY <1>4, <1>10

(* GetPath and GetPathFast of two keys lead where Get of the one and then of   *)
(* the other does.                                                           *)
LEMMA PathOfTwoFollows ==
    ASSUME NEW d, d.text \in Seq(STRING), WellLaid(d), NEW n, NEW place,
           Follows(d, n, place), NEW key1, NEW key2
    PROVE  LET there == MemberAt(d, MemberAt(d, place, key1), key2)
           IN  /\ Follows(d, GetPath(n, <<key1, key2>>), there)
               /\ Follows(d, GetPathFast(n, <<key1, key2>>), there)
<1> DEFINE p == <<key1, key2>>
           v == GetBytes(n, key1)
           one == MemberAt(d, place, key1)
           there == MemberAt(d, one, key2)
<1>1. \A x, at : Follows(d, x, at) =>
        x \in Nodes /\ (x.typ = ZeroType => x = NoNode)
  BY NodeAtPlace, NoNodeIsNode DEF Follows
<1>2. n \in Nodes
  BY <1>1
<1>3. Follows(d, v, one)
  BY MemberFollows
<1>4. Follows(d, GetBytes(v, key2), there)
  BY <1>3, MemberFollows
<1>5. Len(p) = 2 /\ Len(p) \in Nat /\ p[1] = key1 /\ p[2] = key2 /\ p \in Seq({key1, key2})
  OBVIOUS
<1> HIDE DEF p
<1>6. PICK at : ThroughGets(n, p, at)
  BY Zenon, <1>2, <1>5, GetPathInSteps
<1>7. /\ at[0] = n /\ GetPath(n, p) = at[2]
      /\ at[1] = GetBytes(at[0], p[1])
      /\ at[2] = IF at[1].typ = ZeroType THEN at[1] ELSE GetBytes(at[1], p[2])
  <2>1. /\ 1 \in 1 .. Len(p) /\ 2 \in 1 .. Len(p) /\ 1 - 1 = 0 /\ 2 - 1 = 1
        /\ ~ (1 > 1) /\ 2 > 1
    BY <1>5
  <2> QED BY <1>5, <1>6, <2>1 DEF ThroughGets
<1>8. at[1] = v
  BY <1>5, <1>7
<1>9. GetPath(n, p) = GetBytes(v, key2)
  <2>1. CASE v.typ = ZeroType
    <3>1. v = NoNode
      BY <1>1, <1>3, <2>1
    <3>2. GetBytes(NoNode, key2) = NoNode
      <4>1. NoNode.typ # "o"
        BY Zenon, <2>1, <3>1 DEF ZeroType
      <4> QED BY <4>1, NoMember
    <3> QED BY <1>7, <1>8, <2>1, <3>1, <3>2
  <2>2. CASE v.typ # ZeroType
    BY <1>5, <1>7, <1>8, <2>2
  <2> QED BY <2>1, <2>2
<1>10. Follows(d, GetPath(n, p), there)
  BY <1>4, <1>9
<1>11. GetPathFast(n, p) = GetPath(n, p)
  <2>1. \/ GetPathFast(n, p) = GetPath(n, p)
        \/ GetPathFast(n, p) = NoNode /\ GetPath(n, p).typ = ZeroType
    BY <1>2, <1>5, GetPathFastAsGetPath
  <2> QED BY <1>1, <1>10, <2>1
<1> QED BY <1>10, <1>11 DEF p

(* at goes through the places the first tokens of p name, in m steps.        *)
ThroughPlaces(d, p, m, at) ==
    /\ at[0] = d.value
    /\ \A j \in 1 .. m : at[j] = PlaceBehind(d, at[j - 1], p[j])
    /\ PlaceAt(d, p) = at[m]

(* So does the reference.                                                    *)
LEMMA PlaceInSteps ==
    ASSUME NEW d, NEW p, NEW m \in Nat, DOMAIN p = 1 .. m
    PROVE  \E at : ThroughPlaces(d, p, m, at)
<1> DEFINE S == SUBSET (1 .. m)
           rhs(f, s) == IF s = {} THEN d.value
                        ELSE PlaceBehind(d, f[s \ {Max(s)}], p[Max(s)])
           Eq(f) == f = [s \in SUBSET DOMAIN p |-> rhs(f, s)]
           u == CHOOSE f : Eq(f)
           Fits(f, c) == \A s \in S : Cardinality(s) <= c => f[s] = rhs(f, s)
           N == {c \in Nat : \E f : Fits(f, c)}
<1>1. PlaceAt(d, p) = u[1 .. m]
  BY DEF PlaceAt, FoldLeft, MapThenFoldSet
<1> HIDE DEF u
<1>2. \A s \in S :
        /\ Cardinality(s) \in Nat
        /\ s # {} => /\ Max(s) \in s /\ s \ {Max(s)} \in S
                     /\ Cardinality(s \ {Max(s)}) = Cardinality(s) - 1
        /\ Cardinality(s) <= m
  BY IndexSets
<1>3. 0 \in N
  <2> DEFINE f == [s \in S |-> d.value]
  <2>1. ASSUME NEW s \in S, Cardinality(s) <= 0
        PROVE  f[s] = rhs(f, s)
    <3>1. s = {}
      <4>1. CASE s # {}
        <5>1. Cardinality(s \ {Max(s)}) \in Nat
          BY <1>2, <4>1
        <5> QED BY <1>2, <2>1, <4>1, <5>1
      <4> QED BY <4>1
    <3> QED BY <3>1
  <2> HIDE DEF f, rhs
  <2>2. Fits(f, 0)
    BY <2>1
  <2> HIDE DEF Fits
  <2> QED BY <2>2
<1>4. ASSUME NEW c \in Nat, c \in N
      PROVE  c + 1 \in N
  <2>1. PICK f : Fits(f, c)
    BY <1>4
  <2> DEFINE g == [s \in S |-> IF Cardinality(s) <= c THEN f[s] ELSE rhs(f, s)]
  <2>2. ASSUME NEW s \in S, Cardinality(s) <= c + 1
        PROVE  g[s] = rhs(g, s)
    <3>1. g[s] = rhs(f, s)
      BY <2>1
    <3>2. s # {} => g[s \ {Max(s)}] = f[s \ {Max(s)}]
      BY <1>2, <2>2
    <3> HIDE DEF g
    <3> QED BY <3>1, <3>2
  <2> HIDE DEF g, rhs
  <2>3. Fits(g, c + 1)
    BY <2>2
  <2> HIDE DEF Fits
  <2> QED BY <2>3
<1>5. m \in N
  <2> HIDE DEF N
  <2> QED BY <1>3, <1>4, Induction
<1>6. PICK f : \A s \in S : f[s] = rhs(f, s)
  <2> HIDE DEF rhs
  <2> QED BY <1>2, <1>5
<1>7. Eq([s \in S |-> f[s]])
  <2> DEFINE g == [s \in S |-> f[s]]
  <2>1. ASSUME NEW s \in S
        PROVE  g[s] = rhs(g, s)
    <3>1. s # {} => g[s \ {Max(s)}] = f[s \ {Max(s)}]
      BY <1>2
    <3>2. g[s] = f[s]
      OBVIOUS
    <3> HIDE DEF g
    <3> QED BY <1>6, <3>1, <3>2
  <2> HIDE DEF rhs
  <2> QED BY <2>1
<1>8. Eq(u)
  <2> HIDE DEF Eq
  <2> QED BY <1>7 DEF u
<1>9. ASSUME NEW s \in S
      PROVE  u[s] = rhs(u, s)
  <2> HIDE DEF rhs
  <2> QED BY <1>8
<1> DEFINE at == [j \in 0 .. m |-> u[1 .. j]]
<1>10. at[0] = d.value
  <2>1. 1 .. 0 = {} /\ 0 \in 0 .. m
    OBVIOUS
  <2> QED BY <1>9, <2>1
<1>11. ASSUME NEW j \in 1 .. m
       PROVE  at[j] = PlaceBehind(d, at[j - 1], p[j])
  <2>1. 1 .. j \in S /\ 1 .. j # {} /\ j \in 0 .. m /\ j - 1 \in 0 .. m
    OBVIOUS
  <2>2. Max(1 .. j) = j
    BY IndexSets
  <2>3. (1 .. j) \ {j} = 1 .. j - 1
    OBVIOUS
  <2>4. u[1 .. j] = PlaceBehind(d, u[1 .. j - 1], p[j])
    BY <1>9, <2>1, <2>2, <2>3
  <2> QED BY <2>1, <2>4
<1>12. PlaceAt(d, p) = at[m]
  BY <1>1
<1> HIDE DEF at
<1>13. ThroughPlaces(d, p, m, at)
  BY <1>10, <1>11, <1>12 DEF ThroughPlaces
<1> QED BY <1>13

(* findByPath has the node of the place the path names, however long the path *)
(* and the text are.                                                         *)
LEMMA PathFollows ==
    ASSUME NEW d, d.text \in Seq(STRING), WellLaid(d),
           d.value = Nowhere => Blank(d.text, 1, Len(d.text) + 1),
           NEW p \in Seq(Token), FitsInt(p)
    PROVE  Follows(d, FindByPath(d.text, p), PlaceAt(d, p))
<1> DEFINE m == Len(p)
<1>1. m \in Nat /\ DOMAIN p = 1 .. m /\ \A j \in 1 .. m : p[j] \in Token
  OBVIOUS
<1> HIDE DEF m
<1> PICK cur : ThroughNodes(d.text, p, m, cur)
  BY <1>1, PathInSteps
<1>2. /\ cur[0] = FromBytes(d.text)
      /\ \A j \in 1 .. m : cur[j] = Step(cur[j - 1], p[j])
      /\ FindByPath(d.text, p) = cur[m]
  BY DEF ThroughNodes
<1> PICK place : ThroughPlaces(d, p, m, place)
  BY <1>1, PlaceInSteps
<1>3. /\ place[0] = d.value
      /\ \A j \in 1 .. m : place[j] = PlaceBehind(d, place[j - 1], p[j])
      /\ PlaceAt(d, p) = place[m]
  BY DEF ThroughPlaces
<1> DEFINE P == {j \in Nat : j <= m => Follows(d, cur[j], place[j])}
<1>4. 0 \in P
  BY <1>2, <1>3, ValueFound
<1>5. ASSUME NEW j \in Nat, j \in P
      PROVE  j + 1 \in P
  <2>1. SUFFICES ASSUME j + 1 <= m
                 PROVE  Follows(d, cur[j + 1], place[j + 1])
    OBVIOUS
  <2> DEFINE k == j + 1
  <2>2. k \in 1 .. m /\ k - 1 = j /\ Follows(d, cur[j], place[j])
    BY <1>1, <1>5, <2>1
  <2> HIDE DEF k
  <2>3. /\ cur[k] = Step(cur[j], p[k])
        /\ place[k] = PlaceBehind(d, place[j], p[k])
    BY <1>2, <1>3, <2>2
  <2>4. p[k] \in Token /\ (p[k].kind = "digits" => p[k].value < IntWrap \div 2)
    BY <1>1, <2>2 DEF FitsInt
  <2>5. Follows(d, cur[k], place[k])
    BY Zenon, <2>2, <2>3, <2>4, StepFollows
  <2> QED BY <2>5 DEF k
<1>6. m \in P
  <2> HIDE DEF P
  <2> QED BY <1>1, <1>4, <1>5, Induction
<1> QED BY <1>1, <1>2, <1>3, <1>6

(* What follows a place gives the text there.                                *)
LEMMA TextFollows ==
    ASSUME NEW d, d.text \in Seq(STRING), NEW n, NEW place, Follows(d, n, place)
    PROVE  /\ place = Nowhere => n = NoNode
           /\ place # Nowhere =>
                /\ n.typ # ZeroType
                /\ TrimSpaceBytes(Raw(n)) = SubSeq(d.text, place.start, place.end - 1)
<1>1. CASE place = Nowhere
  BY <1>1 DEF Follows
<1>2. CASE place # Nowhere
  <2>1. IsNodeAt(n, d.text, place)
    BY Zenon, <1>2 DEF Follows
  <2>2. n.typ # ZeroType
    BY <2>1, NodeAtPlace
  <2>3. TrimSpaceBytes(Raw(n)) = SubSeq(d.text, place.start, place.end - 1)
    BY Zenon, <2>1, TrimmedToValue
  <2> QED BY <1>2, <2>2, <2>3
<1> QED BY <1>1, <1>2

-----------------------------------------------------------------------------
(* The strict scan and ArrayIndex.  They see a text b that is cut out of that  *)
(* of a document d, behind its first off characters.                         *)

(* The value at a place lies in the cut, and no number goes on behind it.     *)
InCut(d, b, off, place) ==
    /\ place.start \in Nat /\ place.end \in Nat
    /\ off < place.start /\ place.end - off <= Len(b) + 1
    /\ IsSpan(d.text, place.start, place.end, place.kind) /\ Known(d, place)
    /\ NumberStops(b, place.end - off)

(* So do the items of a container there.                                     *)
LEMMA ItemsInCut ==
    ASSUME NEW d, d.text \in Seq(STRING), Laid(d), NEW b, NEW off, Cut(b, d.text, off),
           NEW place, InCut(d, b, off, place), place.kind \in {"array", "object"}
    PROVE  LET c == ContainerAt(d, place)
           IN  /\ c.text = d.text /\ c.kind = place.kind /\ c.items = d.inside[place]
               /\ Encloses(c, place.start, place.end)
               /\ \A k \in 1 .. Len(c.items) :
                    LET item == Place(c.items[k])
                    IN  /\ InCut(d, b, off, item)
                        /\ item.start > place.start /\ item.end < place.end
                        /\ item.start = c.items[k].start /\ item.end = c.items[k].end
<1> DEFINE c == ContainerAt(d, place)
           s == place.start
           e == place.end
<1>1. c.text = d.text /\ c.kind = place.kind /\ c.items = d.inside[place]
  BY ContainerFields
<1>2. /\ s \in Nat /\ e \in Nat /\ off < s /\ e - off <= Len(b) + 1
      /\ place \in DOMAIN d.inside
  BY Zenon DEF InCut, Known
<1>3. /\ Encloses(c, s, e)
      /\ \A k \in DOMAIN d.inside[place] : Known(d, Place(d.inside[place][k]))
  BY Zenon, <1>2 DEF Laid
<1>4. off \in Nat /\ Len(b) \in Nat
  BY DEF Cut
<1> HIDE DEF c, s, e
<1>5. c.text \in Seq(STRING) /\ Cut(b, c.text, off)
  BY <1>1
<1>6. ASSUME NEW k \in 1 .. Len(c.items)
      PROVE  LET item == Place(c.items[k])
             IN  /\ InCut(d, b, off, item)
                 /\ item.start > s /\ item.end < e
                 /\ item.start = c.items[k].start /\ item.end = c.items[k].end
  <2> DEFINE it == c.items[k]
             item == Place(it)
  <2>1. /\ it.start \in Nat \ {0} /\ it.end \in Nat
        /\ s + 1 <= it.start /\ it.start < it.end /\ it.end <= e - 1
        /\ IsSpan(c.text, it.start, it.end, it.kind)
    BY <1>3, <1>5, ItemInFrame
  <2>2. NumberStops(b, it.end - off)
    BY <1>2, <1>3, <1>5, ItemStops
  <2>3. Known(d, item)
    <3>1. DOMAIN c.items = 1 .. Len(c.items)
      BY Zenon, <1>3 DEF Encloses
    <3> QED BY <1>1, <1>3, <3>1
  <2> HIDE DEF it
  <2>4. item.start = it.start /\ item.end = it.end /\ item.kind = it.kind
    BY PlaceFields
  <2> HIDE DEF item
  <2>5. off < it.start /\ it.end - off <= Len(b) + 1
    BY <1>2, <1>4, <2>1
  <2>6. InCut(d, b, off, item)
    BY <1>1, <2>1, <2>2, <2>3, <2>4, <2>5 DEF InCut
  <2>7. item.start > s /\ item.end < e
    BY <1>2, <2>1, <2>4
  <2> QED BY <2>4, <2>6, <2>7 DEF it, item
<1> QED BY <1>1, <1>3, <1>6 DEF c, s, e

(* skipValue goes over the value at a place of the document.                 *)
LEMMA SkipFinds ==
    ASSUME NEW d, d.text \in Seq(STRING), Laid(d), NEW b, NEW off, Cut(b, d.text, off)
    PROVE  \A place : InCut(d, b, off, place) =>
              SkipValue(b, place.start - off) = place.end - off
<1>1. off \in Nat /\ Len(b) \in Nat
  BY DEF Cut
<1>2. PICK u : Forwards(u) /\ Scans(b, u) /\ \A i : SkipValue(b, i) = ValueSkipped(b, u, i)
  BY <1>1, SkipValueUnfolds
<1> DEFINE Crossed(place) == ValueSkipped(b, u, place.start - off) = place.end - off
           P == {m \in Nat : \A place :
                   InCut(d, b, off, place) /\ place.end - place.start <= m => Crossed(place)}
<1>3. ASSUME NEW place, InCut(d, b, off, place)
      PROVE  /\ place.start \in Nat /\ place.end \in Nat /\ place.start < place.end
             /\ off < place.start /\ place.end - off <= Len(b) + 1
             /\ IsSpan(d.text, place.start, place.end, place.kind)
             /\ NumberStops(b, place.end - off)
  <2>1. /\ place.start \in Nat /\ place.end \in Nat
        /\ off < place.start /\ place.end - off <= Len(b) + 1
        /\ IsSpan(d.text, place.start, place.end, place.kind)
        /\ NumberStops(b, place.end - off)
    BY <1>3 DEF InCut
  <2> QED BY <2>1, SpanBegins
<1>4. 0 \in P
  <2> SUFFICES ASSUME NEW place, InCut(d, b, off, place), place.end - place.start <= 0
               PROVE  FALSE
    BY Zenon
  <2> QED BY <1>3
<1>5. ASSUME NEW m \in Nat, m \in P
      PROVE  m + 1 \in P
  <2>1. ASSUME NEW place, InCut(d, b, off, place), place.end - place.start <= m + 1
        PROVE  Crossed(place)
    <3>1. CASE place.kind \notin {"array", "object"}
      BY <1>3, <2>1, <3>1, ScalarSkipped
    <3>2. CASE place.kind \in {"array", "object"}
      <4> DEFINE c == ContainerAt(d, place)
      <4>1. /\ c.text = d.text
            /\ Encloses(c, place.start, place.end)
            /\ \A k \in 1 .. Len(c.items) :
                 LET item == Place(c.items[k])
                 IN  /\ InCut(d, b, off, item)
                     /\ item.start > place.start /\ item.end < place.end
                     /\ item.start = c.items[k].start /\ item.end = c.items[k].end
        BY <2>1, <3>2, ItemsInCut
      <4> HIDE DEF c
      <4>2. ASSUME NEW k \in 1 .. Len(c.items)
            PROVE  ValueSkipped(b, u, c.items[k].start - off) = c.items[k].end - off
        <5> DEFINE item == Place(c.items[k])
        <5>1. /\ InCut(d, b, off, item)
              /\ item.start > place.start /\ item.end < place.end
              /\ item.start = c.items[k].start /\ item.end = c.items[k].end
          BY <4>1
        <5> HIDE DEF item
        <5>2. item.end - item.start <= m
          <6>1. item.start \in Nat /\ item.end \in Nat
            BY <1>3, <5>1
          <6>2. place.start \in Nat /\ place.end \in Nat
            BY <1>3, <2>1
          <6> QED BY <2>1, <5>1, <6>1, <6>2
        <5>3. Crossed(item)
          BY <1>5, <5>1, <5>2
        <5> QED BY <5>1, <5>3
      <4>3. c.text \in Seq(STRING) /\ Cut(b, c.text, off)
        BY <4>1
      <4>4. off < place.start /\ place.end - off <= Len(b) + 1
        BY <1>3, <2>1
      <4> QED BY <1>2, <4>1, <4>2, <4>3, <4>4, ContainerSkipped
    <3> QED BY <3>1, <3>2
  <2> HIDE DEF Found
  <2> QED BY <2>1
<1> HIDE DEF P
<1>6. \A m \in Nat : m \in P
  BY <1>4, <1>5, Induction
<1>7. ASSUME NEW place, InCut(d, b, off, place)
      PROVE  SkipValue(b, place.start - off) = place.end - off
  <2>1. place.end - place.start \in Nat
    BY <1>3, <1>7
  <2>2. place.end - place.start \in P /\ place.end - place.start <= place.end - place.start
    BY <1>6, <2>1
  <2>3. Crossed(place)
    BY <1>7, <2>2 DEF P
  <2> QED BY <1>2, <2>3
<1> QED BY <1>7

(* skipValue fails or goes on.                                               *)
LEMMA SkipValueMoves ==
    ASSUME NEW b, Len(b) \in Nat, NEW i \in Nat
    PROVE  GoesOn(SkipValue(b, i), i)
<1>1. PICK u : Forwards(u) /\ \A j : SkipValue(b, j) = ValueSkipped(b, u, j)
  BY SkipValueUnfolds
<1> QED BY <1>1, ValueSkippedMoves

NoElementThere == [found |-> FALSE, node |-> NoNode]
ElementThereOf(text) == [found |-> TRUE, node |-> New(text)]

(* One step of the scan of ArrayIndex, at element idx, from i on.             *)
IndexStep(b, want, f, idx, i) ==
    LET s == SkipSpaces(b, i)
        end == SkipValue(b, s)
        comma == SkipSpaces(b, end)
    IN  IF s > Len(b) \/ b[s] = "]" \/ end = 0 THEN NoElementThere
        ELSE IF idx = want THEN ElementThereOf(SubSeq(b, s, end - 1))
        ELSE IF comma > Len(b) \/ b[comma] # "," THEN NoElementThere
        ELSE f[<<idx + 1, comma + 1>>]

IndexScan(b, want, u) ==
    \A idx \in Nat, i \in Nat : u[<<idx, i>>] = IndexStep(b, want, u, idx, i)

(* The scan ends, at the element that is wanted or where there is none.       *)
LEMMA ArrayIndexUnfolds ==
    ASSUME NEW n, Len(n.raw) \in Nat, NEW want \in Int
    PROVE  LET b == n.raw
               open == SkipSpaces(b, 1)
           IN  \E u : /\ ArrayIndex(n, want) =
                           IF want < 0 \/ open > Len(b) \/ b[open] # "[" THEN NoElementThere
                           ELSE u[<<0, open + 1>>]
                      /\ IndexScan(b, want, u)
<1> DEFINE b == n.raw
           len == Len(b)
           S == Nat \X Nat
           from(i) == SkipSpaces(b, i)
           end(i) == SkipValue(b, from(i))
           comma(i) == SkipSpaces(b, end(i))
           Breaks(i) == from(i) > Len(b) \/ b[from(i)] = "]" \/ end(i) = 0
           NoMore(i) == comma(i) > Len(b) \/ b[comma(i)] # ","
           pos == [s \in S |-> s[2]]
           Ends == {s \in S : Breaks(s[2]) \/ s[1] = want \/ NoMore(s[2])}
           next == [s \in S |-> <<s[1] + 1, comma(s[2]) + 1>>]
           At(s) == IF Breaks(s[2]) THEN NoElementThere
                    ELSE IF s[1] = want THEN ElementThereOf(SubSeq(b, from(s[2]), end(s[2]) - 1))
                    ELSE NoElementThere
           V == {At(s) : s \in S}
           val == [s \in S |-> At(s)]
           up == [x \in S \X V |-> x[2]]
           rhs(f, s) == IF Breaks(s[2]) THEN NoElementThere
                        ELSE IF s[1] = want
                          THEN ElementThereOf(SubSeq(b, from(s[2]), end(s[2]) - 1))
                        ELSE IF NoMore(s[2]) THEN NoElementThere
                        ELSE f[<<s[1] + 1, comma(s[2]) + 1>>]
           Eq(f) == f = [s \in Nat \X Nat |-> rhs(f, s)]
           u == CHOOSE f : Eq(f)
           open == SkipSpaces(b, 1)
<1>1. ArrayIndex(n, want) =
        IF want < 0 \/ open > Len(b) \/ b[open] # "[" THEN NoElementThere ELSE u[<<0, open + 1>>]
  BY Zenon DEF ArrayIndex, NoElementThere, ElementThereOf
<1>2. ASSUME NEW i \in Nat
      PROVE  /\ from(i) \in Nat /\ from(i) >= i
             /\ end(i) \in Nat /\ (end(i) = 0 \/ end(i) > from(i))
             /\ comma(i) \in Nat /\ comma(i) >= end(i)
  <2>1. from(i) \in Nat /\ from(i) >= i
    BY SkipSpacesMoves
  <2>2. end(i) \in Nat /\ (end(i) = 0 \/ end(i) > from(i))
    <3> HIDE DEF from
    <3> QED BY <2>1, SkipValueMoves DEF GoesOn
  <2>3. comma(i) \in Nat /\ comma(i) >= end(i)
    <3> HIDE DEF end
    <3> QED BY <2>2, SkipSpacesMoves
  <2> QED BY <2>1, <2>2, <2>3
<1> HIDE DEF from, end, comma
<1>3. ASSUME NEW s \in S
      PROVE  /\ s[1] \in Nat /\ s[2] \in Nat
             /\ next[s] = <<s[1] + 1, comma(s[2]) + 1>>
             /\ next[s] \in S /\ pos[next[s]] = comma(s[2]) + 1 /\ pos[s] = s[2]
  <2>1. s[1] \in Nat /\ s[2] \in Nat
    OBVIOUS
  <2>2. comma(s[2]) \in Nat
    BY <1>2, <2>1
  <2> QED BY <2>1, <2>2
<1>4. len \in Nat /\ pos \in [S -> Nat] /\ Ends \in SUBSET S /\ next \in [S -> S]
  <2>1. pos \in [S -> Nat]
    OBVIOUS
  <2>2. \A s \in S : <<s[1] + 1, comma(s[2]) + 1>> \in S
    BY <1>3
  <2>3. next \in [S -> S]
    BY <2>2
  <2>4. Ends \in SUBSET S
    OBVIOUS
  <2> QED BY <2>1, <2>3, <2>4
<1>5. \A s \in S : pos[s] > len => s \in Ends
  <2> SUFFICES ASSUME NEW s \in S, pos[s] > len PROVE s \in Ends
    OBVIOUS
  <2>1. s[2] \in Nat /\ s[2] > len
    BY <1>3
  <2>2. from(s[2]) \in Nat /\ from(s[2]) >= s[2]
    BY <1>2, <2>1
  <2>3. from(s[2]) > Len(b)
    <3> DEFINE x == s[2]
               y == from(s[2])
    <3>1. x \in Nat /\ y \in Nat /\ len \in Nat /\ x > len /\ y >= x
      BY <1>4, <2>1, <2>2
    <3> HIDE DEF x, y, len
    <3>2. y > len
      BY <3>1
    <3> QED BY <3>2 DEF y, len
  <2>4. Breaks(s[2])
    BY <2>3
  <2> HIDE DEF Breaks
  <2> QED BY <2>4
<1>6. \A s \in S : s \notin Ends => pos[next[s]] > pos[s]
  <2> SUFFICES ASSUME NEW s \in S, s \notin Ends PROVE pos[next[s]] > pos[s]
    OBVIOUS
  <2>1. end(s[2]) # 0
    OBVIOUS
  <2>2. /\ s[2] \in Nat /\ pos[next[s]] = comma(s[2]) + 1 /\ pos[s] = s[2]
    BY <1>3
  <2>3. /\ from(s[2]) \in Nat /\ from(s[2]) >= s[2]
        /\ end(s[2]) \in Nat /\ end(s[2]) > from(s[2])
        /\ comma(s[2]) \in Nat /\ comma(s[2]) >= end(s[2])
    BY <1>2, <2>1, <2>2
  <2> HIDE DEF pos, next, S, Ends
  <2> QED BY <2>2, <2>3
<1>7. Moves(S, len, pos, Ends, next)
  <2> HIDE DEF len, pos, Ends, next, S
  <2> QED BY <1>4, <1>5, <1>6 DEF Moves
<1>8. val \in [S -> V] /\ \A s \in S : val[s] = At(s)
  <2> HIDE DEF At
  <2> QED OBVIOUS
<1>9. up \in [S \X V -> V] /\ \A s \in S, v \in V : up[<<s, v>>] = v
  <2> HIDE DEF V, S
  <2> QED OBVIOUS
<1>10. PICK f \in [S -> V] : Builds(f, S, Ends, next, val, up)
  <2> HIDE DEF S, len, pos, Ends, next, val, up, V
  <2> QED BY <1>7, <1>8, <1>9, BuildExists
<1>11. ASSUME NEW s \in S
       PROVE  f[s] = IF s \in Ends THEN At(s) ELSE f[next[s]]
  <2>1. next[s] \in S
    BY <1>3
  <2> HIDE DEF S, Ends, next, val, up, At, V
  <2>2. f[next[s]] \in V
    BY <2>1
  <2> QED BY <1>8, <1>9, <1>10, <2>2 DEF Builds
<1>12. ASSUME NEW s \in S
       PROVE  f[s] = rhs(f, s)
  <2>1. next[s] = <<s[1] + 1, comma(s[2]) + 1>>
    BY <1>3
  <2>2. s \in Ends <=> Breaks(s[2]) \/ s[1] = want \/ NoMore(s[2])
    OBVIOUS
  <2> HIDE DEF Breaks, Last, Ends, next, S
  <2>3. f[s] = IF s \in Ends THEN At(s) ELSE f[<<s[1] + 1, comma(s[2]) + 1>>]
    BY Zenon, <1>11, <2>1
  <2> QED BY Zenon, <2>2, <2>3
<1> HIDE DEF rhs
<1>13. Eq(f)
  BY <1>12
<1> HIDE DEF Eq
<1>14. Eq(u)
  BY <1>13
<1> HIDE DEF u
<1>15. \A s \in S : u[s] = rhs(u, s)
  BY <1>14 DEF Eq
<1>16. IndexScan(b, want, u)
  <2> SUFFICES ASSUME NEW idx \in Nat, NEW i \in Nat
               PROVE  u[<<idx, i>>] = IndexStep(b, want, u, idx, i)
    BY Zenon DEF IndexScan
  <2> DEFINE s == <<idx, i>>
  <2>1. s \in S /\ s[1] = idx /\ s[2] = i
    OBVIOUS
  <2> HIDE DEF s, S
  <2>2. u[s] = rhs(u, s)
    BY <1>15, <2>1
  <2>3. rhs(u, s) = IndexStep(b, want, u, idx, i)
    BY Zenon, <2>1 DEF rhs, IndexStep, from, end, comma
  <2> QED BY Zenon, <2>2, <2>3 DEF s
<1> QED BY Zenon, <1>1, <1>16

(* ArrayIndex of an array in the cut: the text of the element, or none.       *)
LEMMA IndexLands ==
    ASSUME NEW d, d.text \in Seq(STRING), NEW c, NEW e, Encloses(d, c, e), d.kind = "array",
           NEW b, NEW off, Cut(b, d.text, off), off < c, e - off <= Len(b) + 1,
           \A k \in 1 .. Len(d.items) :
              SkipValue(b, d.items[k].start - off) = d.items[k].end - off,
           NEW want \in Nat, NEW u, IndexScan(b, want, u)
    PROVE  u[<<0, (c - off) + 1>>] =
             IF want < Len(d.items)
               THEN ElementThereOf(SubSeq(b, d.items[want + 1].start - off,
                                          (d.items[want + 1].end - off) - 1))
               ELSE NoElementThere
<1> DEFINE n == Len(d.items)
           t == d.text
           Text(k) == SubSeq(b, d.items[k].start - off, (d.items[k].end - off) - 1)
           Answer == IF want < n THEN ElementThereOf(Text(want + 1)) ELSE NoElementThere
<1>1. off \in Nat /\ Len(b) \in Nat
  BY DEF Cut
<1>2. /\ n \in Nat /\ c \in Nat \ {0} /\ e \in Nat
      /\ t[e - 1] = "]" /\ c + 1 <= e - 1
  <2>1. t[e - 1] = Closing(d.kind)
    BY FrameInText
  <2>2. Closing(d.kind) = "]"
    BY Zenon DEF Closing
  <2> QED BY <2>1, <2>2, FrameInText
<1>3. "]" \notin WhiteSpace /\ "]" # ","
  BY Zenon, ClosingStops DEF Closing, WhiteSpace
<1>4. ASSUME NEW q, q \in c + 1 .. e - 1
      PROVE  q \in Nat /\ off < q /\ q - off \in Nat
  BY <1>1, <1>2, <1>4
<1>5. ASSUME NEW q, StandsBefore(d, c, e, n + 1, q), NEW idx \in Nat
      PROVE  u[<<idx, q - off>>] = NoElementThere
  <2>1. q \in c + 1 .. e - 1 /\ Blank(t, q, e - 1)
    BY <1>5 DEF StandsBefore
  <2> DEFINE r == e - 1
             i == q - off
  <2>2. r \in Nat /\ r - off <= Len(b) /\ t[r] = "]" /\ t[r] \notin WhiteSpace
        /\ q \in Nat /\ off < q /\ i \in Nat /\ Blank(t, q, r)
    BY <1>1, <1>2, <1>3, <1>4, <2>1
  <2> HIDE DEF r
  <2>3. SkipSpaces(b, i) = r - off /\ b[r - off] = "]"
    BY <2>2, SpacesInCut
  <2> HIDE DEF i
  <2>4. u[<<idx, i>>] = IndexStep(b, want, u, idx, i)
    BY <1>5, <2>2 DEF IndexScan
  <2>5. IndexStep(b, want, u, idx, i) = NoElementThere
    BY Zenon, <2>3 DEF IndexStep
  <2> QED BY <2>4, <2>5 DEF i
<1>6. ASSUME NEW k \in 1 .. n, NEW q, StandsBefore(d, c, e, k, q)
      PROVE  /\ k - 1 = want => u[<<k - 1, q - off>>] = ElementThereOf(Text(k))
             /\ k - 1 # want /\ k = n => u[<<k - 1, q - off>>] = NoElementThere
             /\ k - 1 # want /\ k # n =>
                  \E z : /\ StandsBefore(d, c, e, k + 1, z)
                         /\ u[<<k - 1, q - off>>] = u[<<k, z - off>>]
  <2> DEFINE item == d.items[k]
             i == q - off
             idx == k - 1
             s == SkipSpaces(b, i)
             end == SkipValue(b, s)
             comma == SkipSpaces(b, end)
  <2>1. q \in c + 1 .. e - 1 /\ LeadsTo(t, q, item, d.kind)
    BY <1>6 DEF StandsBefore
  <2>2. /\ item.key \in Seq(STRING) /\ item.start \in Nat \ {0} /\ item.end \in Nat
        /\ c + 1 <= item.start /\ item.start < item.end /\ item.end <= e - 1
        /\ IsSpan(t, item.start, item.end, item.kind)
    BY ItemInFrame
  <2>3. PICK z : EndsAt(d, c, e, k, z)
    BY ItemEnds
  <2>4. /\ z \in Nat /\ item.end <= z /\ z <= e - 1
        /\ Blank(t, item.end, z) /\ t[z] \in Stops
        /\ IF k = n THEN z = e - 1
           ELSE t[z] = "," /\ StandsBefore(d, c, e, k + 1, z + 1)
    <3>1. z \in item.end .. item.end + d.blanks /\ d.blanks \in Nat
      <4>1. d.blanks \in Nat
        BY FrameInText
      <4> QED BY <2>3, <4>1 DEF EndsAt
    <3>2. z \in Nat /\ item.end <= z
      BY <2>2, <3>1
    <3>3. /\ z <= e - 1 /\ Blank(t, item.end, z) /\ t[z] \in Stops
          /\ IF k = n THEN z = e - 1
             ELSE t[z] = "," /\ StandsBefore(d, c, e, k + 1, z + 1)
      BY Zenon, <2>3 DEF EndsAt
    <3> QED BY Zenon, <3>2, <3>3
  <2>5. SkipValue(b, item.start - off) = item.end - off
    OBVIOUS
  <2> HIDE DEF item
  <2>6. item.end - off <= Len(b) + 1 /\ z - off <= Len(b) /\ off < item.end
        /\ off < item.start /\ item.start - off <= Len(b)
    <3> DEFINE len == Len(b)
               x == item.start
               y == item.end
    <3>1. /\ off \in Nat /\ len \in Nat /\ c \in Nat /\ e \in Nat /\ z \in Nat
          /\ x \in Nat /\ y \in Nat /\ c + 1 <= x /\ x < y /\ y <= z /\ z <= e - 1
          /\ off < c /\ e - off <= len + 1
      BY <1>1, <1>2, <2>2, <2>4
    <3> HIDE DEF len, x, y
    <3>2. y - off <= len + 1 /\ z - off <= len /\ off < y /\ off < x /\ x - off <= len
      BY <3>1
    <3> QED BY <3>2 DEF len, x, y
  <2>7. s = item.start - off /\ s \in 1 .. Len(b) /\ b[s] = t[item.start]
    <3> DEFINE x == item.start
    <3>1. Blank(t, q, x)
      BY Zenon, <2>1 DEF LeadsTo
    <3>2. q \in Nat /\ off < q /\ x \in Nat /\ x - off <= Len(b)
      BY <1>4, <2>1, <2>2, <2>6
    <3>3. t[x] \notin WhiteSpace
      BY <2>2, SpanBegins
    <3> HIDE DEF x
    <3>4. SkipSpaces(b, q - off) = x - off /\ x - off \in 1 .. Len(b) /\ b[x - off] = t[x]
      BY <3>1, <3>2, <3>3, SpacesInCut
    <3> QED BY <3>4 DEF x
  <2>8. b[s] # "]" /\ ~ (s > Len(b))
    <3>1. t[item.start] \notin Stops
      BY <2>2, SpanBegins
    <3>2. b[s] # "]"
      BY Zenon, <2>7, <3>1 DEF Stops
    <3> QED BY <1>1, <2>7, <3>2
  <2>9. end = item.end - off /\ end # 0
    <3>1. end = item.end - off
      BY <2>5, <2>7
    <3> HIDE DEF end
    <3> QED BY <1>1, <2>2, <2>6, <3>1
  <2>10. comma = z - off /\ comma \in 1 .. Len(b) /\ b[comma] = t[z]
    <3> DEFINE y == item.end
    <3>1. y \in Nat /\ off < y /\ Blank(t, y, z) /\ z \in Nat /\ z - off <= Len(b)
      BY <2>2, <2>4, <2>6
    <3>2. t[z] \notin WhiteSpace
      BY <2>4, MarksAreNotBlank
    <3>3. end = y - off
      BY <2>9
    <3> HIDE DEF y, end
    <3>4. /\ SkipSpaces(b, y - off) = z - off
          /\ z - off \in 1 .. Len(b) /\ b[z - off] = t[z]
      BY <3>1, <3>2, SpacesInCut
    <3> QED BY <3>3, <3>4
  <2>11. SubSeq(b, s, end - 1) = Text(k)
    BY <2>7, <2>9 DEF item
  <2>12. u[<<idx, i>>] = IndexStep(b, want, u, idx, i)
    <3>1. idx \in Nat /\ i \in Nat
      BY <1>2, <1>4, <2>1
    <3> HIDE DEF idx, i
    <3> QED BY <3>1 DEF IndexScan
  <2> HIDE DEF Text, idx, i
  <2>13. IndexStep(b, want, u, idx, i) =
           IF idx = want THEN ElementThereOf(Text(k))
           ELSE IF comma > Len(b) \/ b[comma] # "," THEN NoElementThere
           ELSE u[<<idx + 1, comma + 1>>]
    BY Zenon, <2>8, <2>9, <2>11 DEF IndexStep
  <2> HIDE DEF s, end, comma
  <2>14. CASE idx = want
    BY Zenon, <2>12, <2>13, <2>14 DEF idx, i
  <2>15. CASE idx # want /\ k = n
    <3>1. b[comma] # ","
      BY <1>2, <1>3, <2>4, <2>10, <2>15
    <3>2. u[<<idx, i>>] = NoElementThere
      BY Zenon, <2>12, <2>13, <2>15, <3>1
    <3> QED BY Zenon, <2>15, <3>2 DEF idx, i
  <2>16. CASE idx # want /\ k # n
    <3>1. StandsBefore(d, c, e, k + 1, z + 1) /\ b[comma] = ","
      BY <2>4, <2>10, <2>16
    <3>2. comma + 1 = (z + 1) - off
      <4>1. z \in Nat /\ off \in Nat
        BY <1>1, <2>4
      <4>2. comma = z - off
        BY <2>10
      <4> QED BY <4>1, <4>2
    <3>3. ~ (comma > Len(b)) /\ idx + 1 = k
      BY <1>1, <2>10 DEF idx
    <3>4. u[<<idx, i>>] = u[<<k, (z + 1) - off>>]
      BY Zenon, <2>12, <2>13, <2>16, <3>1, <3>2, <3>3
    <3> QED BY Zenon, <2>16, <3>1, <3>4 DEF idx, i
  <2> QED BY Zenon, <2>14, <2>15, <2>16
<1> DEFINE P == {m \in Nat : \A k \in 1 .. n + 1 : \A q :
                   n + 1 - k = m /\ k - 1 <= want /\ StandsBefore(d, c, e, k, q)
                     => u[<<k - 1, q - off>>] = Answer}
<1> HIDE DEF Text
<1>7. 0 \in P
  <2> SUFFICES ASSUME NEW k \in 1 .. n + 1, NEW q, n + 1 - k = 0, k - 1 <= want,
                      StandsBefore(d, c, e, k, q)
               PROVE  u[<<k - 1, q - off>>] = Answer
    OBVIOUS
  <2>1. k = n + 1 /\ ~ (want < n) /\ k - 1 \in Nat
    <3>1. n \in Nat
      BY <1>2
    <3> HIDE DEF n
    <3> QED BY <3>1
  <2>2. u[<<k - 1, q - off>>] = NoElementThere
    BY <1>5, <2>1
  <2> QED BY <2>1, <2>2
<1>8. ASSUME NEW m \in Nat, m \in P
      PROVE  m + 1 \in P
  <2> DEFINE answer == Answer
  <2> HIDE DEF answer
  <2> SUFFICES ASSUME NEW k \in 1 .. n + 1, NEW q, n + 1 - k = m + 1, k - 1 <= want,
                      StandsBefore(d, c, e, k, q)
               PROVE  u[<<k - 1, q - off>>] = answer
    BY DEF answer
  <2>1. /\ n \in Nat /\ k \in 1 .. n /\ k + 1 \in 1 .. n + 1 /\ n + 1 - (k + 1) = m
        /\ (k + 1) - 1 = k
        /\ k - 1 = want => want < n /\ want + 1 = k
        /\ k - 1 # want => k <= want
        /\ k = n /\ k <= want => ~ (want < n)
    <3>1. n \in Nat
      BY <1>2
    <3> HIDE DEF n
    <3>2. k \in 1 .. n /\ k + 1 \in 1 .. n + 1 /\ n + 1 - (k + 1) = m /\ (k + 1) - 1 = k
      BY <3>1
    <3>3. k - 1 = want => want < n /\ want + 1 = k
      BY <3>1
    <3>4. k - 1 # want => k <= want
      BY <3>1
    <3>5. k = n /\ k <= want => ~ (want < n)
      BY <3>1
    <3> QED BY <3>1, <3>2, <3>3, <3>4, <3>5
  <2>2. CASE k - 1 = want
    <3>1. answer = ElementThereOf(Text(want + 1))
      BY Zenon, <2>1, <2>2 DEF answer
    <3>2. answer = ElementThereOf(Text(k))
      BY <2>1, <2>2, <3>1
    <3>3. u[<<k - 1, q - off>>] = ElementThereOf(Text(k))
      BY Zenon, <1>6, <2>1, <2>2
    <3> QED BY Zenon, <3>2, <3>3
  <2>3. CASE k - 1 # want /\ k = n
    <3>1. answer = NoElementThere
      BY Zenon, <2>1, <2>3 DEF answer
    <3> QED BY Zenon, <1>6, <2>1, <2>3, <3>1
  <2>4. CASE k - 1 # want /\ k # n
    <3>1. PICK z : /\ StandsBefore(d, c, e, k + 1, z)
                   /\ u[<<k - 1, q - off>>] = u[<<k, z - off>>]
      BY Zenon, <1>6, <2>1, <2>4
    <3>2. u[<<(k + 1) - 1, z - off>>] = answer
      BY <1>8, <2>1, <2>4, <3>1 DEF answer
    <3> QED BY <2>1, <3>1, <3>2
  <2> QED BY <2>2, <2>3, <2>4
<1> HIDE DEF P
<1>9. n \in P
  BY <1>2, <1>7, <1>8, Induction
<1>10. StandsBefore(d, c, e, 1, c + 1)
  BY StandsBeforeFirst
<1>11. /\ 1 \in 1 .. n + 1 /\ n + 1 - 1 = n /\ 1 - 1 = 0 /\ 0 <= want
       /\ (c + 1) - off = (c - off) + 1
  BY <1>1, <1>2
<1>12. u[<<0, (c + 1) - off>>] = Answer
  <2>1. \A k \in 1 .. n + 1 : \A q :
           n + 1 - k = n /\ k - 1 <= want /\ StandsBefore(d, c, e, k, q)
             => u[<<k - 1, q - off>>] = Answer
    BY <1>9 DEF P
  <2> HIDE DEF Answer, n
  <2>2. u[<<1 - 1, (c + 1) - off>>] = Answer
    BY Zenon, <1>10, <1>11, <2>1
  <2> QED BY Zenon, <1>11, <2>2
<1> QED BY <1>11, <1>12 DEF Text

PlaceText(d, place) == SubSeq(d.text, place.start, place.end - 1)

(* b begins with the value at place, behind white space.                     *)
BeginsWith(d, b, place) ==
    /\ b \in Seq(STRING)
    /\ IF place = Nowhere THEN Blank(b, 1, Len(b) + 1)
       ELSE \E off : /\ Cut(b, d.text, off) /\ InCut(d, b, off, place)
                     /\ Blank(b, 1, place.start - off)

(* Where a value is, something is.                                           *)
LEMMA SpanIsSomewhere ==
    ASSUME NEW d, NEW b, NEW off, NEW place, InCut(d, b, off, place)
    PROVE  place # Nowhere
<1>1. place.kind \in {"object", "array", "string", "literal"}
  BY Zenon DEF InCut, IsSpan
<1>2. Nowhere.kind = "absent"
  BY DEF Nowhere
<1> QED BY <1>1, <1>2

(* The text of a document does with its value.                               *)
LEMMA DocumentBegins ==
    ASSUME NEW d, d.text \in Seq(STRING), Laid(d),
           d.value = Nowhere => Blank(d.text, 1, Len(d.text) + 1)
    PROVE  BeginsWith(d, d.text, d.value)
<1> DEFINE b == d.text
           p == d.value
<1>1. b \in Seq(STRING) /\ Len(b) \in Nat
  OBVIOUS
<1>2. CASE p = Nowhere
  BY <1>1, <1>2 DEF BeginsWith
<1>3. CASE p # Nowhere
  <2>1. /\ p.start \in 1 .. Len(b) /\ p.end \in 1 .. Len(b) + 1
        /\ IsSpan(b, p.start, p.end, p.kind)
        /\ Blank(b, 1, p.start) /\ Blank(b, p.end, Len(b) + 1)
        /\ Known(d, p)
    BY Zenon, <1>3 DEF Laid
  <2>2. Cut(b, b, 0)
    BY <1>1 DEF Cut
  <2> HIDE DEF b, p
  <2>3. NumberStops(b, p.end)
    <3> SUFFICES ASSUME p.end <= Len(b) PROVE b[p.end] \notin NumberChars
      BY DEF NumberStops
    <3>1. p.end \in p.end .. (Len(b) + 1) - 1
      BY <1>1, <2>1
    <3>2. b[p.end] \in WhiteSpace
      BY <2>1, <3>1 DEF Blank
    <3> QED BY <3>2, MarksAreNoNumber
  <2>4. p.start - 0 = p.start /\ p.end - 0 = p.end /\ p.start \in Nat /\ p.end \in Nat
        /\ 0 < p.start /\ p.end <= Len(b) + 1
    BY <1>1, <2>1
  <2>5. InCut(d, b, 0, p)
    BY <2>1, <2>3, <2>4 DEF InCut, b
  <2>6. BeginsWith(d, b, p)
    BY <1>1, <1>3, <2>1, <2>2, <2>4, <2>5 DEF BeginsWith, b
  <2> QED BY <2>6 DEF b, p
<1> QED BY <1>2, <1>3

(* And so does a text that is cut out for a value alone.                      *)
LEMMA OwnTextBegins ==
    ASSUME NEW d, d.text \in Seq(STRING), NEW b, NEW off, Cut(b, d.text, off),
           NEW place, InCut(d, b, off, place)
    PROVE  /\ BeginsWith(d, PlaceText(d, place), place)
           /\ Len(PlaceText(d, place)) = place.end - place.start
           /\ \A k \in 1 .. place.end - place.start :
                PlaceText(d, place)[k] = d.text[place.start + k - 1]
<1> DEFINE t == d.text
           s == place.start
           e == place.end
           r == PlaceText(d, place)
           cut == s - 1
           m == e - s
<1>1. /\ s \in Nat /\ e \in Nat /\ off < s /\ e - off <= Len(b) + 1
      /\ IsSpan(t, s, e, place.kind) /\ Known(d, place)
  BY Zenon DEF InCut
<1>2. off \in Nat /\ Len(b) \in Nat /\ Len(b) + off <= Len(t) /\ Len(t) \in Nat
  BY DEF Cut
<1>3. s < e
  BY <1>1, SpanBegins
<1>4. r = SubSeq(t, s, e - 1)
  BY DEF PlaceText
<1> HIDE DEF s, e, r
<1>5. s \in 1 .. Len(t) /\ e - 1 \in 1 .. Len(t) /\ m \in Nat /\ cut \in Nat
      /\ (e - 1) - s + 1 = m /\ m + cut <= Len(t)
  BY <1>1, <1>2, <1>3
<1>6. r \in Seq(STRING) /\ Len(r) = m /\ \A k \in 1 .. m : r[k] = t[s + k - 1]
  BY <1>4, <1>5
<1>7. Cut(r, t, cut)
  <2>1. \A k \in 1 .. m : s + k - 1 = k + cut
    BY <1>1
  <2> QED BY <1>5, <1>6, <2>1 DEF Cut
<1>8. InCut(d, r, cut, place)
  <2>1. cut < s /\ e - cut = Len(r) + 1 /\ ~ (e - cut <= Len(r))
    BY <1>1, <1>3, <1>6
  <2>2. e - cut <= Len(r) + 1
    BY <1>5, <1>6, <2>1
  <2> HIDE DEF cut
  <2>3. NumberStops(r, e - cut)
    BY <2>1 DEF NumberStops
  <2> QED BY <1>1, <2>1, <2>2, <2>3 DEF InCut, s, e
<1>9. Blank(r, 1, s - cut)
  <2>1. s - cut = 1
    BY <1>1
  <2> QED BY <2>1 DEF Blank
<1>10. place # Nowhere
  BY SpanIsSomewhere
<1>11. BeginsWith(d, r, place)
  <2> HIDE DEF cut
  <2> QED BY <1>6, <1>7, <1>8, <1>9, <1>10 DEF BeginsWith, s
<1> QED BY <1>6, <1>11 DEF r, s, e

(* What the cut has where a value is, is the text of that value.             *)
LEMMA PieceOfCut ==
    ASSUME NEW d, d.text \in Seq(STRING), NEW b \in Seq(STRING), NEW off,
           Cut(b, d.text, off), NEW place, InCut(d, b, off, place)
    PROVE  SubSeq(b, place.start - off, (place.end - off) - 1) = PlaceText(d, place)
<1> DEFINE t == d.text
           i == place.start
           e == place.end
<1>0. /\ i \in Nat /\ e \in Nat /\ off < i /\ e - off <= Len(b) + 1
      /\ IsSpan(t, i, e, place.kind)
  BY Zenon DEF InCut
<1>00. i < e
  BY <1>0, SpanBegins
<1> HIDE DEF t, i, e
<1>1. off \in Nat /\ Len(b) \in Nat /\ Len(b) + off <= Len(t) /\ Len(t) \in Nat
      /\ \A k \in 1 .. Len(b) : b[k] = t[k + off]
  BY DEF Cut, t
<1> DEFINE j == i - off
           f == (e - off) - 1
           m == e - i
<1>2. /\ j \in Nat \ {0} /\ f \in Int /\ f <= Len(b) /\ m \in Nat
      /\ f = j + m - 1 /\ e - 1 = i + m - 1 /\ e - 1 <= Len(t) /\ i \in Nat \ {0}
      /\ j + off = i
  BY <1>0, <1>00, <1>1
<1> HIDE DEF j, f, m
<1>2a. t \in Seq(STRING)
  BY DEF t
<1>3. SubSeq(b, j, f) = [k \in 1 .. m |-> b[j + k - 1]]
  <2>1. f - j + 1 = m /\ j <= Len(b) + 1
    BY <1>1, <1>2
  <2> QED BY <1>1, <1>2, <2>1
<1>4. SubSeq(t, i, e - 1) = [k \in 1 .. m |-> t[i + k - 1]]
  <2>1. (e - 1) - i + 1 = m /\ i <= Len(t) + 1
    BY <1>1, <1>2
  <2> QED BY <1>1, <1>2, <1>2a, <2>1
<1>5. ASSUME NEW k \in 1 .. m
      PROVE  b[j + k - 1] = t[i + k - 1]
  <2>1. j + k - 1 \in 1 .. Len(b) /\ (j + k - 1) + off = i + k - 1
    BY <1>1, <1>2
  <2> QED BY <1>1, <2>1
<1>6. SubSeq(b, j, f) = SubSeq(t, i, e - 1)
  BY <1>3, <1>4, <1>5
<1> QED BY Zenon, <1>6 DEF j, f, t, i, e, PlaceText

(* A text that begins with a value is none of white space, and begins with a   *)
(* bracket when the value is an array.                                       *)
LEMMA ValueBegun ==
    ASSUME NEW d, d.text \in Seq(STRING), NEW b \in Seq(STRING), NEW off,
           Cut(b, d.text, off), NEW place, InCut(d, b, off, place),
           Blank(b, 1, place.start - off)
    PROVE  /\ SkipSpaces(b, 1) = place.start - off
           /\ ~ (place.start - off > Len(b))
           /\ b[place.start - off] = "[" <=> place.kind = "array"
<1> DEFINE t == d.text
           s == place.start
           i == s - off
<1>1. /\ s \in Nat /\ place.end \in Nat /\ off < s /\ place.end - off <= Len(b) + 1
      /\ IsSpan(t, s, place.end, place.kind)
  BY Zenon DEF InCut
<1>2. off \in Nat /\ Len(b) \in Nat /\ \A k \in 1 .. Len(b) : b[k] = t[k + off]
  BY DEF Cut
<1>3. s < place.end /\ t[s] \notin WhiteSpace
  BY <1>1, SpanBegins
<1>4. i \in 1 .. Len(b) /\ i + off = s /\ i \in Nat /\ i <= Len(b)
  BY <1>1, <1>2, <1>3
<1> HIDE DEF i, s
<1>5. b[i] = t[s]
  BY <1>2, <1>4
<1>6. SkipSpaces(b, 1) = i
  BY <1>2, <1>3, <1>4, <1>5, SkipSpacesFinds DEF i, s
<1>7. t[s] = "[" <=> place.kind = "array"
  <2>1. CASE place.kind = "array"
    BY Zenon, <1>1, <2>1 DEF IsSpan, IsFrame
  <2>2. CASE place.kind = "object"
    <3>1. t[s] = "{"
      BY Zenon, <1>1, <2>2 DEF IsSpan, IsFrame
    <3> QED BY Zenon, <2>2, <3>1
  <2>3. CASE place.kind = "string"
    <3>1. t[s] = QuoteMark
      BY Zenon, <1>1, <2>3 DEF IsSpan, IsString
    <3> QED BY Zenon, <2>3, <3>1 DEF QuoteMark
  <2>4. CASE place.kind = "literal"
    <3>1. IsLiteral(t, s, place.end)
      BY Zenon, <1>1, <2>4 DEF IsSpan
    <3>2. t[s] \notin {"{", "[", QuoteMark}
      BY <1>1, <3>1, LiteralChars
    <3> QED BY Zenon, <2>4, <3>2
  <2>5. place.kind \in {"object", "array", "string", "literal"}
    BY Zenon, <1>1 DEF IsSpan
  <2> QED BY <2>1, <2>2, <2>3, <2>4, <2>5
<1>8. ~ (i > Len(b))
  BY <1>2, <1>4
<1> QED BY <1>5, <1>6, <1>7, <1>8 DEF i, s

(* ArrayIndex leads from a text that begins with a value to the text of the    *)
(* element, if the value is an array that has one, and to none otherwise.     *)
LEMMA IndexFollows ==
    ASSUME NEW d, d.text \in Seq(STRING), Laid(d), NEW n, NEW place,
           BeginsWith(d, n.raw, place), NEW want \in Int
    PROVE  LET p == ElementAt(d, place, want)
           IN  /\ p = Nowhere => ArrayIndex(n, want) = NoElementThere
               /\ p # Nowhere => /\ ArrayIndex(n, want) = ElementThereOf(PlaceText(d, p))
                                 /\ \E b, off : Cut(b, d.text, off) /\ InCut(d, b, off, p)
<1> DEFINE b == n.raw
           open == SkipSpaces(b, 1)
           p == ElementAt(d, place, want)
<1>1. b \in Seq(STRING) /\ Len(b) \in Nat
  BY DEF BeginsWith
<1>2. PICK u : /\ ArrayIndex(n, want) =
                    IF want < 0 \/ open > Len(b) \/ b[open] # "[" THEN NoElementThere
                    ELSE u[<<0, open + 1>>]
               /\ IndexScan(b, want, u)
  BY <1>1, ArrayIndexUnfolds
<1>3. CASE place = Nowhere
  <2>1. Blank(b, 1, Len(b) + 1)
    BY Zenon, <1>3 DEF BeginsWith
  <2>2. open = Len(b) + 1
    BY <1>1, <2>1, SkipSpacesLeaves
  <2>3. open > Len(b)
    BY <1>1, <2>2
  <2>4. ArrayIndex(n, want) = NoElementThere
    BY Zenon, <1>2, <2>3
  <2>5. p = Nowhere
    <3>1. place.kind = "absent"
      BY <1>3 DEF Nowhere
    <3>2. place.kind # "array"
      BY Zenon, <3>1
    <3> QED BY Zenon, <3>2 DEF ElementAt
  <2> QED BY Zenon, <2>4, <2>5
<1>4. CASE place # Nowhere
  <2>1. PICK off : /\ Cut(b, d.text, off) /\ InCut(d, b, off, place)
                   /\ Blank(b, 1, place.start - off)
    BY Zenon, <1>4 DEF BeginsWith
  <2>2. /\ open = place.start - off /\ ~ (open > Len(b))
        /\ b[open] = "[" <=> place.kind = "array"
    <3> DEFINE i == place.start - off
    <3>1. SkipSpaces(b, 1) = i /\ ~ (i > Len(b))
      BY <1>1, <2>1, ValueBegun
    <3>2. b[i] = "[" <=> place.kind = "array"
      BY <1>1, <2>1, ValueBegun
    <3> HIDE DEF i
    <3>3. open = i
      BY Zenon, <3>1
    <3> HIDE DEF open
    <3>4. ~ (open > Len(b))
      BY Zenon, <3>1, <3>3
    <3>5. b[open] = "[" <=> place.kind = "array"
      BY Zenon, <3>2, <3>3
    <3> QED BY Zenon, <3>3, <3>4, <3>5 DEF i
  <2> HIDE DEF open, p
  <2>3. CASE place.kind # "array"
    <3>1. ArrayIndex(n, want) = NoElementThere
      BY Zenon, <1>2, <2>2, <2>3
    <3>2. p = Nowhere
      BY Zenon, <2>3 DEF ElementAt, p
    <3> QED BY Zenon, <3>1, <3>2 DEF p
  <2>4. CASE place.kind = "array"
    <3> DEFINE c == ContainerAt(d, place)
               items == d.inside[place]
    <3>1. /\ c.text = d.text /\ c.kind = place.kind /\ c.items = items
          /\ Encloses(c, place.start, place.end)
          /\ \A k \in 1 .. Len(c.items) :
               LET item == Place(c.items[k])
               IN  /\ InCut(d, b, off, item)
                   /\ item.start > place.start /\ item.end < place.end
                   /\ item.start = c.items[k].start /\ item.end = c.items[k].end
      BY <2>1, <2>4, ItemsInCut
    <3>2. p = IF want \in 0 .. Len(items) - 1 THEN Place(items[want + 1]) ELSE Nowhere
      BY Zenon, <2>4 DEF ElementAt, p
    <3> HIDE DEF c, items
    <3>3. Len(items) \in Nat
      BY Zenon, <3>1 DEF Encloses
    <3>4. CASE want < 0
      <4>1. ArrayIndex(n, want) = NoElementThere
        BY Zenon, <1>2, <3>4
      <4>2. p = Nowhere
        BY <3>2, <3>4
      <4> QED BY Zenon, <4>1, <4>2 DEF p
    <3>5. CASE ~ (want < 0)
      <4>1. want \in Nat
        BY <3>5
      <4>2. ArrayIndex(n, want) = u[<<0, (place.start - off) + 1>>]
        BY Zenon, <1>2, <2>2, <2>4, <3>5
      <4>3. \A k \in 1 .. Len(c.items) :
               SkipValue(b, c.items[k].start - off) = c.items[k].end - off
        <5> TAKE k \in 1 .. Len(c.items)
        <5> DEFINE item == Place(c.items[k])
        <5>1. /\ InCut(d, b, off, item)
              /\ item.start = c.items[k].start /\ item.end = c.items[k].end
          BY <3>1
        <5> HIDE DEF item
        <5>2. SkipValue(b, item.start - off) = item.end - off
          BY <2>1, <5>1, SkipFinds
        <5> QED BY <5>1, <5>2
      <4>4. /\ c.text \in Seq(STRING) /\ Cut(b, c.text, off) /\ c.kind = "array"
            /\ off < place.start /\ place.end - off <= Len(b) + 1
        BY <2>1, <2>4, <3>1 DEF InCut
      <4>5. u[<<0, (place.start - off) + 1>>] =
              IF want < Len(c.items)
                THEN ElementThereOf(SubSeq(b, c.items[want + 1].start - off,
                                           (c.items[want + 1].end - off) - 1))
                ELSE NoElementThere
        <5> DEFINE from == place.start
                   end == place.end
        <5>1. Encloses(c, from, end) /\ off < from /\ end - off <= Len(b) + 1
          BY <3>1, <4>4
        <5> HIDE DEF c, from, end
        <5>2. u[<<0, (from - off) + 1>>] =
                IF want < Len(c.items)
                  THEN ElementThereOf(SubSeq(b, c.items[want + 1].start - off,
                                             (c.items[want + 1].end - off) - 1))
                  ELSE NoElementThere
          <6>1. /\ c.text \in Seq(STRING) /\ Cut(b, c.text, off) /\ c.kind = "array"
                /\ IndexScan(b, want, u)
            BY <1>2, <4>4
          <6> HIDE DEF b
          <6> QED BY <4>1, <4>3, <5>1, <6>1, IndexLands
        <5> QED BY Zenon, <5>2 DEF from
      <4>6. CASE ~ (want < Len(items))
        <5>1. p = Nowhere
          BY <3>2, <3>3, <4>6
        <5>2. ArrayIndex(n, want) = NoElementThere
          BY Zenon, <3>1, <4>2, <4>5, <4>6
        <5> QED BY Zenon, <5>1, <5>2 DEF p
      <4>7. CASE want < Len(items)
        <5> DEFINE k == want + 1
                   item == Place(c.items[k])
        <5>1. k \in 1 .. Len(c.items) /\ want \in 0 .. Len(items) - 1
          BY <3>1, <3>3, <4>1, <4>7
        <5>2. /\ InCut(d, b, off, item)
              /\ item.start = c.items[k].start /\ item.end = c.items[k].end
          BY <3>1, <5>1
        <5>3. p = item
          BY <3>1, <3>2, <5>1
        <5>4. ArrayIndex(n, want) =
                ElementThereOf(SubSeq(b, c.items[k].start - off, (c.items[k].end - off) - 1))
          BY Zenon, <3>1, <4>2, <4>5, <4>7
        <5> HIDE DEF item, k
        <5>5. SubSeq(b, p.start - off, (p.end - off) - 1) = PlaceText(d, p)
          <6>1. InCut(d, b, off, p)
            BY <5>2, <5>3
          <6> HIDE DEF b
          <6> QED BY <1>1, <2>1, <6>1, PieceOfCut
        <5>6. ArrayIndex(n, want) = ElementThereOf(PlaceText(d, p))
          BY Zenon, <5>2, <5>3, <5>4, <5>5
        <5>7. InCut(d, b, off, p)
          BY <5>2, <5>3
        <5>8. p # Nowhere
          BY <5>7, SpanIsSomewhere
        <5> QED BY Zenon, <2>1, <5>6, <5>7, <5>8 DEF p
      <4> QED BY <4>6, <4>7
    <3> QED BY <3>4, <3>5
  <2> QED BY <2>3, <2>4
<1> QED BY <1>3, <1>4

(* The bytes of a value have no white space around them.                     *)
LEMMA OwnTextTrimmed ==
    ASSUME NEW d, d.text \in Seq(STRING), NEW b, NEW off, Cut(b, d.text, off),
           NEW place, InCut(d, b, off, place)
    PROVE  TrimSpaceBytes(PlaceText(d, place)) = PlaceText(d, place)
<1> DEFINE t == d.text
           s == place.start
           e == place.end
           r == PlaceText(d, place)
           m == e - s
           I == {k \in 1 .. Len(r) : r[k] \notin WhiteSpace}
<1>1. s \in Nat /\ e \in Nat /\ IsSpan(t, s, e, place.kind)
  BY Zenon DEF InCut
<1>2. s < e /\ t[s] \notin WhiteSpace
  BY <1>1, SpanBegins
<1>3. t[e - 1] \notin WhiteSpace
  BY <1>1, SpanCloses
<1>4. Len(r) = m /\ (\A k \in 1 .. m : r[k] = t[s + k - 1]) /\ r \in Seq(STRING)
  BY Zenon, OwnTextBegins DEF BeginsWith
<1> HIDE DEF t, s, e, r
<1>5. m \in Nat \ {0} /\ s + 1 - 1 = s /\ s + m - 1 = e - 1 /\ 1 \in 1 .. m /\ m \in 1 .. m
  BY <1>1, <1>2
<1>6. r[1] = t[s] /\ r[m] = t[e - 1]
  BY <1>4, <1>5
<1> HIDE DEF m
<1>7. I \subseteq 1 .. m /\ 1 \in I /\ m \in I
  BY <1>2, <1>3, <1>4, <1>5, <1>6
<1> HIDE DEF I
<1>8. (\A k \in I : 1 <= k /\ m >= k) /\ I # {}
  BY <1>5, <1>7
<1>9. Min(I) = 1
  <2>1. \A x \in I : (\A y \in I : x <= y) => x = 1
    BY <1>5, <1>7, <1>8
  <2> QED BY <1>7, <1>8, <2>1 DEF Min
<1>10. Max(I) = m
  <2>1. \A x \in I : (\A y \in I : x >= y) => x = m
    BY <1>5, <1>7, <1>8
  <2> QED BY <1>7, <1>8, <2>1 DEF Max
<1>11. TrimSpaceBytes(r) = SubSeq(r, 1, m)
  <2>1. TrimSpaceBytes(r) = LET from == IF I # {} THEN Min(I) ELSE 0
                            IN  IF from = 0 THEN <<>>
                                ELSE SubSeq(r, from, IF I # {} THEN Max(I) ELSE 0)
    BY DEF TrimSpaceBytes, SelectInSeq, SelectLastInSeq, I
  <2>2. Min(I) # 0
    BY <1>9
  <2> QED BY Zenon, <1>8, <1>9, <1>10, <2>1, <2>2
<1>12. SubSeq(r, 1, m) = r
  BY <1>4, <1>5
<1> QED BY Zenon, <1>11, <1>12 DEF r

(* at goes through what the loop over a plan holds behind its first segs.     *)
ThroughSegs(b, segs, m, at) ==
    /\ at[0] = [found |-> TRUE, node |-> New(b)]
    /\ \A j \in 1 .. m : at[j] = FollowSeg(at[j - 1], segs[j])
    /\ RawGetBytesByPlan(b, segs) =
         IF at[m].found THEN Found(at[m].node.raw) ELSE NotFound

(* GetBytesByPlan follows the segs of a plan one after the other.             *)
LEMMA PlanInSteps ==
    ASSUME NEW b, NEW segs, NEW m \in Nat, DOMAIN segs = 1 .. m
    PROVE  \E at : ThroughSegs(b, segs, m, at)
<1> DEFINE first == [found |-> TRUE, node |-> New(b)]
           S == SUBSET (1 .. m)
           rhs(f, s) == IF s = {} THEN first
                        ELSE FollowSeg(f[s \ {Max(s)}], segs[Max(s)])
           Eq(f) == f = [s \in SUBSET DOMAIN segs |-> rhs(f, s)]
           u == CHOOSE f : Eq(f)
           Fits(f, c) == \A s \in S : Cardinality(s) <= c => f[s] = rhs(f, s)
           N == {c \in Nat : \E f : Fits(f, c)}
<1>1. RawGetBytesByPlan(b, segs) =
        IF u[1 .. m].found THEN Found(u[1 .. m].node.raw) ELSE NotFound
  BY DEF RawGetBytesByPlan, FoldLeft, MapThenFoldSet
<1> HIDE DEF u, first
<1>2. \A s \in S :
        /\ Cardinality(s) \in Nat
        /\ s # {} => /\ Max(s) \in s /\ s \ {Max(s)} \in S
                     /\ Cardinality(s \ {Max(s)}) = Cardinality(s) - 1
        /\ Cardinality(s) <= m
  BY IndexSets
<1>3. 0 \in N
  <2> DEFINE f == [s \in S |-> first]
  <2>1. ASSUME NEW s \in S, Cardinality(s) <= 0
        PROVE  f[s] = rhs(f, s)
    <3>1. s = {}
      <4>1. CASE s # {}
        <5>1. Cardinality(s \ {Max(s)}) \in Nat
          BY <1>2, <4>1
        <5> QED BY <1>2, <2>1, <4>1, <5>1
      <4> QED BY <4>1
    <3> QED BY <3>1
  <2> HIDE DEF f, rhs
  <2>2. Fits(f, 0)
    BY <2>1
  <2> HIDE DEF Fits
  <2> QED BY <2>2
<1>4. ASSUME NEW c \in Nat, c \in N
      PROVE  c + 1 \in N
  <2>1. PICK f : Fits(f, c)
    BY <1>4
  <2> DEFINE g == [s \in S |-> IF Cardinality(s) <= c THEN f[s] ELSE rhs(f, s)]
  <2>2. ASSUME NEW s \in S, Cardinality(s) <= c + 1
        PROVE  g[s] = rhs(g, s)
    <3>1. g[s] = rhs(f, s)
      BY <2>1
    <3>2. s # {} => g[s \ {Max(s)}] = f[s \ {Max(s)}]
      BY <1>2, <2>2
    <3> HIDE DEF g
    <3> QED BY <3>1, <3>2
  <2> HIDE DEF g, rhs
  <2>3. Fits(g, c + 1)
    BY <2>2
  <2> HIDE DEF Fits
  <2> QED BY <2>3
<1>5. m \in N
  <2> HIDE DEF N
  <2> QED BY <1>3, <1>4, Induction
<1>6. PICK f : \A s \in S : f[s] = rhs(f, s)
  <2> HIDE DEF rhs
  <2> QED BY <1>2, <1>5
<1>7. Eq([s \in S |-> f[s]])
  <2> DEFINE g == [s \in S |-> f[s]]
  <2>1. ASSUME NEW s \in S
        PROVE  g[s] = rhs(g, s)
    <3>1. s # {} => g[s \ {Max(s)}] = f[s \ {Max(s)}]
      BY <1>2
    <3>2. g[s] = f[s]
      OBVIOUS
    <3> HIDE DEF g
    <3> QED BY <1>6, <3>1, <3>2
  <2> HIDE DEF rhs
  <2> QED BY <2>1
<1>8. Eq(u)
  <2> HIDE DEF Eq
  <2> QED BY <1>7 DEF u
<1>9. ASSUME NEW s \in S
      PROVE  u[s] = rhs(u, s)
  <2> HIDE DEF rhs
  <2> QED BY <1>8
<1> DEFINE at == [j \in 0 .. m |-> u[1 .. j]]
<1>10. at[0] = first
  <2>1. 1 .. 0 = {} /\ 0 \in 0 .. m
    OBVIOUS
  <2> QED BY <1>9, <2>1
<1>11. ASSUME NEW j \in 1 .. m
       PROVE  at[j] = FollowSeg(at[j - 1], segs[j])
  <2>1. 1 .. j \in S /\ 1 .. j # {} /\ j \in 0 .. m /\ j - 1 \in 0 .. m
    OBVIOUS
  <2>2. Max(1 .. j) = j
    BY IndexSets
  <2>3. (1 .. j) \ {j} = 1 .. j - 1
    OBVIOUS
  <2>4. u[1 .. j] = FollowSeg(u[1 .. j - 1], segs[j])
    BY <1>9, <2>1, <2>2, <2>3
  <2> QED BY <2>1, <2>4
<1>12. RawGetBytesByPlan(b, segs) = IF at[m].found THEN Found(at[m].node.raw) ELSE NotFound
  BY <1>1
<1> HIDE DEF at
<1>13. ThroughSegs(b, segs, m, at)
  BY <1>10, <1>11, <1>12 DEF first, ThroughSegs
<1> QED BY <1>13

(* What the loop over a plan holds stands for a place: a node without a type   *)
(* whose bytes begin with the value there, or nothing.                       *)
StandsFor(d, at, place) ==
    IF at.found THEN at.node.typ = ZeroType /\ BeginsWith(d, at.node.raw, place)
                ELSE place = Nowhere

(* A seg leads to the bytes of the value its token names, or gives up at a     *)
(* name.                                                                     *)
LEMMA SegFollows ==
    ASSUME NEW d, d.text \in Seq(STRING), Laid(d), NEW at, NEW place,
           StandsFor(d, at, place),
           NEW tok \in Token, tok.kind # "empty",
           tok.kind = "digits" => tok.value < IntWrap \div 2
    PROVE  LET next == FollowSeg(at, Segment(tok))
               p == PlaceBehind(d, place, tok)
           IN  \/ tok.kind = "name" /\ ~ next.found
               \/ /\ StandsFor(d, next, p)
                  /\ next.found => p # Nowhere /\ next.node.raw = PlaceText(d, p)
<1> DEFINE next == FollowSeg(at, Segment(tok))
           p == PlaceBehind(d, place, tok)
<1>1. CASE ~ at.found
  <2>1. next = at
    BY <1>1 DEF FollowSeg
  <2>2. place = Nowhere
    BY <1>1 DEF StandsFor
  <2>3. p = Nowhere
    BY Zenon, <2>2, NowhereBehind
  <2> HIDE DEF next, p
  <2>4. StandsFor(d, next, p) /\ ~ next.found
    BY <1>1, <2>1, <2>3 DEF StandsFor
  <2> QED BY <2>4 DEF next, p
<1>2. CASE at.found
  <2>1. at.node.typ = ZeroType /\ BeginsWith(d, at.node.raw, place)
    BY <1>2 DEF StandsFor
  <2>2. \/ tok.kind = "digits" /\ tok.value \in Nat
        \/ tok.kind = "name" /\ tok.name \in Names
    BY DEF Token, EmptyToken
  <2>3. CASE tok.kind = "digits" /\ tok.value \in Nat
    <3> DEFINE v == tok.value
    <3>1. Segment(tok).key = NoName /\ Segment(tok).idx = AtoiDigits(v)
      <4>1. tok.kind # "name"
        BY Zenon, <2>3
      <4> QED BY <2>3, <4>1 DEF Segment
    <3>2. AtoiDigits(v) = v /\ v \in Int
      BY <2>3, DigitsRead
    <3>3. next = ArrayIndex(at.node, v)
      BY <1>2, <3>1, <3>2 DEF FollowSeg
    <3>4. p = ElementAt(d, place, v)
      <4>1. tok.kind # "empty"
        BY Zenon, <2>3
      <4> QED BY Zenon, <2>3, <4>1 DEF PlaceBehind
    <3> DEFINE n == at.node
    <3> HIDE DEF next, p, v, n
    <3>5. /\ p = Nowhere => next = NoElementThere
          /\ p # Nowhere => /\ next = ElementThereOf(PlaceText(d, p))
                            /\ \E b, off : Cut(b, d.text, off) /\ InCut(d, b, off, p)
      <4>1. BeginsWith(d, n.raw, place)
        BY <2>1 DEF n
      <4> QED BY Zenon, <3>2, <3>3, <3>4, <4>1, IndexFollows DEF n
    <3>6. CASE p = Nowhere
      <4>1. ~ next.found
        BY <3>5, <3>6 DEF NoElementThere
      <4> QED BY <3>6, <4>1 DEF StandsFor, next, p
    <3>7. CASE p # Nowhere
      <4>1. /\ next.found /\ next.node = New(PlaceText(d, p))
            /\ BeginsWith(d, PlaceText(d, p), p)
        <5>1. next = ElementThereOf(PlaceText(d, p))
          BY <3>5, <3>7
        <5>2. next.found /\ next.node = New(PlaceText(d, p))
          BY <5>1 DEF ElementThereOf
        <5>3. BeginsWith(d, PlaceText(d, p), p)
          BY <3>5, <3>7, OwnTextBegins
        <5> QED BY <5>2, <5>3
      <4>2. next.node.typ = ZeroType /\ next.node.raw = PlaceText(d, p)
        BY <4>1 DEF New, NoNode
      <4>3. StandsFor(d, next, p)
        BY <4>1, <4>2 DEF StandsFor
      <4> QED BY <3>7, <4>2, <4>3 DEF next, p
    <3> QED BY <3>6, <3>7
  <2>4. CASE tok.kind = "name" /\ tok.name \in Names
    <3>1. Segment(tok).key = tok.name /\ tok.name # NoName
      BY <2>4, AskedAssumption DEF Segment
    <3>2. next = WhereFound(GetBytes(at.node, tok.name))
      BY <1>2, <3>1 DEF FollowSeg
    <3>3. at.node.typ # "o"
      BY <2>1 DEF ZeroType
    <3>4. GetBytes(at.node, tok.name) = NoNode
      BY <3>3, NoMember
    <3>5. ~ next.found
      <4>1. NoNode.typ = ZeroType
        BY DEF NoNode
      <4>2. next = [found |-> NoNode.typ # ZeroType, node |-> NoNode]
        BY <3>2, <3>4 DEF WhereFound
      <4> HIDE DEF next
      <4>3. next.found = (NoNode.typ # ZeroType)
        BY <4>2
      <4> QED BY Zenon, <4>1, <4>3
    <3> QED BY <2>4, <3>5
  <2> QED BY <2>2, <2>3, <2>4
<1> QED BY <1>1, <1>2

(* GetBytesByPlan answers with the text of the value the path names, or that    *)
(* there is none; of a path with a name it may say so whatever is there.      *)
LEMMA PlanFollows ==
    ASSUME NEW d, d.text \in Seq(STRING), Laid(d),
           d.value = Nowhere => Blank(d.text, 1, Len(d.text) + 1),
           NEW p \in Seq(Token), p # <<>>, FitsInt(p), "empty" \notin Kinds(p)
    PROVE  LET answer == RawGetBytesByPlan(d.text, SegsOf(p))
               place == PlaceAt(d, p)
           IN  \/ answer = IF place = Nowhere THEN NotFound ELSE Found(PlaceText(d, place))
               \/ "name" \in Kinds(p) /\ answer = NotFound
<1> DEFINE m == Len(p)
           segs == SegsOf(p)
<1>1. m \in Nat \ {0} /\ DOMAIN p = 1 .. m /\ \A j \in 1 .. m : p[j] \in Token
  <2>1. \A q \in Seq(Token) : q # <<>> => Len(q) # 0
    OBVIOUS
  <2> QED BY <2>1
<1>2. segs = [j \in 1 .. m |-> Segment(p[j])]
  <2>1. p # EmptyPath
    <3>1. ASSUME p = EmptyPath
          PROVE  FALSE
      <4>1. 1 \in DOMAIN p /\ p[1].kind = "empty"
        BY <3>1 DEF EmptyPath, EmptyToken
      <4> QED BY <4>1 DEF Kinds
    <3> QED BY <3>1
  <2> QED BY <1>1, <2>1 DEF SegsOf
<1> HIDE DEF m, segs
<1>3. DOMAIN segs = 1 .. m /\ \A j \in 1 .. m : segs[j] = Segment(p[j])
  BY <1>2
<1> PICK at : ThroughSegs(d.text, segs, m, at)
  BY <1>1, <1>3, PlanInSteps
<1>4. /\ at[0] = [found |-> TRUE, node |-> New(d.text)]
      /\ \A j \in 1 .. m : at[j] = FollowSeg(at[j - 1], segs[j])
      /\ RawGetBytesByPlan(d.text, segs) =
           IF at[m].found THEN Found(at[m].node.raw) ELSE NotFound
  BY DEF ThroughSegs
<1> PICK place : ThroughPlaces(d, p, m, place)
  BY <1>1, PlaceInSteps
<1>5. /\ place[0] = d.value
      /\ \A j \in 1 .. m : place[j] = PlaceBehind(d, place[j - 1], p[j])
      /\ PlaceAt(d, p) = place[m]
  BY DEF ThroughPlaces
<1> DEFINE Named(j) == \E k \in 1 .. j : p[k].kind = "name"
           There(j) == /\ StandsFor(d, at[j], place[j])
                       /\ j # 0 /\ at[j].found =>
                            place[j] # Nowhere /\ at[j].node.raw = PlaceText(d, place[j])
           P == {j \in Nat : j <= m => (Named(j) /\ ~ at[j].found) \/ There(j)}
<1>6. 0 \in P
  <2>1. BeginsWith(d, d.text, d.value)
    BY DocumentBegins
  <2>2. at[0].found /\ at[0].node.raw = d.text /\ at[0].node.typ = ZeroType
    BY <1>4 DEF New, NoNode
  <2>3. There(0)
    BY <1>5, <2>1, <2>2 DEF StandsFor
  <2> QED BY <2>3
<1>7. ASSUME NEW j \in Nat, j \in P
      PROVE  j + 1 \in P
  <2> DEFINE k == j + 1
  <2> SUFFICES ASSUME k <= m
               PROVE  (Named(k) /\ ~ at[k].found) \/ There(k)
    OBVIOUS
  <2>1. /\ k \in 1 .. m /\ k - 1 = j /\ k # 0 /\ k \in 1 .. k
        /\ (Named(j) /\ ~ at[j].found) \/ There(j)
    BY <1>1, <1>7
  <2>2. Named(j) => Named(k)
    <3>1. 1 .. j \subseteq 1 .. k
      OBVIOUS
    <3> QED BY <3>1
  <2> HIDE DEF k
  <2>3. at[k] = FollowSeg(at[j], Segment(p[k])) /\ place[k] = PlaceBehind(d, place[j], p[k])
    BY <1>3, <1>4, <1>5, <2>1
  <2>4. /\ p[k] \in Token /\ p[k].kind # "empty"
        /\ p[k].kind = "digits" => p[k].value < IntWrap \div 2
    BY <1>1, <2>1 DEF FitsInt, Kinds
  <2>5. CASE Named(j) /\ ~ at[j].found
    <3>1. at[k] = at[j]
      BY <2>3, <2>5 DEF FollowSeg
    <3> QED BY <2>2, <2>5, <3>1
  <2>6. CASE There(j)
    <3> DEFINE tok == p[k]
    <3>1. StandsFor(d, at[j], place[j])
      BY <2>6
    <3>2. tok \in Token /\ tok.kind # "empty" /\ (tok.kind = "digits" => tok.value < IntWrap \div 2)
      BY <2>4
    <3> HIDE DEF tok
    <3>3. LET next == FollowSeg(at[j], Segment(tok))
              q == PlaceBehind(d, place[j], tok)
          IN  \/ tok.kind = "name" /\ ~ next.found
              \/ /\ StandsFor(d, next, q)
                 /\ next.found => q # Nowhere /\ next.node.raw = PlaceText(d, q)
      BY <3>1, <3>2, SegFollows
    <3>4. at[k] = FollowSeg(at[j], Segment(tok)) /\ place[k] = PlaceBehind(d, place[j], tok)
      BY <2>3 DEF tok
    <3>5. \/ tok.kind = "name" /\ ~ at[k].found
          \/ /\ StandsFor(d, at[k], place[k])
             /\ at[k].found => place[k] # Nowhere /\ at[k].node.raw = PlaceText(d, place[k])
      BY Zenon, <3>3, <3>4
    <3>6. tok.kind = "name" => Named(k)
      BY <2>1 DEF tok
    <3> QED BY <3>5, <3>6
  <2> QED BY <2>1, <2>5, <2>6
<1>8. m \in P
  <2> HIDE DEF P
  <2> QED BY <1>1, <1>6, <1>7, Induction
<1>9. (Named(m) /\ ~ at[m].found) \/ There(m)
  BY <1>1, <1>8
<1> DEFINE answer == RawGetBytesByPlan(d.text, SegsOf(p))
<1>10. answer = IF at[m].found THEN Found(at[m].node.raw) ELSE NotFound
  BY Zenon, <1>4 DEF segs
<1> HIDE DEF answer
<1>11. CASE Named(m) /\ ~ at[m].found
  <2>1. "name" \in Kinds(p)
    BY <1>1, <1>11 DEF Kinds
  <2> QED BY <1>10, <1>11, <2>1 DEF answer
<1>12. CASE There(m)
  <2>1. CASE at[m].found
    <3>1. place[m] # Nowhere /\ at[m].node.raw = PlaceText(d, place[m])
      BY <1>1, <1>12, <2>1
    <3> QED BY <1>5, <1>10, <2>1, <3>1 DEF answer
  <2>2. CASE ~ at[m].found
    <3>1. place[m] = Nowhere
      BY <1>12, <2>2 DEF StandsFor
    <3> QED BY <1>5, <1>10, <2>2, <3>1 DEF answer
  <2> QED BY <2>1, <2>2
<1> QED BY <1>9, <1>11, <1>12

-----------------------------------------------------------------------------
(* What holds of the client in every state.  The answers it has are those to  *)
(* its path.  A node it came to from that of FromBytes without ArrayIndex is  *)
(* the one of its target.  The bytes of a node it came to by ArrayIndex alone *)
(* begin with the value at its target, and are its text.                     *)
LookupInv ==
    /\ doc \in Documents
    /\ root = "none" => steps = {}
    /\ root = "raw" => /\ path \in Paths
                       /\ answers.plain = RawGetBytes(doc.text, path)
                       /\ answers.byPlan = RawGetBytesByPlan(doc.text, SegsOf(path))
    /\ root = "FromBytes" /\ steps \subseteq {"key", "walk"} /\ doc.bracketFree =>
         Follows(doc, reached, target)
    /\ steps \subseteq {"index"} /\ target # Nowhere =>
         BeginsWith(doc, reached.raw, target)
    /\ steps = {"index"} =>
         reached.typ = ZeroType /\ TrimSpaceBytes(reached.raw) = PlaceText(doc, target)

(* What the assumptions say of the document.                                 *)
LEMMA DocumentIs ==
    ASSUME LookupInv
    PROVE  /\ doc.text \in Seq(STRING) /\ Laid(doc)
           /\ doc.value = Nowhere => Blank(doc.text, 1, Len(doc.text) + 1)
           /\ doc.bracketFree => WellLaid(doc)
<1>1. doc \in Documents
  BY Zenon DEF LookupInv
<1> QED BY Zenon, <1>1, DocumentAssumption, BalancedIsWellLaid

(* A client that has not begun.                                              *)
LEMMA LookupInitHolds == LookupInit => LookupInv
<1> SUFFICES ASSUME LookupInit PROVE LookupInv
  OBVIOUS
<1>1. doc \in Documents /\ root = "none" /\ steps = {} /\ target = Nowhere
  BY DEF LookupInit
<1>2. "none" # "raw" /\ "none" # "FromBytes" /\ {} # {"index"}
  OBVIOUS
<1> QED BY <1>1, <1>2 DEF LookupInv

(* A node of the whole document, whose bytes are its text.                    *)
LEMMA WholeDocument ==
    ASSUME NEW d, d.text \in Seq(STRING), Laid(d), d.value # Nowhere
    PROVE  FromBytes(d.text).raw = d.text /\ New(d.text).raw = d.text
<1> DEFINE b == d.text
           s == d.value.start
           e == d.value.end
           kind == d.value.kind
<1>1. /\ s \in 1 .. Len(b) /\ e \in 1 .. Len(b) + 1 /\ IsSpan(b, s, e, kind)
      /\ Blank(b, 1, s)
  BY Zenon DEF Laid
<1>2. b \in Seq(STRING) /\ Len(b) \in Nat
  OBVIOUS
<1> HIDE DEF b, s, e, kind
<1>3. s \in Nat /\ e \in Nat
  BY <1>1, <1>2
<1>4. b[s] \notin WhiteSpace
  BY <1>1, <1>3, SpanBegins
<1>5. SkipSpaces(b, 1) = s
  BY <1>1, <1>2, <1>4, SkipSpacesFinds
<1>6. ~ (SkipSpaces(b, 1) > Len(b))
  BY <1>1, <1>2, <1>5
<1>7. FromBytes(b) = NodeAt(b, 1)
  BY Zenon, <1>6 DEF FromBytes
<1>8. NodeAt(b, 1).raw = b
  BY DEF NodeAt
<1>9. New(b).raw = b
  BY DEF New, NoNode
<1> QED BY <1>7, <1>8, <1>9 DEF b

(* The first node, from FromBytes, New or raw.From.                          *)
LEMMA OpenHolds ==
    ASSUME LookupInv, OpenFromBytes \/ OpenNew \/ OpenFrom
    PROVE  LookupInv'
<1>1. /\ doc' = doc /\ root = "none" /\ root' \notin {"none", "raw"} /\ steps' = steps
      /\ root' = "FromBytes" => reached' = FromBytes(doc.text) /\ target' = doc.value
      /\ \/ /\ reached' \in {FromBytes(doc.text), New(doc.text)} /\ target' = doc.value
         \/ reached' = reached /\ target' = target
  BY DEF OpenFromBytes, OpenNew, OpenFrom
<1>2. ASSUME root' = "FromBytes", doc.bracketFree
      PROVE  Follows(doc, reached', target')
  <2>1. Follows(doc, FromBytes(doc.text), doc.value)
    BY <1>2, DocumentIs, ValueFound
  <2> QED BY <1>1, <1>2, <2>1
<1>3. doc' \in Documents /\ steps' = {}
  BY <1>1 DEF LookupInv
<1>4. (root = "FromBytes" /\ steps \subseteq {"key", "walk"} /\ doc.bracketFree =>
         Follows(doc, reached, target))'
  BY <1>1, <1>2
<1>5. ASSUME target' # Nowhere
      PROVE  BeginsWith(doc, reached'.raw, target')
  <2>1. CASE reached' \in {FromBytes(doc.text), New(doc.text)} /\ target' = doc.value
    <3>1. reached'.raw = doc.text
      BY <1>5, <2>1, DocumentIs, WholeDocument
    <3>2. BeginsWith(doc, doc.text, doc.value)
      BY DocumentIs, DocumentBegins
    <3> QED BY <2>1, <3>1, <3>2
  <2>2. CASE reached' = reached /\ target' = target
    BY <1>1, <1>3, <1>5, <2>2 DEF LookupInv
  <2> QED BY <1>1, <2>1, <2>2
<1>6. steps' # {"index"}
  BY <1>3
<1> QED BY <1>1, <1>3, <1>4, <1>5, <1>6 DEF LookupInv

(* A step from one node to the next: if it is no ArrayIndex, then neither was  *)
(* any before it, and the node followed its place.  If all steps were, then   *)
(* the bytes of the node began with the value at its place.                  *)
LEMMA MoveHolds ==
    ASSUME LookupInv, Navigating, NEW n, NEW place, NEW kind, MoveTo(n, place, kind),
           \/ kind = "index"
           \/ WellLaid(doc) /\ Follows(doc, reached, target) => Follows(doc, n, place),
           \/ kind \in {"key", "walk"}
           \/ BeginsWith(doc, reached.raw, target) =>
                /\ place # Nowhere => BeginsWith(doc, n.raw, place)
                /\ n.typ = ZeroType /\ TrimSpaceBytes(n.raw) = PlaceText(doc, place)
    PROVE  LookupInv'
<1>1. /\ doc' = doc /\ root' = root /\ reached' = n /\ target' = place
      /\ steps' = steps \cup {kind}
  BY DEF MoveTo
<1>2. doc' \in Documents
  BY <1>1 DEF LookupInv
<1>3. root' \notin {"none", "raw"} /\ target # Nowhere
  BY <1>1 DEF Navigating
<1>4. ASSUME root = "FromBytes", steps' \subseteq {"key", "walk"}, doc.bracketFree
      PROVE  Follows(doc, n, place)
  <2>1. steps \subseteq {"key", "walk"} /\ kind # "index"
    BY <1>1, <1>4
  <2>2. Follows(doc, reached, target) /\ WellLaid(doc)
    BY <1>4, <2>1, DocumentIs DEF LookupInv
  <2> QED BY <2>1, <2>2
<1>5. ASSUME steps' \subseteq {"index"}
      PROVE  /\ place # Nowhere => BeginsWith(doc, n.raw, place)
             /\ n.typ = ZeroType /\ TrimSpaceBytes(n.raw) = PlaceText(doc, place)
  <2>1. steps \subseteq {"index"} /\ kind \notin {"key", "walk"}
    BY <1>1, <1>5
  <2>2. BeginsWith(doc, reached.raw, target)
    BY <1>3, <2>1 DEF LookupInv
  <2> QED BY <2>1, <2>2
<1>6. steps' = {"index"} => steps' \subseteq {"index"}
  OBVIOUS
<1> QED BY <1>1, <1>2, <1>3, <1>4, <1>5, <1>6 DEF LookupInv

(* Get, of one key or two, however it is done.                               *)
LEMMA KeysHold ==
    ASSUME LookupInv, ByKey \/ ByKeys \/ ByKeysFast
    PROVE  LookupInv'
<1>1. Navigating /\ doc.text \in Seq(STRING)
  BY DocumentIs DEF ByKey, ByKeys, ByKeysFast
<1>2. ASSUME NEW key, WellLaid(doc), NEW n, NEW place, Follows(doc, n, place)
      PROVE  Follows(doc, GetBytes(n, key), MemberAt(doc, place, key))
  BY <1>1, <1>2, MemberFollows
<1>3. CASE ByKey
  <2>1. PICK key \in Keys :
          MoveTo(GetBytes(reached, key), MemberAt(doc, target, key), "key")
    BY <1>3 DEF ByKey
  <2>2. WellLaid(doc) /\ Follows(doc, reached, target) =>
          Follows(doc, GetBytes(reached, key), MemberAt(doc, target, key))
    BY <1>2
  <2> QED BY Zenon, <1>1, <2>1, <2>2, MoveHolds
<1>4. CASE ByKeys \/ ByKeysFast
  <2>1. PICK key1 \in Keys, key2 \in Keys :
          \E n \in {GetPath(reached, <<key1, key2>>), GetPathFast(reached, <<key1, key2>>)} :
            MoveTo(n, MemberAt(doc, MemberAt(doc, target, key1), key2), "key")
    BY <1>4 DEF ByKeys, ByKeysFast
  <2>2. PICK n \in {GetPath(reached, <<key1, key2>>), GetPathFast(reached, <<key1, key2>>)} :
          MoveTo(n, MemberAt(doc, MemberAt(doc, target, key1), key2), "key")
    BY <2>1
  <2>3. WellLaid(doc) /\ Follows(doc, reached, target) =>
          Follows(doc, n, MemberAt(doc, MemberAt(doc, target, key1), key2))
    BY <1>1, PathOfTwoFollows
  <2> QED BY Zenon, <1>1, <2>2, <2>3, MoveHolds
<1> QED BY <1>3, <1>4

(* Nowhere in a document there is no text, and NoNode has none either.        *)
LEMMA NoText ==
    ASSUME NEW d, d.text \in Seq(STRING)
    PROVE  /\ NoNode.typ = ZeroType /\ NoNode.raw = <<>>
           /\ TrimSpaceBytes(<<>>) = <<>> /\ PlaceText(d, Nowhere) = <<>>
<1>1. NoNode.typ = ZeroType /\ NoNode.raw = <<>>
  BY DEF NoNode
<1>2. TrimSpaceBytes(<<>>) = <<>>
  <2>1. Len(<<>>) = 0 /\ 1 .. 0 = {}
    OBVIOUS
  <2> QED BY <2>1 DEF TrimSpaceBytes, SelectInSeq
<1>3. PlaceText(d, Nowhere) = <<>>
  <2>1. Nowhere.start = 1 /\ Nowhere.end - 1 = 0
    BY DEF Nowhere
  <2>2. SubSeq(d.text, 1, 0) = <<>>
    OBVIOUS
  <2> QED BY <2>1, <2>2 DEF PlaceText
<1> QED BY <1>1, <1>2, <1>3

(* The node ArrayIndex gives has no type, and for its bytes the text of the    *)
(* element.                                                                  *)
LEMMA IndexTaken ==
    ASSUME NEW d, d.text \in Seq(STRING), Laid(d), NEW n, NEW place,
           BeginsWith(d, n.raw, place), NEW want \in Int
    PROVE  LET v == ArrayIndex(n, want).node
               p == ElementAt(d, place, want)
           IN  /\ p # Nowhere => BeginsWith(d, v.raw, p)
               /\ v.typ = ZeroType /\ TrimSpaceBytes(v.raw) = PlaceText(d, p)
<1> DEFINE f == ArrayIndex(n, want)
           p == ElementAt(d, place, want)
<1>1. /\ p = Nowhere => f = NoElementThere
      /\ p # Nowhere => /\ f = ElementThereOf(PlaceText(d, p))
                        /\ \E b, off : Cut(b, d.text, off) /\ InCut(d, b, off, p)
  BY Zenon, IndexFollows
<1> HIDE DEF f, p
<1>2. CASE p = Nowhere
  <2>1. f.node = NoNode
    BY <1>1, <1>2 DEF NoElementThere
  <2>2. f.node.typ = ZeroType /\ TrimSpaceBytes(f.node.raw) = PlaceText(d, p)
    BY Zenon, <1>2, <2>1, NoText
  <2> QED BY <1>2, <2>2 DEF f, p
<1>3. CASE p # Nowhere
  <2>1. f.node = New(PlaceText(d, p))
    BY <1>1, <1>3 DEF ElementThereOf
  <2>2. f.node.typ = ZeroType /\ f.node.raw = PlaceText(d, p)
    BY <2>1 DEF New, NoNode
  <2>3. /\ BeginsWith(d, PlaceText(d, p), p)
        /\ TrimSpaceBytes(PlaceText(d, p)) = PlaceText(d, p)
    BY <1>1, <1>3, OwnTextBegins, OwnTextTrimmed
  <2> QED BY <2>2, <2>3 DEF f, p
<1> QED BY <1>2, <1>3

(* An element, of a walk or of ArrayIndex.                                   *)
LEMMA ElementsHold ==
    ASSUME LookupInv, ByIndex \/ ByWalk
    PROVE  LookupInv'
<1>1. Navigating /\ doc.text \in Seq(STRING)
  BY DocumentIs DEF ByIndex, ByWalk
<1>2. CASE ByIndex
  <2>1. PICK k \in Indexes :
          MoveTo(ArrayIndex(reached, k).node, ElementAt(doc, target, k), "index")
    BY <1>2 DEF ByIndex
  <2> DEFINE n == ArrayIndex(reached, k).node
             place == ElementAt(doc, target, k)
  <2>2. ASSUME BeginsWith(doc, reached.raw, target)
        PROVE  /\ place # Nowhere => BeginsWith(doc, n.raw, place)
               /\ n.typ = ZeroType /\ TrimSpaceBytes(n.raw) = PlaceText(doc, place)
    <3>1. k \in Int /\ doc.text \in Seq(STRING) /\ Laid(doc)
      BY DocumentIs, AskedAssumption
    <3> QED BY Zenon, <2>2, <3>1, IndexTaken
  <2> HIDE DEF n, place
  <2>3. MoveTo(n, place, "index")
    BY Zenon, <2>1 DEF n, place
  <2> QED BY Zenon, <1>1, <2>2, <2>3, MoveHolds
<1>3. CASE ByWalk
  <2>1. PICK k \in Indexes :
          MoveTo(ElementNode(reached, k), ElementAt(doc, target, k), "walk")
    BY <1>3 DEF ByWalk
  <2>2. k \in Int
    BY AskedAssumption
  <2>3. WellLaid(doc) /\ Follows(doc, reached, target) =>
          Follows(doc, ElementNode(reached, k), ElementAt(doc, target, k))
    BY <1>1, <2>2, ElementFollows
  <2> QED BY Zenon, <1>1, <2>1, <2>3, MoveHolds
<1> QED BY <1>2, <1>3

(* A question to package raw.                                                *)
LEMMA AskRawHolds ==
    ASSUME LookupInv, AskRaw
    PROVE  LookupInv'
<1>1. PICK p \in Paths :
        /\ path' = p /\ root' = "raw" /\ doc' = doc
        /\ answers' = [plain |-> RawGetBytes(doc.text, p),
                       byPlan |-> RawGetBytesByPlan(doc.text, SegsOf(p))]
  BY DEF AskRaw
<1>2. /\ answers'.plain = RawGetBytes(doc.text, p)
      /\ answers'.byPlan = RawGetBytesByPlan(doc.text, SegsOf(p))
  BY <1>1
<1>3. /\ root = "none" /\ reached' = reached /\ target' = target /\ steps' = steps
      /\ p \in Paths
  BY DEF AskRaw
<1>4. doc \in Documents /\ steps = {}
  BY <1>3 DEF LookupInv
<1>5. target' # Nowhere => BeginsWith(doc', reached'.raw, target')
  BY <1>1, <1>3, <1>4 DEF LookupInv
<1>6. steps' = {} /\ {} # {"index"} /\ "raw" # "FromBytes" /\ "raw" # "none"
  BY <1>3, <1>4
<1> QED BY <1>1, <1>2, <1>3, <1>4, <1>5, <1>6 DEF LookupInv

(* The invariant speaks of the variables alone.                              *)
LEMMA LookupStutterHolds == LookupInv /\ UNCHANGED lookupVars => LookupInv'
BY DEF LookupInv, lookupVars

(* The client's node stands, at every moment, for the value at its place.      *)
THEOREM LookupInvariance == LookupSpec => []LookupInv
<1>1. LookupInv /\ [LookupNext]_lookupVars => LookupInv'
  BY OpenHolds, KeysHold, ElementsHold, AskRawHolds, LookupStutterHolds DEF LookupNext
<1> QED BY <1>1, LookupInitHolds, PTL DEF LookupSpec

(* Any sequence of lookups by key and of elements taken from walks lands on    *)
(* the value the document has there, and on nothing where it has none.       *)
THEOREM LookupsLand == LookupSpec => []KeysLandRight
<1>1. ASSUME LookupInv
      PROVE  KeysLandRight
  <2>1. SUFFICES ASSUME root = "FromBytes", steps \subseteq {"key", "walk"}, doc.bracketFree
                 PROVE  NodeText = TextAt(target)
    BY DEF KeysLandRight, Lands
  <2>2. Follows(doc, reached, target) /\ doc.text \in Seq(STRING)
    BY <1>1, <2>1, DocumentIs DEF LookupInv
  <2>3. CASE target = Nowhere
    <3>1. reached = NoNode
      BY <2>2, <2>3, TextFollows
    <3> QED BY Zenon, <2>2, <2>3, <3>1, NoText DEF NodeText, TextAt, PlaceText
  <2>4. CASE target # Nowhere
    BY <2>2, <2>4, TextFollows DEF NodeText, TextAt
  <2> QED BY <2>3, <2>4
<1> QED BY <1>1, LookupInvariance, PTL

(* Any sequence of ArrayIndex lands on the element the array has there, and on *)
(* nothing where it has none, whatever brackets are in the strings.          *)
THEOREM IndexesLand == LookupSpec => []IndexesLandRight
<1>1. LookupInv => IndexesLandRight
  <2>1. SUFFICES ASSUME LookupInv, steps = {"index"}
                 PROVE  NodeText = TextAt(target)
    BY DEF IndexesLandRight, Lands
  <2>2. reached.typ = ZeroType /\ TrimSpaceBytes(reached.raw) = PlaceText(doc, target)
    BY <2>1 DEF LookupInv
  <2> QED BY Zenon, <2>2 DEF NodeText, TextAt, PlaceText
<1> QED BY <1>1, LookupInvariance, PTL

(* raw.GetBytes answers exactly with the text of the value its path names, or  *)
(* that there is none.                                                       *)
THEOREM PathsAnswered == LookupSpec => []PathAnswersRight
<1>1. ASSUME LookupInv
      PROVE  PathAnswersRight
  <2>1. SUFFICES ASSUME root = "raw", doc.bracketFree, FitsInt(path)
                 PROVE  IsRight(answers.plain)
    BY DEF PathAnswersRight
  <2>2. path \in Seq(Token) /\ answers.plain = RawGetBytes(doc.text, path)
    BY <1>1, <2>1, AskedAssumption DEF LookupInv
  <2> DEFINE n == FindByPath(doc.text, path)
             place == PlaceAt(doc, path)
  <2>3. doc.text \in Seq(STRING) /\ Follows(doc, n, place)
    BY <1>1, <2>1, <2>2, DocumentIs, PathFollows
  <2>4. answers.plain = IF n.typ = ZeroType THEN NotFound ELSE Found(TrimSpaceBytes(Raw(n)))
    BY <2>2 DEF RawGetBytes, ValueOf
  <2> HIDE DEF n, place
  <2>5. CASE place = Nowhere
    <3>1. n.typ = ZeroType
      BY <2>3, <2>5, TextFollows DEF NoNode
    <3> QED BY <2>4, <2>5, <3>1 DEF IsRight, place
  <2>6. CASE place # Nowhere
    <3>1. answers.plain = Found(TextAt(place))
      BY <2>3, <2>4, <2>6, TextFollows DEF TextAt
    <3> QED BY <2>6, <3>1 DEF IsRight, place
  <2> QED BY <2>5, <2>6
<1> QED BY <1>1, LookupInvariance, PTL

(* raw.GetBytesByPlan answers for a path of indexes with the text of the value *)
(* there, or that there is none; for one with names it has no wrong answer.   *)
THEOREM PlansAnswered == LookupSpec => []PlanAnswersRight
<1>1. LookupInv => PlanAnswersRight
  <2>1. SUFFICES ASSUME LookupInv, root = "raw", FitsInt(path), "empty" \notin Kinds(path)
                 PROVE  \/ IsRight(answers.byPlan)
                        \/ "name" \in Kinds(path) /\ answers.byPlan = NotFound
    BY DEF PlanAnswersRight
  <2>2. /\ path \in Seq(Token) /\ path # <<>>
        /\ answers.byPlan = RawGetBytesByPlan(doc.text, SegsOf(path))
    BY <2>1, AskedAssumption DEF LookupInv
  <2> DEFINE answer == RawGetBytesByPlan(doc.text, SegsOf(path))
             place == PlaceAt(doc, path)
  <2>3. \/ answer = IF place = Nowhere THEN NotFound ELSE Found(PlaceText(doc, place))
        \/ "name" \in Kinds(path) /\ answer = NotFound
    <3>1. /\ doc.text \in Seq(STRING) /\ Laid(doc)
          /\ doc.value = Nowhere => Blank(doc.text, 1, Len(doc.text) + 1)
      BY <2>1, DocumentIs
    <3> QED BY Zenon, <2>1, <2>2, <3>1, PlanFollows
  <2> QED BY Zenon, <2>2, <2>3 DEF IsRight, TextAt, PlaceText
<1> QED BY <1>1, LookupInvariance, PTL

-----------------------------------------------------------------------------
(* The turns of the scan for a top key.                                      *)

(* It goes over any value of the document, at any depth.                      *)
LEMMA ValuesSkipped ==
    ASSUME NEW d, d.text \in Seq(STRING), Laid(d),
           NEW u, \A s \in Nat \X Nat : SkipsAt(d.text, u, s)
    PROVE  \A place : InCut(d, d.text, 0, place) => SameFrom(u, place.start, place.end)
<1> DEFINE b == d.text
           P == {m \in Nat : \A place :
                   InCut(d, b, 0, place) /\ place.end - place.start <= m
                     => SameFrom(u, place.start, place.end)}
<1>1. b \in Seq(STRING) /\ Len(b) \in Nat /\ Cut(b, b, 0)
  BY DEF Cut
<1>2. ASSUME NEW place, InCut(d, b, 0, place)
      PROVE  /\ place.start \in Nat \ {0} /\ place.end \in Nat /\ place.start < place.end
             /\ place.end <= Len(b) + 1 /\ place.start <= Len(b)
             /\ IsSpan(b, place.start, place.end, place.kind)
  <2>1. /\ place.start \in Nat /\ place.end \in Nat
        /\ 0 < place.start /\ place.end - 0 <= Len(b) + 1
        /\ IsSpan(d.text, place.start, place.end, place.kind)
    BY Zenon, <1>2 DEF InCut
  <2>2. place.start < place.end
    BY Zenon, <2>1, SpanBegins
  <2> HIDE DEF b
  <2>3. /\ place.start \in Nat \ {0} /\ place.end <= Len(b) + 1 /\ place.start <= Len(b)
    BY <1>1, <2>1, <2>2
  <2> QED BY Zenon, <2>1, <2>2, <2>3 DEF b
<1>3. 0 \in P
  <2> SUFFICES ASSUME NEW place, InCut(d, b, 0, place), place.end - place.start <= 0
               PROVE  FALSE
    BY Zenon
  <2> HIDE DEF b
  <2> QED BY <1>2
<1>4. ASSUME NEW m \in Nat, m \in P
      PROVE  m + 1 \in P
  <2>1. ASSUME NEW place, InCut(d, b, 0, place), place.end - place.start <= m + 1
        PROVE  SameFrom(u, place.start, place.end)
    <3> DEFINE s == place.start
               e == place.end
    <3>1. /\ s \in Nat \ {0} /\ e \in Nat /\ s < e /\ e <= Len(b) + 1 /\ s <= Len(b)
          /\ IsSpan(b, s, e, place.kind)
      BY Zenon, <1>2, <2>1
    <3>2. CASE IsString(b, s, e)
      BY Zenon, <1>1, <3>1, <3>2, StringSkipped
    <3>3. CASE IsLiteral(b, s, e)
      BY Zenon, <1>1, <3>1, <3>3, PlainText, PlainSkipped
    <3>4. CASE place.kind \in {"array", "object"}
      <4> DEFINE c == ContainerAt(d, place)
      <4>1. /\ c.text = d.text /\ c.kind = place.kind
            /\ Encloses(c, place.start, place.end)
            /\ \A k \in 1 .. Len(c.items) :
                 LET item == Place(c.items[k])
                 IN  /\ InCut(d, b, 0, item)
                     /\ item.start > place.start /\ item.end < place.end
                     /\ item.start = c.items[k].start /\ item.end = c.items[k].end
        BY <1>1, <2>1, <3>4, ItemsInCut
      <4> HIDE DEF c
      <4>2. ASSUME NEW k \in 1 .. Len(c.items)
            PROVE  SameFrom(u, c.items[k].start, c.items[k].end)
        <5> DEFINE item == Place(c.items[k])
        <5>1. /\ InCut(d, b, 0, item)
              /\ item.start > place.start /\ item.end < place.end
              /\ item.start = c.items[k].start /\ item.end = c.items[k].end
          BY Zenon, <4>1
        <5> HIDE DEF item, b
        <5>2. item.end - item.start <= m
          <6>1. item.start \in Nat /\ item.end \in Nat
            BY Zenon, <1>2, <5>1
          <6> QED BY <2>1, <3>1, <5>1, <6>1
        <5>3. SameFrom(u, item.start, item.end)
          BY <1>4, <5>1, <5>2
        <5> QED BY <5>1, <5>3
      <4>3. StandsBefore(c, s, e, 1, s + 1) /\ Len(c.items) \in Nat
        BY Zenon, <1>1, <4>1, StandsBeforeFirst, FrameInText
      <4>4. 1 \in 1 .. Len(c.items) + 1
        BY <4>3
      <4>5. Closed(u, s + 1, e)
        BY Zenon, <1>1, <4>1, <4>2, <4>3, <4>4, ItemsSkipped
      <4>6. b[s] \in Openings
        <5>1. IsFrame(b, s, e, "{", "}") \/ IsFrame(b, s, e, "[", "]")
          BY Zenon, <3>1, <3>4 DEF IsSpan
        <5> QED BY Zenon, <5>1 DEF IsFrame, Openings
      <4>7. Opened(u, s, s + 1)
        BY Zenon, <1>1, <3>1, <4>6, SkipSteps
      <4> QED BY Zenon, <4>5, <4>7 DEF SameFrom, Opened, Closed
    <3>5. IsString(b, s, e) \/ IsLiteral(b, s, e) \/ place.kind \in {"array", "object"}
      BY Zenon, <3>1 DEF IsSpan
    <3> QED BY Zenon, <3>2, <3>3, <3>4, <3>5
  <2> QED BY <2>1
<1> HIDE DEF P
<1>5. \A m \in Nat : m \in P
  BY <1>3, <1>4, Induction
<1>6. ASSUME NEW place, InCut(d, b, 0, place)
      PROVE  SameFrom(u, place.start, place.end)
  <2> HIDE DEF b
  <2>1. place.end - place.start \in Nat /\ place.end - place.start <= place.end - place.start
    BY <1>2, <1>6
  <2>2. place.end - place.start \in P
    BY <1>5, <2>1
  <2> QED BY <1>6, <2>1, <2>2 DEF P
<1> QED BY Zenon, <1>6

(* SkipToNext goes from the value of a member to behind what ends the member.  *)
LEMMA SkipToNextFinds ==
    ASSUME NEW d, d.text \in Seq(STRING), Laid(d),
           NEW c, NEW s, NEW e, c.text = d.text, Encloses(c, s, e), c.kind = "object",
           NEW k \in 1 .. Len(c.items), InCut(d, d.text, 0, Place(c.items[k]))
    PROVE  \E z : EndsAt(c, s, e, k, z) /\ SkipToNext(d.text, c.items[k].start) = z + 1
<1> DEFINE b == d.text
           item == c.items[k]
<1>1. b \in Seq(STRING) /\ Len(b) \in Nat /\ c.text = b
  OBVIOUS
<1>2. PICK u : /\ \A i : SkipToNext(b, i) = u[<<i, 0>>]
               /\ \A at \in Nat \X Nat : SkipsAt(b, u, at)
  BY Zenon, <1>1, SkipToNextUnfolds
<1>3. /\ Place(item).start = item.start /\ Place(item).end = item.end
  BY PlaceFields
<1>4. SameFrom(u, item.start, item.end)
  <2>1. SameFrom(u, Place(item).start, Place(item).end)
    BY Zenon, <1>1, <1>2, ValuesSkipped
  <2> HIDE DEF item
  <2> QED BY <1>3, <2>1
<1>5. PICK z : EndsAt(c, s, e, k, z)
  BY Zenon, <1>1, ItemEnds
<1>6. /\ z \in item.end .. item.end + c.blanks /\ z <= e - 1
      /\ Blank(b, item.end, z)
      /\ IF k = Len(c.items) THEN z = e - 1 ELSE b[z] = ","
  BY Zenon, <1>1, <1>5 DEF EndsAt
<1>7. /\ item.end \in Nat /\ c.blanks \in Nat /\ e \in Nat /\ e <= Len(b) + 1
      /\ b[e - 1] = "}"
  <2>1. item.end \in Nat
    BY Zenon, <1>1, ItemInFrame
  <2>2. c.blanks \in Nat /\ e \in Nat /\ e <= Len(b) + 1 /\ b[e - 1] = Closing(c.kind)
    BY Zenon, <1>1, FrameInText
  <2>3. Closing(c.kind) = "}"
    BY Zenon DEF Closing
  <2> QED BY Zenon, <2>1, <2>2, <2>3
<1>8. z \in Nat /\ z <= Len(b) /\ z <= Len(b) + 1
  <2> DEFINE end == item.end
  <2>1. /\ end \in Nat /\ c.blanks \in Nat /\ e \in Nat /\ e <= Len(b) + 1
        /\ z \in end .. end + c.blanks /\ z <= e - 1
    BY Zenon, <1>6, <1>7
  <2> HIDE DEF end, b
  <2> QED BY <1>1, <2>1
<1> HIDE DEF item, b
<1>9. SameFrom(u, item.end, z)
  BY Zenon, <1>1, <1>2, <1>6, <1>7, <1>8, PlainText, PlainSkipped
<1>10. b[z] \in {",", "}"}
  BY Zenon, <1>6, <1>7
<1>11. u[<<z, 0>>] = z + 1
  BY Zenon, <1>1, <1>2, <1>8, <1>10, SkipSteps
<1>12. 0 \in Nat
  OBVIOUS
<1>13. SkipToNext(b, item.start) = z + 1
  BY Zenon, <1>2, <1>4, <1>9, <1>11, <1>12 DEF SameFrom
<1> QED BY Zenon, <1>5, <1>13 DEF b, item

(* A turn of the scan that finds a key and a colon.                          *)
LEMMA TurnAtKey ==
    ASSUME NEW b, Len(b) \in Nat, NEW i, NEW key, NEW p \in Nat, NEW past, NEW colon,
           NEW value,
           SkipSpaces(b, i) = p, p < Len(b), b[p] = QuoteMark, PastString(b, p + 1) = past,
           SkipSpaces(b, past) = colon, ~ (colon > Len(b)), b[colon] = ":",
           SkipSpaces(b, colon + 1) = value
    PROVE  LET turn == Turn(b, i, key)
           IN  IF SubSeq(b, p + 1, past - 2) = key THEN turn.is = "hit"
               ELSE turn.is = "next" /\ turn.i = SkipToNext(b, value)
<1> DEFINE is == SubSeq(b, p + 1, past - 2) = key
<1>1. ~ (p > Len(b)) /\ p # Len(b)
  OBVIOUS
<1>2. Turn(b, i, key) = IF is THEN [is |-> "hit", i |-> value]
                              ELSE [is |-> "next", i |-> SkipToNext(b, value)]
  BY Zenon, <1>1 DEF Turn
<1> HIDE DEF is
<1>3. CASE is
  BY <1>2, <1>3 DEF is
<1>4. CASE ~ is
  BY <1>2, <1>4 DEF is
<1> QED BY <1>3, <1>4

(* Before a member the scan hits, or goes on before the next one or behind    *)
(* the object.                                                               *)
LEMMA TurnAtMember ==
    ASSUME NEW d, d.text \in Seq(STRING), Laid(d),
           NEW c, NEW s, NEW e, c.text = d.text, Encloses(c, s, e), c.kind = "object",
           NEW k \in 1 .. Len(c.items), InCut(d, d.text, 0, Place(c.items[k])),
           NEW q, StandsBefore(c, s, e, k, q), NEW key
    PROVE  LET turn == Turn(d.text, q, key)
           IN  IF c.items[k].key = key THEN turn.is = "hit"
               ELSE /\ turn.is = "next"
                    /\ \/ k = Len(c.items) /\ turn.i = e
                       \/ k # Len(c.items) /\ StandsBefore(c, s, e, k + 1, turn.i)
<1> DEFINE b == d.text
           item == c.items[k]
           n == Len(c.items)
<1>1. b \in Seq(STRING) /\ Len(b) \in Nat /\ c.text = b /\ n \in Nat
  BY FrameInText
<1>2. /\ item.key \in Seq(STRING) /\ item.start \in Nat \ {0} /\ item.end \in Nat
      /\ item.start < item.end /\ item.end <= e - 1
      /\ IsSpan(b, item.start, item.end, item.kind)
  BY Zenon, <1>1, ItemInFrame
<1>3. q \in s + 1 .. e - 1 /\ LeadsTo(b, q, item, "object")
  BY Zenon, <1>1 DEF StandsBefore
<1>4. s \in Nat \ {0} /\ e \in Nat /\ e <= Len(b) + 1
  BY Zenon, <1>1, FrameInText
<1>5. q \in Nat \ {0}
  BY <1>3, <1>4
<1>6. Len(item.key) \in Nat
  BY <1>2
<1>7. PICK p \in q .. item.start, m \in q .. item.start :
        LET past == p + Len(item.key) + 2
        IN  /\ Blank(b, q, p) /\ IsString(b, p, past)
            /\ SubSeq(b, p + 1, past - 2) = item.key
            /\ Blank(b, past, m) /\ b[m] = ":"
            /\ Blank(b, m + 1, item.start)
  BY Zenon, <1>3 DEF LeadsTo
<1> DEFINE past == p + Len(item.key) + 2
<1>8. /\ Blank(b, q, p) /\ IsString(b, p, past)
      /\ SubSeq(b, p + 1, past - 2) = item.key
      /\ Blank(b, past, m) /\ b[m] = ":"
      /\ Blank(b, m + 1, item.start)
  BY Zenon, <1>7
<1>9. past <= m /\ m + 1 <= item.start /\ b[p] = QuoteMark
  BY Zenon, <1>8 DEF Blank, IsString
<1>10. /\ p \in Nat \ {0} /\ m \in Nat \ {0} /\ past \in Nat \ {0} /\ m + 1 \in Nat \ {0}
       /\ item.start <= Len(b) /\ past <= Len(b) + 1
       /\ p <= Len(b) /\ m <= Len(b) /\ p < Len(b) /\ ~ (m > Len(b))
  <2> DEFINE start == item.start
             end == item.end
             len == Len(item.key)
  <2>1. /\ p \in q .. start /\ m \in q .. start /\ past = p + len + 2 /\ len \in Nat
        /\ start \in Nat /\ end \in Nat /\ start < end /\ end <= e - 1
        /\ past <= m /\ m + 1 <= start
    BY Zenon, <1>2, <1>6, <1>9
  <2> HIDE DEF start, end, len, past, b
  <2>2. /\ p \in Nat \ {0} /\ m \in Nat \ {0} /\ past \in Nat \ {0} /\ m + 1 \in Nat \ {0}
       /\ start <= Len(b) /\ past <= Len(b) + 1
       /\ p <= Len(b) /\ m <= Len(b) /\ p < Len(b) /\ ~ (m > Len(b))
    BY <1>1, <1>4, <1>5, <2>1
  <2> QED BY <2>2 DEF start
<1> HIDE DEF past
<1>11. b[p] \notin WhiteSpace /\ b[m] \notin WhiteSpace /\ b[item.start] \notin WhiteSpace
  <2>1. b[item.start] \notin WhiteSpace
    BY Zenon, <1>2, SpanBegins
  <2> QED BY Zenon, <1>8, <1>9, <2>1, MarksAreNotBlank
<1>12. item.start \in Nat
  BY <1>2
<1>13. \E z : EndsAt(c, s, e, k, z) /\ SkipToNext(b, item.start) = z + 1
  BY SkipToNextFinds
<1> HIDE DEF b, item
<1>14. SkipSpaces(b, q) = p
  BY <1>1, <1>5, <1>8, <1>10, <1>11, SkipSpacesFinds
<1>15. PastString(b, p + 1) = past
  BY <1>1, <1>8, <1>10, PastStringFinds
<1>16. SkipSpaces(b, past) = m
  BY <1>1, <1>8, <1>10, <1>11, SkipSpacesFinds
<1>17. SkipSpaces(b, m + 1) = item.start
  BY <1>1, <1>8, <1>10, <1>11, <1>12, SkipSpacesFinds
<1> DEFINE turn == Turn(b, q, key)
<1>18. IF item.key = key THEN turn.is = "hit"
       ELSE turn.is = "next" /\ turn.i = SkipToNext(b, item.start)
  <2>1. p \in Nat
    BY <1>10
  <2>2. IF SubSeq(b, p + 1, past - 2) = key THEN turn.is = "hit"
        ELSE turn.is = "next" /\ turn.i = SkipToNext(b, item.start)
    <3>1. Len(b) \in Nat /\ p < Len(b) /\ ~ (m > Len(b))
      BY Zenon, <1>1, <1>10
    <3>2. b[p] = QuoteMark /\ b[m] = ":"
      BY Zenon, <1>8, <1>9
    <3> HIDE DEF turn
    <3>3. LET t == Turn(b, q, key)
          IN  IF SubSeq(b, p + 1, past - 2) = key THEN t.is = "hit"
              ELSE t.is = "next" /\ t.i = SkipToNext(b, item.start)
      BY ONLY <1>14, <1>15, <1>16, <1>17, <2>1, <3>1, <3>2, TurnAtKey
    <3> QED BY Zenon, <3>3 DEF turn
  <2> QED BY Zenon, <1>8, <2>2
<1> HIDE DEF turn
<1>19. PICK z : EndsAt(c, s, e, k, z) /\ SkipToNext(b, item.start) = z + 1
  BY Zenon, <1>13
<1>20. IF k = n THEN z = e - 1 ELSE StandsBefore(c, s, e, k + 1, z + 1)
  BY Zenon, <1>19 DEF EndsAt
<1>21. (e - 1) + 1 = e
  BY <1>4
<1>22. CASE item.key = key
  BY Zenon, <1>18, <1>22 DEF b, item, turn
<1>23. CASE item.key # key
  <2>1. turn.is = "next" /\ turn.i = z + 1
    BY Zenon, <1>18, <1>19, <1>23
  <2>2. \/ k = n /\ turn.i = e
        \/ k # n /\ StandsBefore(c, s, e, k + 1, turn.i)
    BY Zenon, <1>20, <1>21, <2>1
  <2> QED BY Zenon, <1>23, <2>1, <2>2 DEF b, item, turn, n
<1> QED BY Zenon, <1>22, <1>23

(* Where there is no quote, it misses.                                       *)
LEMMA TurnElsewhere ==
    ASSUME NEW b, NEW i, NEW key,
           SkipSpaces(b, i) > Len(b) \/ b[SkipSpaces(b, i)] # QuoteMark
    PROVE  Turn(b, i, key).is = "miss"
<1>1. Turn(b, i, key) = [is |-> "miss", i |-> SkipSpaces(b, i)]
  BY Zenon DEF Turn
<1> QED BY <1>1

-----------------------------------------------------------------------------
(* The scan for a top key.                                                    *)

(* The object a document is, and no member before k has the key.             *)
TopObject(d) == ContainerAt(d, d.value)
NoneBefore(c, k, key) == \A j \in 1 .. k - 1 : c.items[j].key # key

(* The scan stands before a member, or behind the object.                    *)
StandsIn(d, key, at) ==
    LET c == TopObject(d)
        n == Len(c.items)
    IN  \E k \in 1 .. n + 1 :
           /\ NoneBefore(c, k, key)
           /\ \/ StandsBefore(c, d.value.start, d.value.end, k, at)
              \/ k = n + 1 /\ at = d.value.end

ScanInv ==
    /\ input \in Inputs
    /\ pc = "scan" => ScansFirst /\ (input.state = "whole" => StandsIn(input, request[1], cursor))
    /\ TopKeyFound

(* A whole document that begins with a brace is an object, in which the scan   *)
(* begins.                                                                   *)
WholeObject(d) == d.state = "whole" /\ Len(d.text) >= 2 /\ d.text[1] = "{"

LEMMA TopIsObject ==
    ASSUME NEW d \in Inputs, WholeObject(d)
    PROVE  LET c == TopObject(d)
           IN  /\ d.text \in Seq(STRING) /\ Laid(d)
               /\ c.text = d.text /\ c.kind = "object" /\ c.items = d.inside[d.value]
               /\ d.value.start = 1 /\ d.value.end \in Nat
               /\ Encloses(c, 1, d.value.end)
               /\ DOMAIN c.items = 1 .. Len(c.items) /\ Len(c.items) \in Nat
               /\ Blank(d.text, d.value.end, Len(d.text) + 1)
               /\ \A k \in 1 .. Len(c.items) : InCut(d, d.text, 0, Place(c.items[k]))
<1> DEFINE b == d.text
           p == d.value
           c == TopObject(d)
<1>1. b \in Seq(STRING) /\ p # Nowhere /\ Laid(d)
  BY Zenon, InputAssumption DEF WholeObject
<1>2. /\ p.start \in 1 .. Len(b) /\ p.end \in 1 .. Len(b) + 1
      /\ IsSpan(b, p.start, p.end, p.kind)
      /\ Blank(b, 1, p.start) /\ Blank(b, p.end, Len(b) + 1)
      /\ Known(d, p)
  BY Zenon, <1>1 DEF Laid
<1>3. Len(b) \in Nat
  BY <1>1
<1>4. b[1] = "{"
  BY Zenon DEF WholeObject
<1>5. p.start = 1
  <2>1. b[1] \notin WhiteSpace
    BY Zenon, <1>4, MarksAreNotBlank
  <2>2. 1 <= p.start /\ \A k \in 1 .. p.start - 1 : b[k] \in WhiteSpace
    BY Zenon, <1>2 DEF Blank
  <2> DEFINE start == p.start
  <2>3. start \in 1 .. Len(b) /\ ~ (1 \in 1 .. start - 1)
    BY Zenon, <1>2, <2>1, <2>2
  <2> HIDE DEF start, b
  <2>4. start = 1
    BY <1>3, <2>3
  <2> QED BY <2>4 DEF start
<1>6. p.end \in Nat
  <2> DEFINE end == p.end
  <2>1. end \in 1 .. Len(b) + 1
    BY Zenon, <1>2
  <2> HIDE DEF end, b
  <2> QED BY <1>3, <2>1 DEF end
<1>7. p.kind = "object"
  <2>1. 1 \in Nat
    OBVIOUS
  <2>2. ~ IsLiteral(b, 1, p.end)
    BY Zenon, <1>4, <1>6, <2>1, LiteralChars
  <2>3. ~ IsString(b, 1, p.end) /\ ~ IsFrame(b, 1, p.end, "[", "]")
    BY Zenon, <1>4 DEF IsString, IsFrame, QuoteMark
  <2> QED BY Zenon, <1>2, <1>5, <2>2, <2>3 DEF IsSpan
<1>8. c.text = b /\ c.kind = "object" /\ c.items = d.inside[p]
  BY Zenon, <1>7, ContainerFields DEF TopObject
<1>9. Encloses(c, 1, p.end)
  <2>1. p \in DOMAIN d.inside
    BY Zenon, <1>2, <1>7 DEF Known
  <2>2. Encloses(c, p.start, p.end)
    BY Zenon, <1>1, <2>1 DEF Laid, TopObject
  <2> QED BY Zenon, <1>5, <2>2
<1>10. DOMAIN c.items = 1 .. Len(c.items) /\ Len(c.items) \in Nat
  BY Zenon, <1>9 DEF Encloses
<1>11. InCut(d, b, 0, p)
  <2>1. NumberStops(b, p.end)
    <3> SUFFICES ASSUME p.end <= Len(b) PROVE b[p.end] \notin NumberChars
      BY DEF NumberStops
    <3> DEFINE end == p.end
    <3> HIDE DEF end, b
    <3>1. end <= Len(b) /\ end \in Nat
      BY Zenon, <1>6 DEF end, b
    <3>2. end \in end .. (Len(b) + 1) - 1
      BY <1>3, <3>1
    <3>3. b[end] \in WhiteSpace
      BY Zenon, <1>2, <3>2 DEF Blank, end, b
    <3> QED BY Zenon, <3>3, MarksAreNoNumber DEF end, b
  <2> DEFINE end == p.end
  <2>2. end \in 1 .. Len(b) + 1
    BY Zenon, <1>2
  <2> HIDE DEF end, b
  <2>3. 1 \in Nat /\ 0 < 1 /\ end - 0 <= Len(b) + 1 /\ end - 0 = end
    BY <1>3, <2>2
  <2> QED BY Zenon, <1>2, <1>5, <1>6, <2>1, <2>3 DEF InCut, end, b
<1>12. \A k \in 1 .. Len(c.items) : InCut(d, b, 0, Place(c.items[k]))
  <2>1. Cut(b, b, 0)
    BY <1>3 DEF Cut
  <2>2. p.kind \in {"array", "object"}
    BY Zenon, <1>7
  <2> HIDE DEF b
  <2>3. LET at == ContainerAt(d, p)
        IN  \A k \in 1 .. Len(at.items) : InCut(d, b, 0, Place(at.items[k]))
    BY <1>1, <1>11, <2>1, <2>2, ItemsInCut DEF b
  <2> QED BY <2>3 DEF TopObject
<1> QED BY Zenon, <1>1, <1>2, <1>5, <1>6, <1>8, <1>9, <1>10, <1>12

(* A turn of the scan hits at a member with the key, and misses behind all of  *)
(* them.                                                                     *)
LEMMA TurnDecides ==
    ASSUME NEW d \in Inputs, WholeObject(d), NEW key, NEW at, StandsIn(d, key, at)
    PROVE  LET turn == Turn(d.text, at, key)
               members == d.inside[d.value]
               there == \E k \in DOMAIN members : members[k].key = key
           IN  \/ turn.is = "hit" /\ there
               \/ turn.is = "miss" /\ ~ there
               \/ turn.is = "next" /\ StandsIn(d, key, turn.i)
<1> DEFINE c == TopObject(d)
           e == d.value.end
           n == Len(c.items)
           b == d.text
           turn == Turn(b, at, key)
           there == \E k \in 1 .. n : c.items[k].key = key
<1>1. /\ b \in Seq(STRING) /\ Laid(d)
      /\ c.text = b /\ c.kind = "object" /\ c.items = d.inside[d.value]
      /\ d.value.start = 1 /\ e \in Nat
      /\ Encloses(c, 1, e)
      /\ DOMAIN c.items = 1 .. n /\ n \in Nat
      /\ Blank(b, e, Len(b) + 1)
      /\ \A k \in 1 .. n : InCut(d, b, 0, Place(c.items[k]))
  BY Zenon, TopIsObject
<1>2. PICK k \in 1 .. n + 1 :
        /\ NoneBefore(c, k, key)
        /\ StandsBefore(c, 1, e, k, at) \/ (k = n + 1 /\ at = e)
  BY Zenon, <1>1 DEF StandsIn
<1>3. (\E j \in DOMAIN d.inside[d.value] : d.inside[d.value][j].key = key) <=> there
  BY Zenon, <1>1
<1>4. Len(b) \in Nat /\ 1 \in Nat \ {0} /\ n + 1 \in 1 .. n + 1
  BY <1>1
<1>5. CASE k = n + 1
  <2>1. ~ there
    <3>1. \A j \in 1 .. n : j \in 1 .. k - 1
      BY <1>1, <1>5
    <3> QED BY Zenon, <1>2, <3>1 DEF NoneBefore
  <2>2. SkipSpaces(b, at) > Len(b) \/ b[SkipSpaces(b, at)] # QuoteMark
    <3>1. CASE at = e
      <4>1. 1 + 1 <= e - 1
        BY Zenon, <1>1, FrameInText
      <4> HIDE DEF e, b
      <4>2. e \in Nat \ {0}
        BY <1>1, <4>1
      <4>3. SkipSpaces(b, e) = Len(b) + 1
        BY Zenon, <1>1, <1>4, <4>2, SkipSpacesLeaves
      <4>4. Len(b) + 1 > Len(b)
        BY <1>4
      <4> QED BY Zenon, <3>1, <4>3, <4>4
    <3>2. CASE StandsBefore(c, 1, e, k, at)
      <4>1. at \in 1 + 1 .. e - 1 /\ Blank(b, at, e - 1)
        BY Zenon, <1>1, <1>5, <3>2 DEF StandsBefore
      <4>2. e <= Len(b) + 1 /\ b[e - 1] = Closing("object")
        BY Zenon, <1>1, FrameInText
      <4> HIDE DEF e, b
      <4>3. at \in Nat \ {0} /\ e - 1 \in Nat /\ e - 1 <= Len(b)
        BY <1>1, <1>4, <4>1, <4>2
      <4>4. b[e - 1] \notin WhiteSpace /\ b[e - 1] # QuoteMark
        BY Zenon, <4>2, ClosingStops
      <4> DEFINE last == e - 1
      <4> HIDE DEF last
      <4>5. SkipSpaces(b, at) = last
        BY <1>4, <4>1, <4>3, <4>4, SkipSpacesFinds DEF last
      <4> QED BY Zenon, <4>4, <4>5 DEF last
    <3> QED BY Zenon, <1>2, <3>1, <3>2
  <2>3. turn.is = "miss"
    BY Zenon, <2>2, TurnElsewhere
  <2> QED BY Zenon, <1>3, <2>1, <2>3
<1>6. CASE k # n + 1
  <2>1. k \in 1 .. n /\ k + 1 \in 1 .. n + 1
    BY <1>1, <1>6
  <2>2. StandsBefore(c, 1, e, k, at)
    BY Zenon, <1>2, <1>6
  <2>3. IF c.items[k].key = key THEN turn.is = "hit"
        ELSE /\ turn.is = "next"
             /\ \/ k = n /\ turn.i = e
                \/ k # n /\ StandsBefore(c, 1, e, k + 1, turn.i)
    BY Zenon, <1>1, <2>1, <2>2, TurnAtMember
  <2>4. CASE c.items[k].key = key
    <3>1. there
      BY Zenon, <2>1, <2>4
    <3> QED BY Zenon, <1>3, <2>3, <2>4, <3>1
  <2>5. CASE c.items[k].key # key
    <3>1. \A j \in 1 .. (k + 1) - 1 : j = k \/ j \in 1 .. k - 1
      BY <2>1
    <3>2. NoneBefore(c, k + 1, key)
      BY Zenon, <1>2, <2>5, <3>1 DEF NoneBefore
    <3>3. StandsIn(d, key, turn.i)
      BY Zenon, <1>1, <2>1, <2>3, <2>5, <3>2 DEF StandsIn
    <3> QED BY Zenon, <2>3, <2>5, <3>3
  <2> QED BY Zenon, <2>4, <2>5
<1> QED BY Zenon, <1>5, <1>6

LEMMA ScanInitHolds == ScanInit => ScanInv
BY Zenon DEF ScanInit, ScanInv, TopKeyFound

LEMMA ScanTurnHolds == ScanInv /\ ScanTurn => ScanInv'
<1> SUFFICES ASSUME ScanInv, ScanTurn PROVE ScanInv'
  OBVIOUS
<1> DEFINE turn == Turn(input.text, cursor, request[1])
<1>1. /\ pc = "scan" /\ input' = input /\ request' = request
      /\ pc' = CASE turn.is = "next" -> "scan" [] turn.is = "panic" -> "panic" [] OTHER -> "gjson"
      /\ hit' = (turn.is = "hit") /\ cursor' = turn.i
  BY Zenon DEF ScanTurn, Scanned
<1>2. /\ input \in Inputs /\ ScansFirst
      /\ input.state = "whole" => StandsIn(input, request[1], cursor)
  BY Zenon, <1>1 DEF ScanInv
<1> HIDE DEF turn
<1>3. ScansFirst'
  BY Zenon, <1>1, <1>2 DEF ScansFirst
<1>4. /\ turn.is = "hit" => pc' = "gjson"
      /\ turn.is = "miss" => pc' = "gjson"
      /\ turn.is = "next" => pc' = "scan"
  BY Zenon, <1>1
<1>5. CASE input.state = "whole"
  <2> DEFINE members == input.inside[input.value]
             there == \E k \in DOMAIN members : members[k].key = request[1]
  <2>1. WholeObject(input)
    BY Zenon, <1>2, <1>5 DEF ScansFirst, WholeObject
  <2>2. \/ turn.is = "hit" /\ there
        \/ turn.is = "miss" /\ ~ there
        \/ turn.is = "next" /\ StandsIn(input, request[1], turn.i)
    BY Zenon, <1>2, <1>5, <2>1, TurnDecides DEF turn
  <2>3. CASE turn.is \in {"hit", "miss"}
    <3>1. pc' = "gjson" /\ pc' # "scan"
      BY Zenon, <1>4, <2>3
    <3>2. hit' = there
      BY Zenon, <1>1, <2>2, <2>3
    <3>3. TopKeyFound'
      BY Zenon, <1>1, <3>2 DEF TopKeyFound
    <3> QED BY Zenon, <1>1, <1>2, <3>1, <3>3 DEF ScanInv
  <2>4. CASE turn.is = "next"
    <3>1. pc' = "scan" /\ pc' # "gjson" /\ StandsIn(input', request'[1], cursor')
      BY Zenon, <1>1, <1>4, <2>2, <2>4
    <3> QED BY Zenon, <1>1, <1>2, <1>3, <3>1 DEF ScanInv, TopKeyFound
  <2> QED BY Zenon, <2>2, <2>3, <2>4
<1>6. CASE input.state # "whole"
  <2>1. input'.state # "whole"
    BY Zenon, <1>1, <1>6
  <2> QED BY Zenon, <1>1, <1>2, <1>3, <2>1 DEF ScanInv, TopKeyFound
<1> QED BY Zenon, <1>5, <1>6

LEMMA ScanNextHolds == ScanInv /\ [ScanNext]_scanVars => ScanInv'
<1> SUFFICES ASSUME ScanInv, [ScanNext]_scanVars PROVE ScanInv'
  OBVIOUS
<1>1. CASE Refuse
  <2>1. pc' = "typed" /\ input' = input
    BY Zenon, <1>1 DEF Refuse, Goto
  <2>2. pc' # "scan" /\ pc' # "gjson" /\ input' \in Inputs
    BY Zenon, <2>1 DEF ScanInv
  <2> QED BY Zenon, <2>2 DEF ScanInv, TopKeyFound
<1>2. CASE BeginScan
  <2>1. /\ pc' = "scan" /\ input' = input /\ request' = request /\ cursor' = 2 /\ ScansFirst
    BY Zenon, <1>2 DEF BeginScan, Goto
  <2>2. pc' # "gjson" /\ input \in Inputs
    BY Zenon, <2>1 DEF ScanInv
  <2>3. ScansFirst'
    BY Zenon, <2>1 DEF ScansFirst
  <2>4. ASSUME input.state = "whole"
        PROVE  StandsIn(input, request[1], 2)
    <3> DEFINE c == TopObject(input)
    <3>1. WholeObject(input)
      BY Zenon, <2>1, <2>4 DEF ScansFirst, WholeObject
    <3>2. /\ c.text = input.text /\ input.text \in Seq(STRING) /\ input.value.start = 1
          /\ Encloses(c, 1, input.value.end) /\ Len(c.items) \in Nat
      BY Zenon, <2>2, <2>4, <3>1, TopIsObject
    <3>3. StandsBefore(c, 1, input.value.end, 1, 1 + 1)
      BY Zenon, <3>2, StandsBeforeFirst
    <3>4. 1 + 1 = 2 /\ 1 \in 1 .. Len(c.items) + 1 /\ 1 .. 1 - 1 = {}
      BY <3>2
    <3>5. NoneBefore(c, 1, request[1])
      BY Zenon, <3>4 DEF NoneBefore
    <3>6. StandsBefore(c, input.value.start, input.value.end, 1, 2)
      BY <3>2, <3>3, <3>4
    <3> QED BY Zenon, <3>4, <3>5, <3>6 DEF StandsIn
  <2> QED BY Zenon, <2>1, <2>2, <2>3, <2>4 DEF ScanInv, TopKeyFound
<1>3. CASE NoScan
  <2>1. pc' = "gjson" /\ input' = input /\ request' = request /\ ~ ScansFirst
    BY Zenon, <1>3 DEF NoScan, Goto
  <2>2. pc' # "scan" /\ input' \in Inputs
    BY Zenon, <2>1 DEF ScanInv
  <2>3. ~ ScansFirst'
    BY Zenon, <2>1 DEF ScansFirst
  <2> QED BY Zenon, <2>2, <2>3 DEF ScanInv, TopKeyFound
<1>4. CASE ScanTurn
  BY Zenon, <1>4, ScanTurnHolds
<1>5. CASE Beside
  <2>1. pc' # "scan" /\ pc' # "gjson" /\ input' = input
    BY Zenon, <1>5 DEF Beside
  <2> QED BY Zenon, <2>1 DEF ScanInv, TopKeyFound
<1>6. CASE UNCHANGED scanVars
  BY Zenon, <1>6 DEF scanVars, ScanInv, TopKeyFound, ScansFirst
<1> QED BY Zenon, <1>1, <1>2, <1>3, <1>4, <1>5, <1>6 DEF ScanNext

(* TopKeyFound, of every document, key and layout.                           *)
THEOREM TopKeysFound == ScanSpec => []TopKeyFound
<1>1. ScanInv => TopKeyFound
  BY DEF ScanInv
<1> QED BY ScanInitHolds, ScanNextHolds, <1>1, PTL DEF ScanSpec

-----------------------------------------------------------------------------
(* Integers.                                                                 *)

(* f is the fold of digits with a function of integers.                       *)
IsFold(f, step, p) ==
    /\ f = [s \in SUBSET DOMAIN p |-> IF s = {} THEN 0 ELSE step[<<f[s \ {Max(s)}], p[Max(s)]>>]]
    /\ \A s \in SUBSET DOMAIN p : f[s] \in Int

(* There is one.                                                             *)
LEMMA FoldExists ==
    ASSUME NEW step \in [Int \X Digits -> Int], NEW p, NEW m \in Nat,
           DOMAIN p = 1 .. m, \A j \in 1 .. m : p[j] \in Digits
    PROVE  \E f : IsFold(f, step, p)
<1> DEFINE S == SUBSET (1 .. m)
           rhs(f, s) == IF s = {} THEN 0 ELSE step[<<f[s \ {Max(s)}], p[Max(s)]>>]
           Fits(f, c) == \A s \in S : Cardinality(s) <= c => f[s] = rhs(f, s) /\ f[s] \in Int
           N == {c \in Nat : \E f : Fits(f, c)}
<1>1. \A s \in S :
        /\ Cardinality(s) \in Nat
        /\ s # {} => /\ Max(s) \in s /\ s \ {Max(s)} \in S
                     /\ Cardinality(s \ {Max(s)}) = Cardinality(s) - 1
        /\ Cardinality(s) <= m
  BY IndexSets
<1>2. 0 \in N
  <2> DEFINE f == [s \in S |-> 0]
  <2>1. ASSUME NEW s \in S, Cardinality(s) <= 0
        PROVE  f[s] = rhs(f, s) /\ f[s] \in Int
    <3>1. s = {}
      <4>1. CASE s # {}
        <5>1. Cardinality(s \ {Max(s)}) \in Nat
          BY <1>1, <4>1
        <5> QED BY <1>1, <2>1, <4>1, <5>1
      <4> QED BY <4>1
    <3> QED BY <3>1
  <2> HIDE DEF f, rhs
  <2>2. Fits(f, 0)
    BY <2>1
  <2> HIDE DEF Fits
  <2> QED BY <2>2
<1>3. ASSUME NEW c \in Nat, c \in N
      PROVE  c + 1 \in N
  <2>1. PICK f : Fits(f, c)
    BY <1>3
  <2> DEFINE g == [s \in S |-> IF Cardinality(s) <= c THEN f[s] ELSE rhs(f, s)]
  <2>2. ASSUME NEW s \in S, Cardinality(s) <= c + 1
        PROVE  g[s] = rhs(g, s) /\ g[s] \in Int
    <3>1. g[s] = rhs(f, s)
      BY <2>1
    <3>2. s # {} => g[s \ {Max(s)}] = f[s \ {Max(s)}] /\ f[s \ {Max(s)}] \in Int
      <4>1. ASSUME s # {}
            PROVE  s \ {Max(s)} \in S /\ Cardinality(s \ {Max(s)}) <= c
        BY <1>1, <2>2, <4>1
      <4>2. \A r \in S : Cardinality(r) <= c => f[r] \in Int
        BY <2>1
      <4> HIDE DEF rhs
      <4> QED BY <4>1, <4>2
    <3>3. s # {} => p[Max(s)] \in Digits
      BY <1>1
    <3> HIDE DEF g
    <3>4. g[s] = rhs(g, s)
      BY <3>1, <3>2
    <3>5. s # {} => step[<<f[s \ {Max(s)}], p[Max(s)]>>] \in Int
      <4>1. \A n \in Int, digit \in Digits : step[<<n, digit>>] \in Int
        OBVIOUS
      <4> QED BY <3>2, <3>3, <4>1
    <3>6. g[s] \in Int
      BY <3>1, <3>5
    <3> QED BY <3>4, <3>6
  <2> HIDE DEF g, rhs
  <2>3. Fits(g, c + 1)
    BY <2>2
  <2> HIDE DEF Fits
  <2> QED BY <2>3
<1>4. m \in N
  <2> HIDE DEF N
  <2> QED BY <1>2, <1>3, Induction
<1>5. PICK f : \A s \in S : f[s] = rhs(f, s) /\ f[s] \in Int
  <2> HIDE DEF rhs
  <2> QED BY <1>1, <1>4
<1> DEFINE g == [s \in S |-> f[s]]
<1>6. ASSUME NEW s \in S
      PROVE  g[s] = rhs(g, s) /\ g[s] \in Int
  <2>1. s # {} => g[s \ {Max(s)}] = f[s \ {Max(s)}]
    BY <1>1
  <2>2. g[s] = f[s]
    OBVIOUS
  <2> HIDE DEF g
  <2> QED BY <1>5, <2>1, <2>2
<1>7. g = [s \in S |-> rhs(g, s)]
  <2> HIDE DEF rhs
  <2> QED BY <1>6
<1> HIDE DEF g
<1>8. IsFold(g, step, p)
  BY <1>6, <1>7 DEF IsFold
<1> QED BY <1>8

(* What a digit says.                                                        *)
LEMMA DigitIsSmall ==
    ASSUME NEW c \in Digits
    PROVE  DigitOf(c) \in 0 .. 9
<1>1. \E d \in 0 .. 9 : DecimalDigits[d + 1] = c
  BY DEF Digits, DecimalDigits
<1> QED BY <1>1 DEF DigitOf

(* A turn of the parsers.                                                    *)
Exact(n, c) == 10 * n + DigitOf(c)
Guarded(n, c) ==
    IF n = -1 \/ n > (IntMax - DigitOf(c)) \div 10 THEN -1 ELSE Wrapped(Exact(n, c))
Unguarded(n, c) == Wrapped(Exact(n, c))

(* An integer between the largest one and its negative stays what it is.        *)
LEMMA WrappedInside ==
    ASSUME NEW k \in Int, -IntMax <= k, k <= IntMax
    PROVE  Wrapped(k) = k
<1> DEFINE h == IntWrap \div 2
<1>1. IntWrap \in Nat \ {0}
  BY AskedAssumption
<1>2. h \in Nat /\ h + h <= IntWrap /\ IntMax = h - 1
  BY <1>1 DEF IntMax
<1>3. Wrapped(k) = ((k + h) % IntWrap) - h
  BY DEF Wrapped
<1> HIDE DEF h
<1>4. k + h \in Nat /\ k + h < IntWrap
  BY <1>1, <1>2
<1>5. (k + h) % IntWrap = k + h
  BY <1>1, <1>4
<1> QED BY <1>2, <1>3, <1>5

(* Whatever a turn makes of an integer is one.                               *)
LEMMA TurnsAreIntegers ==
    ASSUME NEW n \in Int, NEW c \in Digits
    PROVE  Exact(n, c) \in Int /\ Guarded(n, c) \in Int /\ Unguarded(n, c) \in Int
<1>1. DigitOf(c) \in Int
  BY DigitIsSmall
<1>2. Exact(n, c) \in Int
  BY <1>1 DEF Exact
<1>3. IntWrap \in Nat \ {0}
  BY AskedAssumption
<1>4. \A k \in Int : Wrapped(k) \in Int
  BY <1>3 DEF Wrapped
<1> QED BY <1>2, <1>4 DEF Guarded, Unguarded

(* at goes through what a parser holds behind the first digits of p.          *)
Holding(p, at) == at[0] = 0 /\ DOMAIN at = 0 .. Len(p)

ExactThrough(p, at) ==
    Holding(p, at) /\ \A j \in 1 .. Len(p) : at[j] = Exact(at[j - 1], p[j])

(* The number digits write is made digit by digit.                           *)
LEMMA ExactInSteps ==
    ASSUME NEW p \in Seq(Digits)
    PROVE  \E at : ExactThrough(p, at) /\ Exactly(p) = at[Len(p)]
<1> DEFINE m == Len(p)
           rhs(f, s) == IF s = {} THEN 0 ELSE 10 * f[s \ {Max(s)}] + DigitOf(p[Max(s)])
           Eq(f) == f = [s \in SUBSET DOMAIN p |-> rhs(f, s)]
           u == CHOOSE f : Eq(f)
           step == [x \in Int \X Digits |-> Exact(x[1], x[2])]
<1>1. m \in Nat /\ DOMAIN p = 1 .. m /\ \A j \in 1 .. m : p[j] \in Digits
  OBVIOUS
<1>2. Exactly(p) = u[1 .. m]
  BY <1>1 DEF Exactly, FoldLeft, MapThenFoldSet
<1> HIDE DEF u, m
<1>3. step \in [Int \X Digits -> Int]
  BY TurnsAreIntegers
<1>4. \A n \in Int, c \in Digits : step[<<n, c>>] = 10 * n + DigitOf(c)
  BY DEF Exact
<1> HIDE DEF step
<1> PICK f : IsFold(f, step, p)
  BY Zenon, <1>1, <1>3, FoldExists
<1>5. /\ f = [s \in SUBSET DOMAIN p |-> IF s = {} THEN 0 ELSE step[<<f[s \ {Max(s)}], p[Max(s)]>>]]
      /\ \A s \in SUBSET DOMAIN p : f[s] \in Int
  BY DEF IsFold
<1>6. Eq(f)
  <2>1. ASSUME NEW s \in SUBSET DOMAIN p
        PROVE  (IF s = {} THEN 0 ELSE step[<<f[s \ {Max(s)}], p[Max(s)]>>]) = rhs(f, s)
    <3>1. s # {} => f[s \ {Max(s)}] \in Int /\ p[Max(s)] \in Digits
      BY <1>1, <1>5, IndexSets
    <3> QED BY <1>4, <3>1
  <2> HIDE DEF rhs
  <2> QED BY <1>5, <2>1
<1>7. ASSUME NEW s \in SUBSET (1 .. m)
      PROVE  u[s] = rhs(u, s)
  <2> HIDE DEF rhs
  <2>1. Eq(u)
    <3> HIDE DEF Eq
    <3> QED BY <1>6 DEF u
  <2> QED BY <1>1, <2>1
<1> DEFINE at == [j \in 0 .. m |-> u[1 .. j]]
<1>8. at[0] = 0
  <2>1. 1 .. 0 = {} /\ 0 \in 0 .. m
    BY <1>1
  <2> QED BY <1>7, <2>1
<1>9. ASSUME NEW j \in 1 .. m
      PROVE  at[j] = Exact(at[j - 1], p[j])
  <2>1. m \in Nat /\ j \in Nat \ {0} /\ j <= m
    BY <1>1
  <2>2. 1 .. j \in SUBSET (1 .. m)
    BY <2>1
  <2>3. 1 .. j \in SUBSET (1 .. m) /\ 1 .. j # {} /\ j \in 0 .. m /\ j - 1 \in 0 .. m
    <3>1. j \in 1 .. j
      BY <2>1
    <3>2. j \in 0 .. m /\ j - 1 \in 0 .. m
      BY <2>1
    <3> QED BY <2>2, <3>1, <3>2
  <2>4. (1 .. j) \ {j} = 1 .. j - 1
    BY <2>1
  <2>5. Max(1 .. j) = j
    BY <1>1, IndexSets
  <2> QED BY <1>7, <2>3, <2>4, <2>5 DEF Exact
<1>10. DOMAIN at = 0 .. m /\ at[m] = u[1 .. m]
  BY <1>1
<1> HIDE DEF at
<1>11. ExactThrough(p, at)
  BY <1>8, <1>9, <1>10 DEF ExactThrough, Holding, m
<1> QED BY <1>2, <1>10, <1>11 DEF m

GuardedThrough(p, at) ==
    Holding(p, at) /\ \A j \in 1 .. Len(p) : at[j] = Guarded(at[j - 1], p[j])

(* So is the one ParseIntFast makes.                                         *)
LEMMA GuardedInSteps ==
    ASSUME NEW b \in Seq(STRING), NEW p \in Seq(Digits), p = AfterSign(b), p # <<>>
    PROVE  \E at : /\ GuardedThrough(p, at)
                   /\ ParseIntFast(b) = IF at[Len(p)] = -1 THEN Fails
                                        ELSE <<"int64", Negated(b, at[Len(p)])>>
<1> DEFINE m == Len(p)
           rhs(f, s) == IF s = {} THEN 0
                         ELSE LET n == f[s \ {Max(s)}]
                                  c == p[Max(s)]
                              IN  IF n = -1 \/ n > (IntMax - DigitOf(c)) \div 10 THEN -1
                                  ELSE Wrapped(10 * n + DigitOf(c))
           Eq(f) == f = [s \in SUBSET DOMAIN p |-> rhs(f, s)]
           u == CHOOSE f : Eq(f)
           step == [x \in Int \X Digits |-> Guarded(x[1], x[2])]
<1>1. m \in Nat /\ DOMAIN p = 1 .. m /\ \A j \in 1 .. m : p[j] \in Digits
  OBVIOUS
<1>2. ParseIntFast(b) = IF u[1 .. m] = -1 THEN Fails ELSE <<"int64", Negated(b, u[1 .. m])>>
  <2>1. ToSet(p) \subseteq Digits
    BY <1>1 DEF ToSet
  <2> QED BY <1>1, <2>1 DEF ParseIntFast, FoldLeft, MapThenFoldSet
<1> HIDE DEF u, m
<1>3. step \in [Int \X Digits -> Int]
  BY TurnsAreIntegers
<1>4. \A n \in Int, c \in Digits : step[<<n, c>>] = Guarded(n, c)
  OBVIOUS
<1> HIDE DEF step
<1> PICK f : IsFold(f, step, p)
  BY Zenon, <1>1, <1>3, FoldExists
<1>5. /\ f = [s \in SUBSET DOMAIN p |-> IF s = {} THEN 0 ELSE step[<<f[s \ {Max(s)}], p[Max(s)]>>]]
      /\ \A s \in SUBSET DOMAIN p : f[s] \in Int
  BY DEF IsFold
<1>6. Eq(f)
  <2>1. ASSUME NEW s \in SUBSET DOMAIN p
        PROVE  (IF s = {} THEN 0 ELSE step[<<f[s \ {Max(s)}], p[Max(s)]>>]) = rhs(f, s)
    <3>1. s # {} => f[s \ {Max(s)}] \in Int /\ p[Max(s)] \in Digits
      BY <1>1, <1>5, IndexSets
    <3> QED BY <1>4, <3>1 DEF Guarded, Exact
  <2> HIDE DEF rhs
  <2> QED BY <1>5, <2>1
<1>7. ASSUME NEW s \in SUBSET (1 .. m)
      PROVE  u[s] = rhs(u, s)
  <2> HIDE DEF rhs
  <2>1. Eq(u)
    <3> HIDE DEF Eq
    <3> QED BY <1>6 DEF u
  <2> QED BY <1>1, <2>1
<1> DEFINE at == [j \in 0 .. m |-> u[1 .. j]]
<1>8. at[0] = 0
  <2>1. 1 .. 0 = {} /\ 0 \in 0 .. m
    BY <1>1
  <2> QED BY <1>7, <2>1
<1>9. ASSUME NEW j \in 1 .. m
      PROVE  at[j] = Guarded(at[j - 1], p[j])
  <2>1. m \in Nat /\ j \in Nat \ {0} /\ j <= m
    BY <1>1
  <2>2. 1 .. j \in SUBSET (1 .. m)
    BY <2>1
  <2>3. 1 .. j \in SUBSET (1 .. m) /\ 1 .. j # {} /\ j \in 0 .. m /\ j - 1 \in 0 .. m
    <3>1. j \in 1 .. j
      BY <2>1
    <3>2. j \in 0 .. m /\ j - 1 \in 0 .. m
      BY <2>1
    <3> QED BY <2>2, <3>1, <3>2
  <2>4. (1 .. j) \ {j} = 1 .. j - 1
    BY <2>1
  <2>5. Max(1 .. j) = j
    BY <1>1, IndexSets
  <2> QED BY <1>7, <2>3, <2>4, <2>5 DEF Guarded, Exact
<1>10. DOMAIN at = 0 .. m /\ at[m] = u[1 .. m]
  BY <1>1
<1> HIDE DEF at
<1>11. GuardedThrough(p, at)
  BY <1>8, <1>9, <1>10 DEF GuardedThrough, Holding, m
<1> QED BY <1>2, <1>10, <1>11 DEF m

UnguardedThrough(p, at) ==
    Holding(p, at) /\ \A j \in 1 .. Len(p) : at[j] = Unguarded(at[j - 1], p[j])

(* So is the one Node.Int makes.                                             *)
LEMMA UnguardedInSteps ==
    ASSUME NEW n, NEW p \in Seq(Digits), p = AfterSign(Raw(n)), p # <<>>, n.typ = "n"
    PROVE  \E at : /\ UnguardedThrough(p, at)
                   /\ NodeInt(n) = <<"int64", Wrapped(Negated(Raw(n), at[Len(p)]))>>
<1> DEFINE m == Len(p)
           rhs(f, s) == IF s = {} THEN 0 ELSE Wrapped(10 * f[s \ {Max(s)}] + DigitOf(p[Max(s)]))
           Eq(f) == f = [s \in SUBSET DOMAIN p |-> rhs(f, s)]
           u == CHOOSE f : Eq(f)
           step == [x \in Int \X Digits |-> Unguarded(x[1], x[2])]
<1>1. m \in Nat /\ DOMAIN p = 1 .. m /\ \A j \in 1 .. m : p[j] \in Digits
  OBVIOUS
<1>2. NodeInt(n) = <<"int64", Wrapped(Negated(Raw(n), u[1 .. m]))>>
  <2>1. ToSet(p) \subseteq Digits
    BY <1>1 DEF ToSet
  <2> QED BY <1>1, <2>1 DEF NodeInt, FoldLeft, MapThenFoldSet
<1> HIDE DEF u, m
<1>3. step \in [Int \X Digits -> Int]
  BY TurnsAreIntegers
<1>4. \A k \in Int, c \in Digits : step[<<k, c>>] = Unguarded(k, c)
  OBVIOUS
<1> HIDE DEF step
<1> PICK f : IsFold(f, step, p)
  BY Zenon, <1>1, <1>3, FoldExists
<1>5. /\ f = [s \in SUBSET DOMAIN p |-> IF s = {} THEN 0 ELSE step[<<f[s \ {Max(s)}], p[Max(s)]>>]]
      /\ \A s \in SUBSET DOMAIN p : f[s] \in Int
  BY DEF IsFold
<1>6. Eq(f)
  <2>1. ASSUME NEW s \in SUBSET DOMAIN p
        PROVE  (IF s = {} THEN 0 ELSE step[<<f[s \ {Max(s)}], p[Max(s)]>>]) = rhs(f, s)
    <3>1. s # {} => f[s \ {Max(s)}] \in Int /\ p[Max(s)] \in Digits
      BY <1>1, <1>5, IndexSets
    <3> QED BY <1>4, <3>1 DEF Unguarded, Exact
  <2> HIDE DEF rhs
  <2> QED BY <1>5, <2>1
<1>7. ASSUME NEW s \in SUBSET (1 .. m)
      PROVE  u[s] = rhs(u, s)
  <2> HIDE DEF rhs
  <2>1. Eq(u)
    <3> HIDE DEF Eq
    <3> QED BY <1>6 DEF u
  <2> QED BY <1>1, <2>1
<1> DEFINE at == [j \in 0 .. m |-> u[1 .. j]]
<1>8. at[0] = 0
  <2>1. 1 .. 0 = {} /\ 0 \in 0 .. m
    BY <1>1
  <2> QED BY <1>7, <2>1
<1>9. ASSUME NEW j \in 1 .. m
      PROVE  at[j] = Unguarded(at[j - 1], p[j])
  <2>1. m \in Nat /\ j \in Nat \ {0} /\ j <= m
    BY <1>1
  <2>2. 1 .. j \in SUBSET (1 .. m)
    BY <2>1
  <2>3. 1 .. j \in SUBSET (1 .. m) /\ 1 .. j # {} /\ j \in 0 .. m /\ j - 1 \in 0 .. m
    <3>1. j \in 1 .. j
      BY <2>1
    <3>2. j \in 0 .. m /\ j - 1 \in 0 .. m
      BY <2>1
    <3> QED BY <2>2, <3>1, <3>2
  <2>4. (1 .. j) \ {j} = 1 .. j - 1
    BY <2>1
  <2>5. Max(1 .. j) = j
    BY <1>1, IndexSets
  <2> QED BY <1>7, <2>3, <2>4, <2>5 DEF Unguarded, Exact
<1>10. DOMAIN at = 0 .. m /\ at[m] = u[1 .. m]
  BY <1>1
<1> HIDE DEF at
<1>11. UnguardedThrough(p, at)
  BY <1>8, <1>9, <1>10 DEF UnguardedThrough, Holding, m
<1> QED BY <1>2, <1>10, <1>11 DEF m

(* What passes the test of the characters is a sequence of digits.            *)
LEMMA DigitsOnly ==
    ASSUME NEW b \in Seq(STRING), ToSet(AfterSign(b)) \subseteq Digits
    PROVE  AfterSign(b) \in Seq(Digits)
<1>1. AfterSign(b) \in Seq(STRING)
  <2>1. b # <<>> => Tail(b) \in Seq(STRING)
    OBVIOUS
  <2> QED BY <2>1 DEF AfterSign, Signed
<1> QED BY <1>1 DEF ToSet

(* The guard refuses exactly the digit that would make the number too large.    *)
LEMMA GuardIsExact ==
    ASSUME NEW x \in Nat, NEW c \in Digits, IntMax \in Nat
    PROVE  /\ Exact(x, c) \in Nat /\ x <= Exact(x, c)
           /\ x <= IntMax =>
                Guarded(x, c) = IF Exact(x, c) <= IntMax THEN Exact(x, c) ELSE -1
           /\ Exact(x, c) <= IntMax => Unguarded(x, c) = Exact(x, c)
<1> DEFINE d == DigitOf(c)
<1>1. d \in 0 .. 9 /\ Exact(x, c) = 10 * x + d
  BY DigitIsSmall DEF Exact
<1> HIDE DEF d
<1>2. x > (IntMax - d) \div 10 <=> 10 * x + d > IntMax
  BY <1>1
<1>3. \A k \in Nat : k <= IntMax => Wrapped(k) = k
  BY WrappedInside
<1>4. Guarded(x, c) = IF x > (IntMax - d) \div 10 THEN -1 ELSE Wrapped(Exact(x, c))
  BY DEF Guarded, d
<1> QED BY <1>1, <1>2, <1>3, <1>4 DEF Unguarded

(* What the parsers hold behind each digit.                                    *)
LEMMA GuardedHolds ==
    ASSUME NEW p \in Seq(Digits), NEW exact, ExactThrough(p, exact),
           NEW at, GuardedThrough(p, at), IntMax \in Nat
    PROVE  \A j \in 0 .. Len(p) :
             /\ exact[j] \in Nat
             /\ at[j] = IF exact[j] <= IntMax THEN exact[j] ELSE -1
<1> DEFINE m == Len(p)
           N == {j \in Nat : j <= m => /\ exact[j] \in Nat
                                       /\ at[j] = IF exact[j] <= IntMax THEN exact[j] ELSE -1}
<1>1. /\ m \in Nat /\ exact[0] = 0 /\ at[0] = 0
      /\ \A j \in 1 .. m : /\ exact[j] = Exact(exact[j - 1], p[j])
                           /\ at[j] = Guarded(at[j - 1], p[j])
                           /\ p[j] \in Digits
  BY DEF ExactThrough, GuardedThrough, Holding
<1> HIDE DEF m
<1>2. 0 \in N
  BY <1>1
<1>3. ASSUME NEW j \in Nat, j \in N
      PROVE  j + 1 \in N
  <2> DEFINE k == j + 1
  <2> SUFFICES ASSUME k <= m
               PROVE  /\ exact[k] \in Nat
                      /\ at[k] = IF exact[k] <= IntMax THEN exact[k] ELSE -1
    OBVIOUS
  <2>1. k \in 1 .. m /\ k - 1 = j /\ j <= m
    BY <1>1
  <2>2. exact[j] \in Nat /\ at[j] = IF exact[j] <= IntMax THEN exact[j] ELSE -1
    BY <1>3, <2>1
  <2> HIDE DEF k
  <2>3. exact[k] = Exact(exact[j], p[k]) /\ at[k] = Guarded(at[j], p[k]) /\ p[k] \in Digits
    BY <1>1, <2>1
  <2>4. exact[k] \in Nat /\ exact[j] <= exact[k]
    BY <2>2, <2>3, GuardIsExact
  <2>5. CASE exact[j] <= IntMax
    <3>1. at[j] = exact[j]
      BY <2>2, <2>5
    <3> QED BY <2>2, <2>3, <2>4, <2>5, <3>1, GuardIsExact
  <2>6. CASE ~ (exact[j] <= IntMax)
    <3>1. at[k] = -1
      BY <2>2, <2>3, <2>6 DEF Guarded
    <3> QED BY <2>2, <2>4, <2>6, <3>1
  <2> QED BY <2>5, <2>6
<1> HIDE DEF N
<1>4. \A j \in Nat : j \in N
  BY <1>2, <1>3, Induction
<1> QED BY <1>1, <1>4 DEF N, m

(* Without the guard, it is the number as long as that fits.                  *)
LEMMA UnguardedHolds ==
    ASSUME NEW p \in Seq(Digits), NEW exact, ExactThrough(p, exact),
           NEW at, UnguardedThrough(p, at), IntMax \in Nat, exact[Len(p)] <= IntMax
    PROVE  at[Len(p)] = exact[Len(p)] /\ exact[Len(p)] \in Nat
<1> DEFINE m == Len(p)
           N == {j \in Nat : j <= m => /\ exact[j] \in Nat
                                       /\ exact[j] <= IntMax => at[j] = exact[j]}
<1>1. /\ m \in Nat /\ exact[0] = 0 /\ at[0] = 0
      /\ \A j \in 1 .. m : /\ exact[j] = Exact(exact[j - 1], p[j])
                           /\ at[j] = Unguarded(at[j - 1], p[j])
                           /\ p[j] \in Digits
  BY DEF ExactThrough, UnguardedThrough, Holding
<1> HIDE DEF m
<1>2. 0 \in N
  BY <1>1
<1>3. ASSUME NEW j \in Nat, j \in N
      PROVE  j + 1 \in N
  <2> DEFINE k == j + 1
  <2> SUFFICES ASSUME k <= m
               PROVE  /\ exact[k] \in Nat
                      /\ exact[k] <= IntMax => at[k] = exact[k]
    OBVIOUS
  <2>1. k \in 1 .. m /\ k - 1 = j /\ j <= m
    BY <1>1
  <2>2. exact[j] \in Nat /\ (exact[j] <= IntMax => at[j] = exact[j])
    BY <1>3, <2>1
  <2> HIDE DEF k
  <2>3. exact[k] = Exact(exact[j], p[k]) /\ at[k] = Unguarded(at[j], p[k]) /\ p[k] \in Digits
    BY <1>1, <2>1
  <2>4. exact[k] \in Nat /\ exact[j] <= exact[k]
    BY <2>2, <2>3, GuardIsExact
  <2>5. ASSUME exact[k] <= IntMax
        PROVE  at[k] = exact[k]
    <3>1. exact[j] <= IntMax
      BY <2>2, <2>4, <2>5
    <3> QED BY <2>2, <2>3, <2>5, <3>1, GuardIsExact
  <2> QED BY <2>4, <2>5
<1> HIDE DEF N
<1>4. \A j \in Nat : j \in N
  BY <1>2, <1>3, Induction
<1>5. m \in N
  BY <1>1, <1>4
<1> QED BY <1>1, <1>5 DEF N, m

(* Of a text of any length, ParseIntFast answers exactly the number it writes,  *)
(* or refuses: what is no integer, and what does not fit.  No digit wraps.      *)
THEOREM ParsedExactly ==
    ASSUME NEW b \in Seq(STRING), IntMax \in Nat
    PROVE  LET digits == AfterSign(b)
           IN  ParseIntFast(b) =
                 IF digits # <<>> /\ ToSet(digits) \subseteq Digits /\ Exactly(digits) <= IntMax
                   THEN <<"int64", Negated(b, Exactly(digits))>> ELSE Fails
<1> DEFINE p == AfterSign(b)
<1>1. CASE p = <<>> \/ ~ (ToSet(p) \subseteq Digits)
  <2>1. ParseIntFast(b) = Fails
    BY <1>1 DEF ParseIntFast
  <2> QED BY <1>1, <2>1
<1>2. CASE p # <<>> /\ ToSet(p) \subseteq Digits
  <2>1. p \in Seq(Digits)
    BY <1>2, DigitsOnly
  <2>2. PICK exact : ExactThrough(p, exact) /\ Exactly(p) = exact[Len(p)]
    BY <2>1, ExactInSteps
  <2>3. PICK at : /\ GuardedThrough(p, at)
                  /\ ParseIntFast(b) = IF at[Len(p)] = -1 THEN Fails
                                       ELSE <<"int64", Negated(b, at[Len(p)])>>
    BY <1>2, <2>1, GuardedInSteps
  <2> HIDE DEF p
  <2>4. Len(p) \in 0 .. Len(p)
    BY <2>1
  <2>5. /\ exact[Len(p)] \in Nat
        /\ at[Len(p)] = IF exact[Len(p)] <= IntMax THEN exact[Len(p)] ELSE -1
    BY <2>1, <2>2, <2>3, <2>4, GuardedHolds
  <2>6. IF Exactly(p) <= IntMax THEN at[Len(p)] = Exactly(p) /\ at[Len(p)] # -1
                                ELSE at[Len(p)] = -1
    BY <2>2, <2>5
  <2> QED BY Zenon, <1>2, <2>3, <2>6 DEF p
<1> QED BY <1>1, <1>2

(* Node.Int, which has no guard, answers as ParseIntFast does for every number  *)
(* that fits: the two parsers are apart only where Int wraps.                  *)
THEOREM NodeIntAgrees ==
    ASSUME NEW n, Raw(n) \in Seq(STRING), n.typ = "n", IntMax \in Nat
    PROVE  Exactly(AfterSign(Raw(n))) <= IntMax => NodeInt(n) = ParseIntFast(Raw(n))
<1> DEFINE b == Raw(n)
           p == AfterSign(b)
<1> HAVE Exactly(p) <= IntMax
<1>1. CASE p = <<>> \/ ~ (ToSet(p) \subseteq Digits)
  BY <1>1 DEF ParseIntFast, NodeInt
<1>2. CASE p # <<>> /\ ToSet(p) \subseteq Digits
  <2>1. p \in Seq(Digits)
    BY <1>2, DigitsOnly
  <2>2. PICK exact : ExactThrough(p, exact) /\ Exactly(p) = exact[Len(p)]
    BY <2>1, ExactInSteps
  <2>3. PICK at : /\ UnguardedThrough(p, at)
                  /\ NodeInt(n) = <<"int64", Wrapped(Negated(b, at[Len(p)]))>>
    BY <1>2, <2>1, UnguardedInSteps
  <2>4. Exactly(p) <= IntMax
    OBVIOUS
  <2>5. Exactly(p) <= IntMax /\ ParseIntFast(b) = <<"int64", Negated(b, Exactly(p))>>
    BY <1>2, <2>4, ParsedExactly
  <2> HIDE DEF p
  <2>6. at[Len(p)] = Exactly(p) /\ Exactly(p) \in Nat
    BY <2>1, <2>2, <2>3, <2>5, UnguardedHolds
  <2>7. Wrapped(Negated(b, Exactly(p))) = Negated(b, Exactly(p))
    <3>1. /\ Negated(b, Exactly(p)) \in Int
          /\ -IntMax <= Negated(b, Exactly(p)) /\ Negated(b, Exactly(p)) <= IntMax
      BY <2>5, <2>6 DEF Negated
    <3> QED BY <3>1, WrappedInside
  <2> QED BY <2>3, <2>5, <2>6, <2>7
<1> QED BY <1>1, <1>2
=============================================================================
