------------------------------- MODULE Lemmas -------------------------------
(***************************************************************************)
(* Facts that the proofs of several components rest on: induction over the  *)
(* natural numbers, and first and last positions.                           *)
(*                                                                          *)
(* Induction is stated for sets, not for predicates: the provers used here   *)
(* are first-order, and cannot instantiate a theorem about any P(_).         *)
(***************************************************************************)
EXTENDS TopKeys, Layout, FiniteSetTheorems, WellFoundedInduction, TLAPS

(* A set of natural numbers has a least element.                             *)
LEMMA Least ==
    ASSUME NEW S \in SUBSET Nat, S # {}
    PROVE  \E m \in S : \A n \in S : m <= n
<1> DEFINE Less == {ss \in Nat \X Nat : ss[1] < ss[2]}
<1>1. IsWellFoundedOn(Less, Nat)
  BY NatLessThanWellFounded DEF OpToRel
<1>2. \A m, n \in Nat : <<n, m>> \in Less <=> n < m
  OBVIOUS
<1> HIDE DEF Less
<1>3. PICK m \in S : \A n \in S : ~ (<<n, m>> \in Less)
  BY <1>1, WFMin
<1>4. \A n \in S : m <= n
  <2> TAKE n \in S
  <2>1. ~ (n < m)
    BY <1>2, <1>3
  <2> QED BY <2>1
<1> QED BY <1>4

(* A set of natural numbers with a bound has a greatest element.             *)
LEMMA Greatest ==
    ASSUME NEW n \in Nat, NEW S \in SUBSET (0 .. n), S # {}
    PROVE  \E m \in S : \A k \in S : k <= m
<1> DEFINE T == {n - k : k \in S}
<1>1. T \in SUBSET Nat /\ T # {}
  <2>1. \A k \in S : k \in Nat /\ n - k \in Nat
    OBVIOUS
  <2> QED BY <2>1
<1>2. PICK d \in T : \A e \in T : d <= e
  BY <1>1, Least
<1>3. PICK m \in S : d = n - m
  OBVIOUS
<1>4. \A k \in S : n - k \in T
  OBVIOUS
<1>5. \A k \in S : k <= m
  <2> TAKE k \in S
  <2>1. n - m <= n - k
    BY <1>2, <1>3, <1>4
  <2> QED BY <2>1
<1> QED BY <1>5

(* Induction: a set with 0, and with the successor of each of its numbers,   *)
(* holds every natural number.                                               *)
LEMMA Induction ==
    ASSUME NEW S, 0 \in S, \A n \in Nat : n \in S => n + 1 \in S
    PROVE  \A n \in Nat : n \in S
<1> DEFINE Others == {n \in Nat : n \notin S}
<1>1. SUFFICES ASSUME Others # {} PROVE FALSE
  OBVIOUS
<1>2. PICK m \in Others : \A n \in Others : m <= n
  BY <1>1, Least
<1>3. m # 0 /\ m - 1 \in Nat /\ m - 1 \notin Others
  BY <1>2
<1> QED BY <1>2, <1>3

(* A sequence without its last element.                                      *)
LEMMA Shorter ==
    ASSUME NEW S, NEW s \in Seq(S), s # <<>>
    PROVE  LET f == SubSeq(s, 1, Len(s) - 1)
           IN  /\ f \in Seq(S)
               /\ Len(f) = Len(s) - 1
               /\ \A k \in 1 .. Len(s) - 1 : f[k] = s[k]
<1> DEFINE g == SubSeq(s, 1, Len(s) - 1)
<1>1. Len(s) \in Nat /\ Len(s) > 0
  OBVIOUS
<1>2. g \in Seq(S)
  BY <1>1
<1>3. Len(g) = Len(s) - 1
  <2>1. \A n \in Nat : Len(SubSeq(s, 1, n)) = n
    OBVIOUS
  <2>2. Len(s) - 1 \in Nat
    BY <1>1
  <2> QED BY <2>1, <2>2, Zenon
<1>4. \A k \in 1 .. Len(s) - 1 : g[k] = s[k]
  OBVIOUS
<1> QED BY <1>2, <1>3, <1>4

(* A sequence with another last element.                                     *)
LEMMA LastReplaced ==
    ASSUME NEW S, NEW s \in Seq(S), s # <<>>, NEW e \in S
    PROVE  LET r == Append(SubSeq(s, 1, Len(s) - 1), e)
           IN  /\ r \in Seq(S)
               /\ Len(r) = Len(s)
               /\ r[Len(s)] = e
               /\ \A k \in 1 .. Len(s) - 1 : r[k] = s[k]
<1> DEFINE f == SubSeq(s, 1, Len(s) - 1)
<1>1. f \in Seq(S) /\ Len(f) = Len(s) - 1 /\ Len(s) \in Nat
  OBVIOUS
<1>2. \A k \in 1 .. Len(s) - 1 : f[k] = s[k]
  OBVIOUS
<1> HIDE DEF f
<1> QED BY <1>1, <1>2
-----------------------------------------------------------------------------
(* The scans of package zeronode, over any sequence of characters.           *)

(* The skip of white space goes on, at most to the end of the text.           *)
LEMMA SkipSpacesMoves ==
    ASSUME NEW b, Len(b) \in Nat, NEW i \in Nat
    PROVE  /\ SkipSpaces(b, i) \in Nat
           /\ SkipSpaces(b, i) >= i
           /\ i <= Len(b) + 1 => SkipSpaces(b, i) <= Len(b) + 1
<1> DEFINE I == {k \in i .. Len(b) : b[k] \notin WhiteSpace}
           at == IF I # {} THEN Min(I) ELSE 0
<1>1. I # {} => Min(I) \in i .. Len(b)
  <2>1. I \in SUBSET Nat
    OBVIOUS
  <2>2. I # {} => \E m \in I : \A k \in I : m <= k
    BY <2>1, Least
  <2> QED BY <2>2 DEF Min
<1>2. SkipSpaces(b, i) = IF at # 0 THEN at ELSE IF i > Len(b) THEN i ELSE Len(b) + 1
  BY DEF SkipSpaces, SelectInSubSeq
<1> QED BY <1>1, <1>2

(* So does the search for the end of a bare value.                           *)
LEMMA FirstOfMoves ==
    ASSUME NEW b, Len(b) \in Nat, NEW i \in Nat, NEW stop
    PROVE  /\ FirstOf(b, i, stop) \in Nat
           /\ FirstOf(b, i, stop) >= i
           /\ i <= Len(b) + 1 => FirstOf(b, i, stop) <= Len(b) + 1
<1> DEFINE I == {k \in i .. Len(b) : b[k] \in stop}
           at == IF I # {} THEN Min(I) ELSE 0
<1>1. I # {} => Min(I) \in i .. Len(b)
  <2>1. I \in SUBSET Nat
    OBVIOUS
  <2>2. I # {} => \E m \in I : \A k \in I : m <= k
    BY <2>1, Least
  <2> QED BY <2>2 DEF Min
<1>2. FirstOf(b, i, stop) = IF at # 0 THEN at ELSE IF i > Len(b) THEN i ELSE Len(b) + 1
  BY DEF FirstOf, SelectInSubSeq
<1> QED BY <1>1, <1>2

(* A walk over states that lie at positions: it goes on from any state that   *)
(* is not in Ends to the next state, which lies further; past n there are     *)
(* only ends.                                                                *)
Moves(S, n, pos, Ends, next) ==
    /\ n \in Nat
    /\ pos \in [S -> Nat]
    /\ next \in [S -> S]
    /\ \A s \in S : pos[s] > n => s \in Ends
    /\ \A s \in S : s \notin Ends => pos[next[s]] > pos[s]

(* P holds every end, and a state when it holds the next one.                *)
Inherited(S, Ends, next, P) ==
    /\ \A s \in S : s \in Ends => s \in P
    /\ \A s \in S : s \notin Ends /\ next[s] \in P => s \in P

(* A walk that ends with the val of the state it comes to.                   *)
IsWalk(S, n, pos, Ends, next, val) ==
    /\ Moves(S, n, pos, Ends, next)
    /\ Ends \in SUBSET S
    /\ val \in [S -> Nat]

(* w gives where the walk from each state ends.                              *)
Walks(w, S, Ends, next, val) ==
    \A s \in S : w[s] = IF s \in Ends THEN val[s] ELSE w[next[s]]

(* No end of the walk lies before its state.                                 *)
Forward(S, pos, Ends, val) == \A s \in Ends : val[s] >= pos[s]

(* No step of the walk from up to top leads past it.                         *)
Within(S, pos, Ends, next, val, top) ==
    /\ top \in Nat
    /\ \A s \in S : s \in Ends /\ pos[s] <= top => val[s] <= top
    /\ \A s \in S : s \notin Ends /\ pos[s] <= top => pos[next[s]] <= top

(* A walk reaches its end: what holds at the ends, and at each state whose    *)
(* next state has it, holds at every state.                                  *)
LEMMA WalkInduction ==
    ASSUME NEW S, NEW n, NEW pos, NEW Ends, NEW next, NEW P,
           Moves(S, n, pos, Ends, next), Inherited(S, Ends, next, P)
    PROVE  \A s \in S : s \in P
<1> USE DEF Moves, Inherited
<1> DEFINE N == {m \in Nat : \A s \in S : pos[s] + m > n => s \in P}
<1>1. 0 \in N
  OBVIOUS
<1>2. ASSUME NEW m \in Nat, m \in N
      PROVE  m + 1 \in N
  <2>1. ASSUME NEW s \in S, pos[s] + (m + 1) > n, s \notin Ends
        PROVE  s \in P
    <3>1. next[s] \in S /\ pos[next[s]] + m > n
      BY <2>1
    <3> QED BY <1>2, <2>1, <3>1
  <2> QED BY <2>1
<1> HIDE DEF N
<1>3. n + 1 \in N
  BY <1>1, <1>2, Induction
<1>4. \A s \in S : pos[s] + (n + 1) > n
  OBVIOUS
<1> QED BY <1>3, <1>4 DEF N

(* f gives what is built on the way back from the end of the walk, a val       *)
(* there, and a step up from what the rest of the walk builds elsewhere.      *)
Builds(f, S, Ends, next, val, up) ==
    \A s \in S : f[s] = IF s \in Ends THEN val[s] ELSE up[<<s, f[next[s]]>>]

(* There is a function that gives what a walk builds.                        *)
LEMMA BuildExists ==
    ASSUME NEW S, NEW n, NEW pos, NEW Ends, NEW next, NEW V, NEW val, NEW up,
           Moves(S, n, pos, Ends, next), val \in [S -> V], up \in [S \X V -> V]
    PROVE  \E f \in [S -> V] : Builds(f, S, Ends, next, val, up)
<1> USE DEF Builds, Moves
<1> DEFINE From(f, s) == IF s \in Ends THEN val[s] ELSE up[<<s, f[next[s]]>>]
           Fits(f, m) == \A s \in S : pos[s] + m > n => f[s] = From(f, s)
           Fitting(m) == \E f \in [S -> V] : Fits(f, m)
           N == {m \in Nat : Fitting(m)}
<1>1. Fitting(0)
  <2>1. val \in [S -> V] /\ Fits(val, 0)
    OBVIOUS
  <2> QED BY <2>1
<1>2. ASSUME NEW m \in Nat, Fitting(m)
      PROVE  Fitting(m + 1)
  <2>1. PICK f \in [S -> V] : Fits(f, m)
    BY <1>2
  <2> DEFINE g == [s \in S |-> IF pos[s] + m = n THEN From(f, s) ELSE f[s]]
  <2>2. \A s \in S : From(f, s) \in V
    OBVIOUS
  <2>3. g \in [S -> V]
    BY <2>2
  <2>4. \A s \in S : g[s] = IF pos[s] + m = n THEN From(f, s) ELSE f[s]
    OBVIOUS
  <2> HIDE DEF g
  <2>5. ASSUME NEW s \in S, pos[s] + (m + 1) > n
        PROVE  g[s] = From(g, s)
    <3>1. From(g, s) = From(f, s)
      <4>1. CASE s \in Ends
        BY <4>1
      <4>2. CASE s \notin Ends
        <5>1. next[s] \in S /\ pos[next[s]] + m # n
          BY <2>5, <4>2
        <5>2. g[next[s]] = f[next[s]]
          BY <5>1, <2>4
        <5> QED BY <4>2, <5>2
      <4> QED BY <4>1, <4>2
    <3>2. CASE pos[s] + m = n
      BY <2>4, <3>1, <3>2
    <3>3. CASE pos[s] + m # n
      <4>1. pos[s] + m > n
        BY <2>5, <3>3
      <4> QED BY <2>1, <2>4, <3>1, <3>3, <4>1
    <3> QED BY <3>2, <3>3
  <2>6. Fits(g, m + 1)
    BY <2>5
  <2> HIDE DEF Fits
  <2> QED BY <2>3, <2>6
<1>3. n + 1 \in N
  <2> HIDE DEF Fitting
  <2>1. \A m \in Nat : m \in N => m + 1 \in N
    BY <1>2
  <2>2. 0 \in N
    BY <1>1
  <2> HIDE DEF N
  <2> QED BY <2>1, <2>2, Induction
<1>4. PICK f \in [S -> V] : Fits(f, n + 1)
  BY <1>3 DEF N, Fitting
<1>5. \A s \in S : pos[s] + (n + 1) > n
  OBVIOUS
<1> QED BY <1>4, <1>5

(* There is a function that gives where a walk ends.                         *)
LEMMA WalkExists ==
    ASSUME NEW S, NEW n, NEW pos, NEW Ends, NEW next, NEW val,
           IsWalk(S, n, pos, Ends, next, val)
    PROVE  \E w \in [S -> Nat] : Walks(w, S, Ends, next, val)
<1> DEFINE V == Nat
           up == [x \in S \X V |-> x[2]]
<1>1. up \in [S \X V -> V] /\ \A s \in S, v \in V : up[<<s, v>>] = v
  OBVIOUS
<1>2. val \in [S -> V] /\ next \in [S -> S]
  BY DEF IsWalk, Moves
<1> HIDE DEF V, up
<1>3. PICK w \in [S -> V] : Builds(w, S, Ends, next, val, up)
  BY <1>1, <1>2, BuildExists DEF IsWalk
<1>4. Walks(w, S, Ends, next, val)
  BY <1>1, <1>2, <1>3 DEF Builds, Walks
<1> QED BY <1>3, <1>4 DEF V

(* f starts from base and goes on in n steps.                                 *)
Steps(f, n, base, step) ==
    /\ f[0] = base
    /\ \A k \in 1 .. n : f[k] = step[<<f[k - 1], k>>]

(* Such a function exists.                                                   *)
LEMMA StepsExist ==
    ASSUME NEW n \in Nat, NEW V, NEW base \in V, NEW step \in [V \X (1 .. n) -> V]
    PROVE  \E f \in [0 .. n -> V] : Steps(f, n, base, step)
<1> USE DEF Steps
<1> DEFINE Fits(f, m) == /\ f[0] = base
                         /\ \A k \in 1 .. n : k <= m => f[k] = step[<<f[k - 1], k>>]
           Fitting(m) == \E f \in [0 .. n -> V] : Fits(f, m)
           N == {m \in Nat : Fitting(m)}
<1>1. Fitting(0)
  <2> DEFINE f == [k \in 0 .. n |-> base]
  <2>1. f \in [0 .. n -> V] /\ Fits(f, 0)
    OBVIOUS
  <2> QED BY <2>1
<1>2. ASSUME NEW m \in Nat, Fitting(m)
      PROVE  Fitting(m + 1)
  <2>1. PICK f \in [0 .. n -> V] : Fits(f, m)
    BY <1>2
  <2>2. CASE m >= n
    <3>1. Fits(f, m + 1)
      BY <2>1, <2>2
    <3> HIDE DEF Fits
    <3> QED BY <3>1
  <2>3. CASE m < n
    <3> DEFINE next == step[<<f[m], m + 1>>]
               g == [f EXCEPT ![m + 1] = next]
    <3>1. m \in 0 .. n /\ m + 1 \in 1 .. n /\ m + 1 \in 0 .. n
      BY <2>3
    <3>2. next \in V
      BY <3>1
    <3>3. g \in [0 .. n -> V] /\ g[m + 1] = next /\ \A k \in 0 .. n : k # m + 1 => g[k] = f[k]
      BY <3>1, <3>2
    <3> HIDE DEF g
    <3>4. g[0] = base
      BY <2>1, <3>3
    <3>5. ASSUME NEW k \in 1 .. n, k <= m + 1
          PROVE  g[k] = step[<<g[k - 1], k>>]
      <4>1. k - 1 \in 0 .. n /\ k - 1 # m + 1
        BY <3>5
      <4>2. g[k - 1] = f[k - 1]
        BY <3>3, <4>1
      <4>3. CASE k = m + 1
        BY <3>3, <4>2, <4>3
      <4>4. CASE k # m + 1
        <5>1. k <= m /\ k \in 0 .. n
          BY <3>5, <4>4
        <5> QED BY <2>1, <3>3, <4>2, <4>4, <5>1
      <4> QED BY <4>3, <4>4
    <3>6. Fits(g, m + 1)
      BY <3>4, <3>5
    <3> HIDE DEF Fits
    <3> QED BY <3>3, <3>6
  <2> HIDE DEF Fitting
  <2> QED BY <2>2, <2>3
<1>3. n \in N
  <2> HIDE DEF Fitting
  <2>1. \A m \in Nat : m \in N => m + 1 \in N
    BY <1>2
  <2>2. 0 \in N
    BY <1>1
  <2> HIDE DEF N
  <2> QED BY <2>1, <2>2, Induction
<1>4. PICK f \in [0 .. n -> V] : Fits(f, n)
  BY <1>3 DEF N, Fitting
<1> QED BY <1>4

(* Such a walk ends at a position, and not behind the one it starts from.    *)
LEMMA WalkForward ==
    ASSUME NEW S, NEW n, NEW pos, NEW Ends, NEW next, NEW val, NEW w,
           IsWalk(S, n, pos, Ends, next, val),
           Walks(w, S, Ends, next, val),
           Forward(S, pos, Ends, val)
    PROVE  \A s \in S : w[s] \in Nat /\ w[s] >= pos[s]
<1> DEFINE P == {s \in S : w[s] \in Nat /\ w[s] >= pos[s]}
<1>1. ASSUME NEW s \in S, s \in Ends
      PROVE  s \in P
  BY <1>1 DEF IsWalk, Moves, Walks, Forward
<1>2. ASSUME NEW s \in S, s \notin Ends, next[s] \in P
      PROVE  s \in P
  <2>1. next[s] \in S /\ pos[next[s]] > pos[s] /\ w[s] = w[next[s]]
    BY <1>2 DEF IsWalk, Moves, Walks
  <2> QED BY <1>2, <2>1 DEF IsWalk, Moves
<1> HIDE DEF P
<1>3. \A s \in S : s \in P
  <2>1. Inherited(S, Ends, next, P)
    BY <1>1, <1>2 DEF Inherited
  <2> QED BY <2>1, WalkInduction DEF IsWalk
<1> QED BY <1>3 DEF P

(* It ends up to a position that none of its steps passes.                   *)
LEMMA WalkWithin ==
    ASSUME NEW S, NEW n, NEW pos, NEW Ends, NEW next, NEW val, NEW w, NEW top,
           IsWalk(S, n, pos, Ends, next, val),
           Walks(w, S, Ends, next, val),
           Within(S, pos, Ends, next, val, top)
    PROVE  \A s \in S : pos[s] <= top => w[s] <= top
<1> DEFINE P == {s \in S : pos[s] <= top => w[s] <= top}
<1>1. ASSUME NEW s \in S, s \in Ends
      PROVE  s \in P
  BY <1>1 DEF IsWalk, Moves, Walks, Within
<1>2. ASSUME NEW s \in S, s \notin Ends, next[s] \in P
      PROVE  s \in P
  BY <1>2 DEF IsWalk, Moves, Walks, Within
<1> HIDE DEF P
<1>3. \A s \in S : s \in P
  <2>1. Inherited(S, Ends, next, P)
    BY <1>1, <1>2 DEF Inherited
  <2> QED BY <2>1, WalkInduction DEF IsWalk
<1> QED BY <1>3 DEF P

(* The scan of a string, step by step.                                       *)
LEMMA StringEndUnfolds ==
    ASSUME NEW b, Len(b) \in Nat
    PROVE  \A j \in Nat : StringEnd(b, j) =
             IF j > Len(b) THEN j
             ELSE IF b[j] = QuoteMark THEN j + 1
             ELSE StringEnd(b, IF b[j] = "\\" THEN j + 2 ELSE j + 1)
<1> DEFINE n == Len(b)
           S == Nat
           pos == [j \in S |-> j]
           Ends == {j \in S : j > n \/ b[j] = QuoteMark}
           val == [j \in S |-> IF j > n THEN j ELSE j + 1]
           next == [j \in S |-> IF b[j] = "\\" THEN j + 2 ELSE j + 1]
           rhs(w, j) == IF j > Len(b) THEN j
                        ELSE CASE b[j] = QuoteMark -> j + 1
                               [] b[j] = "\\" -> w[j + 2]
                               [] OTHER -> w[j + 1]
           Eq(w) == w = [j \in Nat |-> rhs(w, j)]
           u == CHOOSE x : Eq(x)
<1>1. IsWalk(S, n, pos, Ends, next, val)
  BY DEF IsWalk, Moves
<1>2. ASSUME NEW w, NEW j \in S
      PROVE  rhs(w, j) = IF j \in Ends THEN val[j] ELSE w[next[j]]
  <2>1. QuoteMark # "\\"
    BY Zenon DEF QuoteMark
  <2>2. CASE j > n
    BY <2>2
  <2>3. CASE j <= n /\ b[j] = QuoteMark
    BY <2>1, <2>3
  <2>4. CASE j <= n /\ b[j] # QuoteMark
    <3>1. j \notin Ends /\ next[j] = IF b[j] = "\\" THEN j + 2 ELSE j + 1
      BY <2>4
    <3>2. rhs(w, j) = IF b[j] = "\\" THEN w[j + 2] ELSE w[j + 1]
      BY <2>4
    <3> QED BY <3>1, <3>2
  <2> QED BY <2>2, <2>3, <2>4
<1>3. \A i \in Nat : StringEnd(b, i) = u[i]
  BY DEF StringEnd
<1>4. \A j \in S : /\ j \in Ends <=> j > n \/ b[j] = QuoteMark
                   /\ val[j] = IF j > n THEN j ELSE j + 1
                   /\ next[j] = IF b[j] = "\\" THEN j + 2 ELSE j + 1
                   /\ next[j] \in Nat
  OBVIOUS
<1> HIDE DEF pos, Ends, next, val, rhs, n, S
<1>5. \E w \in [S -> Nat] : Walks(w, S, Ends, next, val)
  BY <1>1, WalkExists
<1>6. Eq(u)
  <2>1. \A w \in [S -> Nat] : Walks(w, S, Ends, next, val) => Eq(w)
    BY <1>2 DEF S, Walks
  <2> HIDE DEF Eq
  <2> QED BY <1>5, <2>1
<1> HIDE DEF u
<1>7. Walks(u, S, Ends, next, val)
  BY <1>2, <1>6 DEF S, Walks
<1>8. ASSUME NEW j \in Nat
      PROVE  StringEnd(b, j) =
               IF j > n THEN j
               ELSE IF b[j] = QuoteMark THEN j + 1
               ELSE StringEnd(b, IF b[j] = "\\" THEN j + 2 ELSE j + 1)
  <2>1. u[j] = IF j \in Ends THEN val[j] ELSE u[next[j]]
    BY <1>7 DEF S, Walks
  <2>2. next[j] \in Nat
    BY <1>4 DEF S
  <2>3. StringEnd(b, j) = u[j] /\ StringEnd(b, next[j]) = u[next[j]]
    BY <1>3, <2>2
  <2> QED BY <1>4, <2>1, <2>3 DEF S
<1> QED BY <1>8 DEF n

(* A string ends at its opening quote or behind it, and no further than one   *)
(* position past the end of the text, if the text does not end with a         *)
(* backslash.                                                                *)
LEMMA StringEndMoves ==
    ASSUME NEW b, Len(b) \in Nat, NEW i \in Nat
    PROVE  /\ StringEnd(b, i) \in Nat
           /\ StringEnd(b, i) >= i
           /\ i <= Len(b) + 1 /\ b[Len(b)] # "\\" => StringEnd(b, i) <= Len(b) + 1
<1> DEFINE n == Len(b)
           S == Nat
           pos == [j \in S |-> j]
           Ends == {j \in S : j > n \/ b[j] = QuoteMark}
           val == [j \in S |-> IF j > n THEN j ELSE j + 1]
           next == [j \in S |-> IF b[j] = "\\" THEN j + 2 ELSE j + 1]
           u == [j \in S |-> StringEnd(b, j)]
<1>1. IsWalk(S, n, pos, Ends, next, val)
  BY DEF IsWalk, Moves
<1>2. Forward(S, pos, Ends, val)
  BY DEF Forward
<1>3. b[n] # "\\" => Within(S, pos, Ends, next, val, n + 1)
  BY DEF Within
<1>4. Walks(u, S, Ends, next, val)
  <2>1. ASSUME NEW j \in S
        PROVE  u[j] = IF j \in Ends THEN val[j] ELSE u[next[j]]
    BY StringEndUnfolds
  <2> QED BY <2>1 DEF Walks
<1>5. i \in S /\ pos[i] = i /\ u[i] = StringEnd(b, i)
  OBVIOUS
<1> HIDE DEF pos, Ends, next, val, u, n, S
<1>6. u[i] \in Nat /\ u[i] >= i
  BY <1>1, <1>2, <1>4, <1>5, WalkForward
<1>7. b[n] # "\\" /\ i <= n + 1 => u[i] <= n + 1
  BY <1>1, <1>3, <1>4, <1>5, WalkWithin
<1> QED BY <1>5, <1>6, <1>7 DEF n

(* One step of the count of brackets, at s: a position and the depth before it. *)
CountsAt(b, u, s, open, close) ==
    u[s] = IF s[1] > Len(b) THEN s[1]
           ELSE IF b[s[1]] = open THEN u[<<s[1] + 1, s[2] + 1>>]
           ELSE IF b[s[1]] # close THEN u[<<s[1] + 1, s[2]>>]
           ELSE IF s[2] = 1 THEN s[1] + 1 ELSE u[<<s[1] + 1, s[2] - 1>>]

(* The count of brackets, step by step.                                      *)
LEMMA BracketEndUnfolds ==
    ASSUME NEW b, Len(b) \in Nat, NEW i \in Nat, NEW open, NEW close, open # close
    PROVE  \E u : /\ BracketEnd(b, i, open, close) = u[<<i, 0>>]
                  /\ \A s \in Nat \X Int : CountsAt(b, u, s, open, close)
<1> DEFINE n == Len(b)
           S == Nat \X Int
           pos == [s \in S |-> s[1]]
           Ends == {s \in S : s[1] > n \/ (b[s[1]] = close /\ s[2] = 1)}
           val == [s \in S |-> IF s[1] > n THEN s[1] ELSE s[1] + 1]
           deeper(s) == IF b[s[1]] = open THEN s[2] + 1
                        ELSE IF b[s[1]] = close THEN s[2] - 1 ELSE s[2]
           next == [s \in S |-> <<s[1] + 1, deeper(s)>>]
           rhs(w, s) == IF s[1] > Len(b) THEN s[1]
                        ELSE CASE b[s[1]] = open -> w[<<s[1] + 1, s[2] + 1>>]
                               [] b[s[1]] = close ->
                                    IF s[2] = 1 THEN s[1] + 1 ELSE w[<<s[1] + 1, s[2] - 1>>]
                               [] OTHER -> w[<<s[1] + 1, s[2]>>]
           Eq(w) == w = [s \in S |-> rhs(w, s)]
           u == CHOOSE x : Eq(x)
<1>1. IsWalk(S, n, pos, Ends, next, val)
  BY DEF IsWalk, Moves
<1>2. ASSUME NEW w, NEW s \in S
      PROVE  rhs(w, s) = IF s \in Ends THEN val[s] ELSE w[next[s]]
  <2>1. CASE s[1] > n
    BY <2>1
  <2>2. CASE s[1] <= n /\ b[s[1]] = open
    BY <2>2
  <2>3. CASE s[1] <= n /\ b[s[1]] = close
    BY <2>3
  <2>4. CASE s[1] <= n /\ b[s[1]] \notin {open, close}
    BY <2>4
  <2> QED BY <2>1, <2>2, <2>3, <2>4
<1>3. BracketEnd(b, i, open, close) = u[<<i, 0>>]
  BY DEF BracketEnd
<1>4. ASSUME NEW w, NEW s \in S, w[s] = rhs(w, s)
      PROVE  CountsAt(b, w, s, open, close)
  <2>1. CASE s[1] > n
    BY <1>4, <2>1 DEF CountsAt
  <2>2. CASE s[1] <= n /\ b[s[1]] = open
    BY <1>4, <2>2 DEF CountsAt
  <2>3. CASE s[1] <= n /\ b[s[1]] = close
    BY <1>4, <2>3 DEF CountsAt
  <2>4. CASE s[1] <= n /\ b[s[1]] \notin {open, close}
    BY <1>4, <2>4 DEF CountsAt
  <2> QED BY <2>1, <2>2, <2>3, <2>4
<1> HIDE DEF pos, Ends, next, val, rhs, n, S
<1>5. \E w \in [S -> Nat] : Walks(w, S, Ends, next, val)
  BY <1>1, WalkExists
<1>6. Eq(u)
  <2>1. \A w \in [S -> Nat] : Walks(w, S, Ends, next, val) => Eq(w)
    BY <1>2 DEF Walks
  <2> HIDE DEF Eq
  <2> QED BY <1>5, <2>1
<1> HIDE DEF u
<1>7. \A s \in S : CountsAt(b, u, s, open, close)
  BY <1>4, <1>6
<1> QED BY <1>3, <1>7 DEF S

(* The close of a container lies behind its opening, and in the text.        *)
LEMMA BracketEndMoves ==
    ASSUME NEW b, Len(b) \in Nat, NEW i \in Nat, NEW open, NEW close, open # close
    PROVE  /\ BracketEnd(b, i, open, close) \in Nat
           /\ BracketEnd(b, i, open, close) >= i
           /\ i <= Len(b) + 1 => BracketEnd(b, i, open, close) <= Len(b) + 1
<1> DEFINE n == Len(b)
           S == Nat \X Int
           pos == [s \in S |-> s[1]]
           Ends == {s \in S : s[1] > n \/ (b[s[1]] = close /\ s[2] = 1)}
           val == [s \in S |-> IF s[1] > n THEN s[1] ELSE s[1] + 1]
           deeper(s) == IF b[s[1]] = open THEN s[2] + 1
                        ELSE IF b[s[1]] = close THEN s[2] - 1 ELSE s[2]
           next == [s \in S |-> <<s[1] + 1, deeper(s)>>]
           start == <<i, 0>>
<1>1. IsWalk(S, n, pos, Ends, next, val)
  BY DEF IsWalk, Moves
<1>2. Forward(S, pos, Ends, val)
  BY DEF Forward
<1>3. Within(S, pos, Ends, next, val, n + 1)
  BY DEF Within
<1>4. PICK u : /\ BracketEnd(b, i, open, close) = u[start]
               /\ \A s \in S : CountsAt(b, u, s, open, close)
  BY BracketEndUnfolds
<1>5. Walks(u, S, Ends, next, val)
  <2>1. ASSUME NEW s \in S
        PROVE  u[s] = IF s \in Ends THEN val[s] ELSE u[next[s]]
    BY <1>4 DEF CountsAt
  <2> QED BY <2>1 DEF Walks
<1>6. start \in S /\ pos[start] = i
  OBVIOUS
<1> HIDE DEF pos, Ends, next, val, n, S, start
<1>7. u[start] \in Nat /\ u[start] >= i
  BY <1>1, <1>2, <1>5, <1>6, WalkForward
<1>8. i <= n + 1 => u[start] <= n + 1
  BY <1>1, <1>3, <1>5, <1>6, WalkWithin
<1> QED BY <1>4, <1>7, <1>8 DEF n

(* The scan of a key, step by step.                                          *)
LEMMA KeyEndUnfolds ==
    ASSUME NEW node, Len(node.raw) \in Nat, node.end \in Nat
    PROVE  \A j \in Nat : KeyEnd(node, j) =
             IF j >= node.end \/ j > Len(node.raw) \/ node.raw[j] = QuoteMark THEN j
             ELSE KeyEnd(node, IF node.raw[j] = "\\" THEN j + 2 ELSE j + 1)
<1> DEFINE b == node.raw
           n == Len(b)
           S == Nat
           pos == [j \in S |-> j]
           Ends == {j \in S : j >= node.end \/ j > n \/ b[j] = QuoteMark}
           next == [j \in S |-> IF b[j] = "\\" THEN j + 2 ELSE j + 1]
           rhs(w, j) == IF j >= node.end \/ j > Len(node.raw) THEN j
                        ELSE CASE node.raw[j] = QuoteMark -> j
                               [] node.raw[j] = "\\" -> w[j + 2]
                               [] OTHER -> w[j + 1]
           Eq(w) == w = [j \in Nat |-> rhs(w, j)]
           u == CHOOSE x : Eq(x)
<1>1. IsWalk(S, n, pos, Ends, next, pos)
  BY DEF IsWalk, Moves
<1>2. ASSUME NEW w, NEW j \in S
      PROVE  rhs(w, j) = IF j \in Ends THEN pos[j] ELSE w[next[j]]
  <2>1. QuoteMark # "\\"
    BY Zenon DEF QuoteMark
  <2>2. CASE j >= node.end \/ j > n
    BY <2>2
  <2>3. CASE ~ (j >= node.end \/ j > n) /\ b[j] = QuoteMark
    BY <2>1, <2>3
  <2>4. CASE ~ (j >= node.end \/ j > n) /\ b[j] # QuoteMark
    <3>1. j \notin Ends /\ next[j] = IF b[j] = "\\" THEN j + 2 ELSE j + 1
      BY <2>4
    <3>2. rhs(w, j) = IF b[j] = "\\" THEN w[j + 2] ELSE w[j + 1]
      BY <2>4
    <3> QED BY <3>1, <3>2
  <2> QED BY <2>2, <2>3, <2>4
<1>3. \A i \in Nat : KeyEnd(node, i) = u[i]
  BY DEF KeyEnd
<1>4. \A j \in S : /\ j \in Ends <=> j >= node.end \/ j > n \/ b[j] = QuoteMark
                   /\ pos[j] = j
                   /\ next[j] = IF b[j] = "\\" THEN j + 2 ELSE j + 1
                   /\ next[j] \in Nat
  OBVIOUS
<1> HIDE DEF pos, Ends, next, rhs, n, S
<1>5. \E w \in [S -> Nat] : Walks(w, S, Ends, next, pos)
  BY <1>1, WalkExists
<1>6. Eq(u)
  <2>1. \A w \in [S -> Nat] : Walks(w, S, Ends, next, pos) => Eq(w)
    BY <1>2 DEF S, Walks
  <2> HIDE DEF Eq
  <2> QED BY <1>5, <2>1
<1> HIDE DEF u
<1>7. Walks(u, S, Ends, next, pos)
  BY <1>2, <1>6 DEF S, Walks
<1>8. ASSUME NEW j \in Nat
      PROVE  KeyEnd(node, j) =
               IF j >= node.end \/ j > n \/ b[j] = QuoteMark THEN j
               ELSE KeyEnd(node, IF b[j] = "\\" THEN j + 2 ELSE j + 1)
  <2>1. u[j] = IF j \in Ends THEN pos[j] ELSE u[next[j]]
    BY <1>7 DEF S, Walks
  <2>2. next[j] \in Nat
    BY <1>4 DEF S
  <2>3. KeyEnd(node, j) = u[j] /\ KeyEnd(node, next[j]) = u[next[j]]
    BY <1>3, <2>2
  <2> QED BY <1>4, <2>1, <2>3 DEF S
<1> QED BY <1>8 DEF n

(* A key ends where it begins or behind.                                     *)
LEMMA KeyEndMoves ==
    ASSUME NEW node, Len(node.raw) \in Nat, node.end \in Nat, NEW i \in Nat
    PROVE  /\ KeyEnd(node, i) \in Nat
           /\ KeyEnd(node, i) >= i
<1> DEFINE b == node.raw
           n == Len(b)
           S == Nat
           pos == [j \in S |-> j]
           Ends == {j \in S : j >= node.end \/ j > n \/ b[j] = QuoteMark}
           next == [j \in S |-> IF b[j] = "\\" THEN j + 2 ELSE j + 1]
           u == [j \in S |-> KeyEnd(node, j)]
<1>1. IsWalk(S, n, pos, Ends, next, pos)
  BY DEF IsWalk, Moves
<1>2. Forward(S, pos, Ends, pos)
  BY DEF Forward
<1>3. Walks(u, S, Ends, next, pos)
  <2>1. ASSUME NEW j \in S
        PROVE  u[j] = IF j \in Ends THEN pos[j] ELSE u[next[j]]
    BY KeyEndUnfolds
  <2> QED BY <2>1 DEF Walks
<1>4. i \in S /\ pos[i] = i /\ u[i] = KeyEnd(node, i)
  OBVIOUS
<1> HIDE DEF pos, Ends, next, u, n, S
<1>5. u[i] \in Nat /\ u[i] >= i
  BY <1>1, <1>2, <1>3, <1>4, WalkForward
<1> QED BY <1>4, <1>5

(* A value ends where it starts or behind, in the text unless that ends with  *)
(* a backslash.                                                              *)
LEMMA FindValueEndMoves ==
    ASSUME NEW b \in Seq(STRING), NEW i \in Nat
    PROVE  /\ FindValueEnd(b, i) \in Nat
           /\ FindValueEnd(b, i) >= i
           /\ i <= Len(b) + 1 /\ b[Len(b)] # "\\" => FindValueEnd(b, i) <= Len(b) + 1
<1>1. Len(b) \in Nat
  OBVIOUS
<1>2. QuoteMark \notin {"{", "["}
  BY Zenon DEF QuoteMark
<1> DEFINE Right(e) == /\ e \in Nat /\ e >= i
                       /\ i <= Len(b) + 1 /\ b[Len(b)] # "\\" => e <= Len(b) + 1
<1>3. (i <= Len(b) => ~ (i > Len(b))) /\ (i > Len(b) \/ i <= Len(b))
  BY <1>1
<1>4. ASSUME NEW stop
      PROVE  Right(FirstOf(b, i, stop))
  BY <1>1, FirstOfMoves
<1>5. CASE i > Len(b)
  BY <1>1, <1>5 DEF FindValueEnd
<1>6. CASE i <= Len(b) /\ b[i] = "{"
  <2>1. ~ (i > Len(b))
    BY <1>6, <1>3, Zenon
  <2>2. FindValueEnd(b, i) = BracketEnd(b, i, "{", "}")
    BY <1>2, <1>6, <2>1, Zenon DEF FindValueEnd
  <2> QED BY <1>1, <2>2, BracketEndMoves
<1>7. CASE i <= Len(b) /\ b[i] = "["
  <2>1. ~ (i > Len(b))
    BY <1>7, <1>3, Zenon
  <2>2. FindValueEnd(b, i) = BracketEnd(b, i, "[", "]")
    BY <1>2, <1>7, <2>1, Zenon DEF FindValueEnd
  <2> QED BY <1>1, <2>2, BracketEndMoves
<1>8. CASE i <= Len(b) /\ b[i] = QuoteMark
  <2>1. ~ (i > Len(b))
    BY <1>8, <1>3, Zenon
  <2>2. FindValueEnd(b, i) = StringEnd(b, i + 1)
    BY <1>2, <1>8, <2>1, Zenon DEF FindValueEnd
  <2> DEFINE from == i + 1
  <2>3. from \in Nat /\ from >= i /\ from <= Len(b) + 1
    BY <1>1, <1>8
  <2> HIDE DEF from
  <2>4. /\ StringEnd(b, from) \in Nat /\ StringEnd(b, from) >= from
        /\ from <= Len(b) + 1 /\ b[Len(b)] # "\\" => StringEnd(b, from) <= Len(b) + 1
    BY Zenon, <1>1, <2>3, StringEndMoves
  <2>5. FindValueEnd(b, i) = StringEnd(b, from)
    BY <2>2 DEF from
  <2> HIDE DEF Right
  <2>6. Right(StringEnd(b, from))
    BY <2>3, <2>4 DEF Right
  <2> QED BY <2>5, <2>6 DEF Right
<1>9. CASE i <= Len(b) /\ b[i] \notin {"{", "[", QuoteMark}
  <2>1. ~ (i > Len(b))
    BY <1>9, <1>3, Zenon
  <2> DEFINE end == FirstOf(b, i, {",", "}", "]"})
  <2>2. FindValueEnd(b, i) = end
    BY <1>9, <2>1, Zenon DEF FindValueEnd
  <2> HIDE DEF Right
  <2>3. Right(end)
    BY <1>4, Zenon
  <2> HIDE DEF end
  <2> QED BY <2>2, <2>3 DEF Right
<1> QED BY <1>3, <1>5, <1>6, <1>7, <1>8, <1>9, Zenon

(* Where the value behind i starts and ends.                                 *)
LEMMA NodeAtMoves ==
    ASSUME NEW b \in Seq(STRING), NEW i \in Nat
    PROVE  /\ NodeAt(b, i).raw = b
           /\ NodeAt(b, i).start \in Nat
           /\ NodeAt(b, i).start >= i
           /\ NodeAt(b, i).end \in Nat
           /\ NodeAt(b, i).end >= NodeAt(b, i).start
           /\ i <= Len(b) + 1 /\ b[Len(b)] # "\\" => NodeAt(b, i).end <= Len(b) + 1
<1>1. Len(b) \in Nat
  OBVIOUS
<1> DEFINE s == SkipSpaces(b, i)
<1>2. s \in Nat /\ s >= i /\ (i <= Len(b) + 1 => s <= Len(b) + 1)
  BY <1>1, SkipSpacesMoves
<1>3. s \in Nat
  BY <1>2
<1>4. /\ NodeAt(b, i).raw = b
      /\ NodeAt(b, i).start = s
      /\ NodeAt(b, i).end = FindValueEnd(b, s)
  BY DEF NodeAt
<1> HIDE DEF s
<1>5. /\ FindValueEnd(b, s) \in Nat
      /\ FindValueEnd(b, s) >= s
      /\ s <= Len(b) + 1 /\ b[Len(b)] # "\\" => FindValueEnd(b, s) <= Len(b) + 1
  BY <1>3, FindValueEndMoves
<1> QED BY <1>2, <1>4, <1>5

(* The loop goes on behind the value.                                        *)
LEMMA AfterMoves ==
    ASSUME NEW n, n.raw \in Seq(STRING), n.end \in Nat, NEW v, v.end \in Nat
    PROVE  /\ After(n, v) \in Nat
           /\ After(n, v) >= v.end
           /\ v.end <= Len(n.raw) + 1 /\ n.end <= Len(n.raw) + 1 =>
                After(n, v) <= Len(n.raw) + 1
<1> DEFINE j == SkipSpaces(n.raw, v.end)
<1>1. Len(n.raw) \in Nat
  OBVIOUS
<1>2. j \in Nat /\ j >= v.end /\ (v.end <= Len(n.raw) + 1 => j <= Len(n.raw) + 1)
  BY <1>1, SkipSpacesMoves
<1> DEFINE comma == n.raw[j] = ","
<1>3. After(n, v) = IF j < n.end /\ comma THEN j + 1 ELSE j
  BY Zenon DEF After
<1> HIDE DEF comma, j
<1> QED BY <1>1, <1>2, <1>3

(* The value of a member starts behind its colon, which is inside the object. *)
LEMMA ColonMoves ==
    ASSUME NEW n, n.raw \in Seq(STRING), n.end \in Nat, NEW i \in Nat
    PROVE  Colon(n, i) \in Nat /\ Colon(n, i) >= i
<1>1. Len(n.raw) \in Nat
  OBVIOUS
<1>2. KeyStart(n, i) \in Nat /\ KeyStart(n, i) >= i
  <2>1. SkipSpaces(n.raw, i) \in Nat /\ SkipSpaces(n.raw, i) >= i
    BY <1>1, SkipSpacesMoves
  <2> QED BY <2>1 DEF KeyStart
<1> DEFINE k == KeyEnd(n, KeyStart(n, i))
<1>3. k \in Nat /\ k >= KeyStart(n, i)
  BY <1>1, <1>2, KeyEndMoves
<1>4. Colon(n, i) = SkipSpaces(n.raw, k + 1)
  BY DEF Colon
<1> HIDE DEF k
<1>5. k + 1 \in Nat
  BY <1>3
<1>6. SkipSpaces(n.raw, k + 1) \in Nat /\ SkipSpaces(n.raw, k + 1) >= k + 1
  BY <1>1, <1>5, SkipSpacesMoves
<1> QED BY <1>2, <1>3, <1>4, <1>6

-----------------------------------------------------------------------------
(* What the scans find in a text that is laid out as Layout says.            *)

(* White space is skipped, and nothing else.                                 *)
LEMMA SkipSpacesFinds ==
    ASSUME NEW b, Len(b) \in Nat, NEW i \in Nat \ {0}, NEW j \in Nat,
           Blank(b, i, j), j <= Len(b), b[j] \notin WhiteSpace
    PROVE  SkipSpaces(b, i) = j
<1> DEFINE I == {k \in i .. Len(b) : b[k] \notin WhiteSpace}
           at == IF I # {} THEN Min(I) ELSE 0
<1>1. j \in I /\ \A k \in I : j <= k
  BY DEF Blank
<1>2. \A k \in I : (\A l \in I : k <= l) => k = j
  BY <1>1
<1>3. Min(I) = j
  BY <1>1, <1>2 DEF Min
<1>4. SkipSpaces(b, i) = IF at # 0 THEN at ELSE IF i > Len(b) THEN i ELSE Len(b) + 1
  BY DEF SkipSpaces, SelectInSubSeq
<1>5. i <= j
  BY DEF Blank
<1> QED BY <1>1, <1>3, <1>4, <1>5

(* A bare value goes up to the first character that stops it.                *)
LEMMA FirstOfFinds ==
    ASSUME NEW b, Len(b) \in Nat, NEW i \in Nat \ {0}, NEW j \in Nat, NEW stop,
           i <= j, j <= Len(b), b[j] \in stop, \A k \in i .. j - 1 : b[k] \notin stop
    PROVE  FirstOf(b, i, stop) = j
<1> DEFINE I == {k \in i .. Len(b) : b[k] \in stop}
           at == IF I # {} THEN Min(I) ELSE 0
<1>1. j \in I /\ \A k \in I : j <= k
  OBVIOUS
<1>2. \A k \in I : (\A l \in I : k <= l) => k = j
  BY <1>1
<1>3. Min(I) = j
  BY <1>1, <1>2 DEF Min
<1>4. FirstOf(b, i, stop) = IF at # 0 THEN at ELSE IF i > Len(b) THEN i ELSE Len(b) + 1
  BY DEF FirstOf, SelectInSubSeq
<1> QED BY <1>1, <1>3, <1>4

(* A backslash that is no part of an escape hides the next character, and no  *)
(* other character does; the one behind the escape is not hidden.            *)
LEMMA HiddenNext ==
    ASSUME NEW b, NEW i \in Nat, NEW j \in Nat, i <= j, ~ Hidden(b, i, j)
    PROVE  /\ b[j] # "\\" => ~ Hidden(b, i, j + 1)
           /\ b[j] = "\\" => Hidden(b, i, j + 1) /\ ~ Hidden(b, i, j + 2)
<1> DEFINE Run(k, m) == /\ \A l \in k .. m - 1 : b[l] = "\\"
                        /\ k = i \/ b[k - 1] # "\\"
                        /\ (m - k) % 2 = 1
<1>1. \A m \in Nat : Hidden(b, i, m) <=> \E k \in i .. m - 1 : Run(k, m)
  BY DEF Hidden
<1>2. \A d \in Nat : d % 2 \in 0 .. 1 /\ (d % 2 = 0 => (d + 1) % 2 = 1) /\ (d + 2) % 2 = d % 2
  OBVIOUS
<1>3. ASSUME b[j] # "\\", NEW k \in i .. (j + 1) - 1, Run(k, j + 1)
      PROVE  FALSE
  <2>1. j \in k .. (j + 1) - 1
    OBVIOUS
  <2> QED BY <1>3, <2>1
<1>4. ASSUME b[j] = "\\"
      PROVE  \E k \in i .. (j + 1) - 1 : Run(k, j + 1)
  <2> DEFINE K == {k \in i .. j : \A l \in k .. j : b[l] = "\\"}
  <2>1. j \in K /\ K \in SUBSET Nat
    BY <1>4
  <2>2. PICK k \in K : \A l \in K : k <= l
    BY <2>1, Least
  <2>3. k \in i .. j /\ \A l \in k .. j : b[l] = "\\"
    OBVIOUS
  <2>4. k = i \/ b[k - 1] # "\\"
    <3> SUFFICES ASSUME k # i, b[k - 1] = "\\" PROVE FALSE
      OBVIOUS
    <3>1. k - 1 \in i .. j /\ \A l \in k - 1 .. j : l = k - 1 \/ l \in k .. j
      BY <2>3
    <3>2. k - 1 \in K
      BY <2>3, <3>1
    <3> QED BY <2>2, <2>3, <3>2
  <2>5. (j - k) % 2 = 0
    <3>1. CASE k = j
      BY <3>1
    <3>2. CASE k # j
      <4>1. k \in i .. j - 1 /\ \A l \in k .. j - 1 : l \in k .. j
        BY <2>3, <3>2
      <4>2. ~ Run(k, j)
        BY <1>1, <4>1
      <4>3. (j - k) % 2 # 1
        BY <2>3, <2>4, <4>1, <4>2
      <4> QED BY <1>2, <2>3, <4>3
    <3> QED BY <3>1, <3>2
  <2>6. ((j + 1) - k) % 2 = 1
    <3>1. j - k \in Nat /\ (j - k) + 1 = (j + 1) - k
      BY <2>3
    <3> QED BY <1>2, <2>5, <3>1
  <2>7. (j + 1) - 1 = j
    OBVIOUS
  <2>8. Run(k, j + 1)
    BY <2>3, <2>4, <2>6, <2>7
  <2> QED BY <2>3, <2>7, <2>8
<1>5. ASSUME b[j] = "\\", NEW k \in i .. (j + 2) - 1, Run(k, j + 2)
      PROVE  FALSE
  <2>1. CASE k = j + 1
    BY <1>5, <2>1
  <2>2. CASE k = j
    BY <1>5, <2>2
  <2>3. CASE k < j
    <3>1. k \in i .. j - 1 /\ j - k \in Nat /\ (j + 2) - k = (j - k) + 2
      BY <2>3
    <3>2. (j - k) % 2 = 1
      BY <1>2, <1>5, <3>1
    <3>3. \A l \in k .. j - 1 : l \in k .. (j + 2) - 1
      BY <3>1
    <3>4. Run(k, j)
      BY <1>5, <3>2, <3>3
    <3> QED BY <1>1, <3>1, <3>4
  <2> QED BY <2>1, <2>2, <2>3
<1> QED BY <1>1, <1>3, <1>4, <1>5

(* What a scan sees that steps over escapes: no quote but the closing one.    *)
LEMMA StringSteps ==
    ASSUME NEW b, NEW i \in Nat, NEW e \in Nat, IsString(b, i, e),
           NEW j \in i + 1 .. e - 1, ~ Hidden(b, i + 1, j),
           NEW k, k = IF b[j] = "\\" THEN j + 2 ELSE j + 1
    PROVE  /\ b[j] = QuoteMark <=> j = e - 1
           /\ j # e - 1 => k \in i + 1 .. e - 1 /\ k > j /\ ~ Hidden(b, i + 1, k)
<1>1. b[j] = QuoteMark <=> j = e - 1
  BY DEF IsString
<1>2. /\ b[j] # "\\" => ~ Hidden(b, i + 1, j + 1)
      /\ b[j] = "\\" => Hidden(b, i + 1, j + 1) /\ ~ Hidden(b, i + 1, j + 2)
  BY HiddenNext
<1>3. ~ Hidden(b, i + 1, e - 1)
  BY DEF IsString
<1>4. b[j] = "\\" => j + 1 # e - 1
  BY <1>2, <1>3
<1> QED BY <1>1, <1>2, <1>4

(* The first character of a string is not hidden.                            *)
LEMMA FirstIsNotHidden ==
    ASSUME NEW b, NEW i \in Nat
    PROVE  ~ Hidden(b, i, i)
BY DEF Hidden

(* The scan of a string finds its closing quote.                             *)
LEMMA StringEndFinds ==
    ASSUME NEW b, Len(b) \in Nat, NEW i \in Nat, NEW e \in Nat,
           IsString(b, i, e), e <= Len(b) + 1
    PROVE  StringEnd(b, i + 1) = e
<1> DEFINE Found(m) == \A j \in i + 1 .. e - 1 :
                         e - 1 - j <= m /\ ~ Hidden(b, i + 1, j) => StringEnd(b, j) = e
           P == {m \in Nat : Found(m)}
<1>1. ASSUME NEW j \in i + 1 .. e - 1, ~ Hidden(b, i + 1, j),
             NEW k, k = IF b[j] = "\\" THEN j + 2 ELSE j + 1
      PROVE  /\ j = e - 1 => StringEnd(b, j) = e
             /\ j # e - 1 => StringEnd(b, j) = StringEnd(b, k)
  <2>1. b[j] = QuoteMark <=> j = e - 1
    BY <1>1, StringSteps
  <2>2. StringEnd(b, j) = IF j > Len(b) THEN j
                          ELSE IF b[j] = QuoteMark THEN j + 1 ELSE StringEnd(b, k)
    BY <1>1, StringEndUnfolds
  <2> QED BY <2>1, <2>2
<1>2. 0 \in P
  BY <1>1
<1>3. ASSUME NEW m \in Nat, m \in P
      PROVE  m + 1 \in P
  <2>1. ASSUME NEW j \in i + 1 .. e - 1, e - 1 - j <= m + 1, ~ Hidden(b, i + 1, j)
        PROVE  StringEnd(b, j) = e
    <3> DEFINE k == IF b[j] = "\\" THEN j + 2 ELSE j + 1
    <3>1. CASE j = e - 1
      BY <1>1, <2>1, <3>1
    <3>2. CASE j # e - 1
      <4>1. k \in i + 1 .. e - 1 /\ k > j /\ ~ Hidden(b, i + 1, k)
        BY <2>1, <3>2, StringSteps
      <4>2. StringEnd(b, j) = StringEnd(b, k)
        BY <1>1, <2>1, <3>2
      <4> HIDE DEF k
      <4>3. e - 1 - k <= m
        BY <2>1, <4>1
      <4> QED BY <1>3, <4>1, <4>2, <4>3
    <3> QED BY <3>1, <3>2
  <2> QED BY <2>1
<1> HIDE DEF P
<1>4. e - 1 - (i + 1) \in Nat
  BY DEF IsString
<1>5. e - 1 - (i + 1) \in P
  BY <1>2, <1>3, <1>4, Induction
<1> QED BY <1>4, <1>5, FirstIsNotHidden DEF P

(* So does the scan of a key that lies in the node.                          *)
LEMMA KeyEndFinds ==
    ASSUME NEW node, Len(node.raw) \in Nat, node.end \in Nat, NEW i \in Nat, NEW e \in Nat,
           IsString(node.raw, i, e), e <= Len(node.raw) + 1, e <= node.end
    PROVE  KeyEnd(node, i + 1) = e - 1
<1> DEFINE b == node.raw
           Found(m) == \A j \in i + 1 .. e - 1 :
                         e - 1 - j <= m /\ ~ Hidden(b, i + 1, j) => KeyEnd(node, j) = e - 1
           P == {m \in Nat : Found(m)}
<1>1. ASSUME NEW j \in i + 1 .. e - 1, ~ Hidden(b, i + 1, j),
             NEW k, k = IF b[j] = "\\" THEN j + 2 ELSE j + 1
      PROVE  /\ j = e - 1 => KeyEnd(node, j) = e - 1
             /\ j # e - 1 => KeyEnd(node, j) = KeyEnd(node, k)
  <2>1. b[j] = QuoteMark <=> j = e - 1
    BY <1>1, StringSteps
  <2>2. KeyEnd(node, j) = IF j >= node.end \/ j > Len(b) \/ b[j] = QuoteMark THEN j
                          ELSE KeyEnd(node, k)
    BY <1>1, KeyEndUnfolds
  <2> QED BY <2>1, <2>2
<1>2. 0 \in P
  <2>1. ASSUME NEW j \in i + 1 .. e - 1, e - 1 - j <= 0, ~ Hidden(b, i + 1, j)
        PROVE  KeyEnd(node, j) = e - 1
    <3> DEFINE k == IF b[j] = "\\" THEN j + 2 ELSE j + 1
    <3>1. j = e - 1
      BY <2>1
    <3> QED BY <1>1, <2>1, <3>1
  <2> QED BY <2>1
<1>3. ASSUME NEW m \in Nat, m \in P
      PROVE  m + 1 \in P
  <2>1. ASSUME NEW j \in i + 1 .. e - 1, e - 1 - j <= m + 1, ~ Hidden(b, i + 1, j)
        PROVE  KeyEnd(node, j) = e - 1
    <3> DEFINE k == IF b[j] = "\\" THEN j + 2 ELSE j + 1
    <3>1. CASE j = e - 1
      BY <1>1, <2>1, <3>1
    <3>2. CASE j # e - 1
      <4>1. k \in i + 1 .. e - 1 /\ k > j /\ ~ Hidden(b, i + 1, k)
        BY <2>1, <3>2, StringSteps
      <4>2. KeyEnd(node, j) = KeyEnd(node, k)
        BY <1>1, <2>1, <3>2
      <4> HIDE DEF k
      <4>3. e - 1 - k <= m
        BY <2>1, <4>1
      <4> QED BY <1>3, <4>1, <4>2, <4>3
    <3> QED BY <3>1, <3>2
  <2> QED BY <2>1
<1> HIDE DEF P
<1>4. e - 1 - (i + 1) \in Nat
  BY DEF IsString
<1>5. e - 1 - (i + 1) \in P
  BY <1>2, <1>3, <1>4, Induction
<1> QED BY <1>4, <1>5, FirstIsNotHidden DEF P

(* A container whose brackets balance, and a value whose brackets do.         *)
IsNest(b, i, e, open, close) == IsFrame(b, i, e, open, close) /\ Balances(b, i, e, open, close)

IsValue(b, i, e, kind) ==
    \/ kind = "object" /\ IsNest(b, i, e, "{", "}")
    \/ kind = "array" /\ IsNest(b, i, e, "[", "]")
    \/ kind = "string" /\ IsString(b, i, e)
    \/ kind = "literal" /\ IsLiteral(b, i, e)

(* How often c stands in b from i to m.                                      *)
CountOf(b, i, m, c) == Cardinality({k \in i .. m : b[k] = c})

(* How often it does one position further.                                   *)
LEMMA CountNext ==
    ASSUME NEW b, NEW i \in Nat, NEW j \in Nat, i <= j, NEW c
    PROVE  /\ CountOf(b, i, j - 1, c) \in Nat
           /\ CountOf(b, i, j, c) = CountOf(b, i, j - 1, c) + IF b[j] = c THEN 1 ELSE 0
<1> DEFINE Before == {k \in i .. j - 1 : b[k] = c}
           Upto == {k \in i .. j : b[k] = c}
<1>1. IsFiniteSet(Before) /\ Cardinality(Before) \in Nat
  <2>1. i \in Int /\ j - 1 \in Int
    OBVIOUS
  <2>2. IsFiniteSet(i .. j - 1)
    BY <2>1, FS_Interval
  <2>3. Before \in SUBSET (i .. j - 1)
    OBVIOUS
  <2>4. IsFiniteSet(Before)
    BY <2>2, <2>3, FS_Subset
  <2> QED BY <2>4, FS_CardinalityType
<1>2. b[j] = c => Upto = Before \cup {j} /\ j \notin Before
  OBVIOUS
<1>3. b[j] # c => Upto = Before
  OBVIOUS
<1> HIDE DEF Before, Upto
<1>4. b[j] = c => Cardinality(Upto) = Cardinality(Before) + 1
  BY <1>1, <1>2, FS_AddElement
<1>5. b[j] # c => Cardinality(Upto) = Cardinality(Before) + 0
  BY <1>1, <1>3
<1>6. CountOf(b, i, j - 1, c) = Cardinality(Before) /\ CountOf(b, i, j, c) = Cardinality(Upto)
  BY DEF CountOf, Before, Upto
<1> QED BY <1>1, <1>4, <1>5, <1>6

(* The depth behind a character, from that before it.                        *)
LEMMA DepthNext ==
    ASSUME NEW b, NEW i \in Nat, NEW j \in Nat, i <= j, NEW open, NEW close, open # close
    PROVE  /\ Depth(b, i, j - 1, open, close) \in Int
           /\ Depth(b, i, j, open, close) =
                IF b[j] = open THEN Depth(b, i, j - 1, open, close) + 1
                ELSE IF b[j] = close THEN Depth(b, i, j - 1, open, close) - 1
                ELSE Depth(b, i, j - 1, open, close)
<1>1. /\ CountOf(b, i, j - 1, open) \in Nat
      /\ CountOf(b, i, j, open) =
           CountOf(b, i, j - 1, open) + IF b[j] = open THEN 1 ELSE 0
  BY CountNext
<1>2. /\ CountOf(b, i, j - 1, close) \in Nat
      /\ CountOf(b, i, j, close) =
           CountOf(b, i, j - 1, close) + IF b[j] = close THEN 1 ELSE 0
  BY CountNext
<1>3. /\ Depth(b, i, j, open, close) = CountOf(b, i, j, open) - CountOf(b, i, j, close)
      /\ Depth(b, i, j - 1, open, close) =
           CountOf(b, i, j - 1, open) - CountOf(b, i, j - 1, close)
  BY DEF Depth, CountOf
<1> QED BY <1>1, <1>2, <1>3

(* Nothing is open before the first bracket.                                 *)
LEMMA DepthBefore ==
    ASSUME NEW b, NEW i \in Nat, NEW open, NEW close
    PROVE  Depth(b, i, i - 1, open, close) = 0
<1>1. \A c : {k \in i .. i - 1 : b[k] = c} = {}
  OBVIOUS
<1> QED BY <1>1, FS_EmptySet DEF Depth

(* The count of brackets finds where they balance first.                     *)
LEMMA BracketEndFinds ==
    ASSUME NEW b, Len(b) \in Nat, NEW i \in Nat, NEW e \in Nat,
           NEW open, NEW close, open # close,
           IsNest(b, i, e, open, close), e <= Len(b) + 1
    PROVE  BracketEnd(b, i, open, close) = e
<1> DEFINE depth(j) == Depth(b, i, j, open, close)
<1>1. PICK u : /\ BracketEnd(b, i, open, close) = u[<<i, 0>>]
               /\ \A s \in Nat \X Int : CountsAt(b, u, s, open, close)
  BY BracketEndUnfolds
<1> DEFINE Found(m) == \A j \in i .. e - 1 : e - 1 - j <= m => u[<<j, depth(j - 1)>>] = e
           P == {m \in Nat : Found(m)}
<1>2. /\ i + 1 < e
      /\ b[i] = open /\ b[e - 1] = close
      /\ \A j \in i .. e - 2 : depth(j) > 0
      /\ depth(e - 1) = 0
  BY DEF IsNest, IsFrame, Balances
<1>3. ASSUME NEW j \in i .. e - 1
      PROVE  /\ depth(j - 1) \in Int
             /\ depth(j) = IF b[j] = open THEN depth(j - 1) + 1
                           ELSE IF b[j] = close THEN depth(j - 1) - 1 ELSE depth(j - 1)
  <2>1. j \in Nat /\ i <= j
    OBVIOUS
  <2> QED BY <2>1, DepthNext
<1>4. depth(i - 1) = 0
  BY DepthBefore
<1> HIDE DEF depth
<1>5. ASSUME NEW j \in i .. e - 1
      PROVE  /\ j = e - 1 => u[<<j, depth(j - 1)>>] = e
             /\ j # e - 1 => u[<<j, depth(j - 1)>>] = u[<<j + 1, depth(j)>>]
  <2> DEFINE s == <<j, depth(j - 1)>>
  <2>1. s \in Nat \X Int /\ s[1] = j /\ s[2] = depth(j - 1)
    BY <1>3
  <2>2. CountsAt(b, u, s, open, close)
    BY <1>1, <2>1
  <2>3. ~ (j > Len(b))
    OBVIOUS
  <2>4. u[s] = IF b[j] = open THEN u[<<j + 1, depth(j - 1) + 1>>]
               ELSE IF b[j] # close THEN u[<<j + 1, depth(j - 1)>>]
               ELSE IF depth(j - 1) = 1 THEN j + 1 ELSE u[<<j + 1, depth(j - 1) - 1>>]
    BY <2>1, <2>2, <2>3 DEF CountsAt
  <2>5. CASE j = e - 1
    <3>1. b[j] = close /\ b[j] # open /\ depth(j - 1) = 1
      BY <1>2, <1>3, <2>5
    <3> QED BY <2>4, <2>5, <3>1
  <2>6. CASE j # e - 1
    <3>1. depth(j) > 0
      BY <1>2, <2>6
    <3>2. b[j] = close => depth(j - 1) # 1
      BY <1>2, <1>3, <3>1
    <3> QED BY <1>3, <2>4, <2>6, <3>2
  <2> QED BY <2>5, <2>6
<1>6. 0 \in P
  <2>1. ASSUME NEW j \in i .. e - 1, e - 1 - j <= 0
        PROVE  u[<<j, depth(j - 1)>>] = e
    <3>1. j = e - 1
      BY <2>1
    <3> QED BY <1>5, <3>1
  <2> QED BY <2>1
<1>7. ASSUME NEW m \in Nat, m \in P
      PROVE  m + 1 \in P
  <2>1. ASSUME NEW j \in i .. e - 1, e - 1 - j <= m + 1
        PROVE  u[<<j, depth(j - 1)>>] = e
    <3>1. CASE j = e - 1
      BY <1>5, <3>1
    <3>2. CASE j # e - 1
      <4>1. j + 1 \in i .. e - 1 /\ e - 1 - (j + 1) <= m /\ (j + 1) - 1 = j
        BY <2>1, <3>2
      <4>2. u[<<j + 1, depth((j + 1) - 1)>>] = e
        BY <1>7, <4>1
      <4> QED BY <1>5, <3>2, <4>1, <4>2
    <3> QED BY <3>1, <3>2
  <2> QED BY <2>1
<1> HIDE DEF P
<1>8. e - 1 - i \in Nat
  BY <1>2
<1>9. e - 1 - i \in P
  BY <1>6, <1>7, <1>8, Induction
<1> QED BY <1>1, <1>2, <1>4, <1>8, <1>9 DEF P
(* The marks of JSON are no white space, and those that stop a literal are    *)
(* none of those a value begins with.                                        *)
Stops == {",", "}", "]"}

LEMMA MarksAreNotBlank ==
    /\ \A c \in Stops : c \notin WhiteSpace
    /\ \A c \in {"{", "[", QuoteMark} : c \notin WhiteSpace /\ c \notin Stops
    /\ ":" \notin WhiteSpace
<1>1. \A c \in Stops : c \notin WhiteSpace
  BY Zenon DEF Stops, WhiteSpace
<1>2. \A c \in {"{", "[", QuoteMark} : c \notin WhiteSpace
  BY Zenon DEF WhiteSpace, QuoteMark
<1>3. \A c \in {"{", "[", QuoteMark} : c \notin Stops
  BY Zenon DEF Stops, QuoteMark
<1>4. ":" \notin WhiteSpace
  BY Zenon DEF WhiteSpace
<1> QED BY Zenon, <1>1, <1>2, <1>3, <1>4

(* The words of JSON are made of these letters.                               *)
LEMMA WordLetters ==
    ASSUME NEW word \in {<<"t", "r", "u", "e">>, <<"f", "a", "l", "s", "e">>,
                          <<"n", "u", "l", "l">>}
    PROVE  /\ Len(word) \in Nat \ {0} /\ DOMAIN word = 1 .. Len(word)
           /\ \A k \in DOMAIN word :
                word[k] \in {"t", "r", "u", "e", "f", "a", "l", "s", "n"}
           /\ word[1] \in {"t", "f", "n"}
OBVIOUS

(* A literal has no white space, no mark, no bracket and no quote in it.      *)
LEMMA LiteralChars ==
    ASSUME NEW b, NEW i \in Nat, NEW e \in Nat, IsLiteral(b, i, e)
    PROVE  /\ i < e
           /\ b[i] \notin {"{", "[", QuoteMark}
           /\ \A k \in i .. e - 1 : /\ b[k] \notin Stops /\ b[k] \notin WhiteSpace
                                    /\ b[k] \notin {"{", "[", QuoteMark}
<1> DEFINE Plain == NumberChars \cup {"t", "r", "u", "e", "f", "a", "l", "s", "n"}
<1>1. \A c \in Plain : c \notin Stops /\ c \notin WhiteSpace /\ c \notin {"{", "[", QuoteMark}
  BY Zenon DEF NumberChars, Digits, Stops, WhiteSpace, QuoteMark
<1>2. i < e /\ \A k \in i .. e - 1 : b[k] \in Plain
  <2>1. CASE i < e /\ \A k \in i .. e - 1 : b[k] \in NumberChars
    BY Zenon, <2>1
  <2>2. ASSUME NEW word \in {<<"t", "r", "u", "e">>, <<"f", "a", "l", "s", "e">>,
                              <<"n", "u", "l", "l">>},
               IsWord(b, i, e, word)
        PROVE  i < e /\ \A k \in i .. e - 1 : b[k] \in Plain
    <3>1. /\ Len(word) \in Nat \ {0} /\ DOMAIN word = 1 .. Len(word)
          /\ \A k \in DOMAIN word : word[k] \in Plain
      BY Zenon, WordLetters
    <3>2. e = i + Len(word) /\ \A k \in DOMAIN word : b[i + k - 1] = word[k]
      BY Zenon, <2>2 DEF IsWord
    <3> HIDE DEF Plain
    <3>3. ASSUME NEW k \in i .. e - 1
          PROVE  b[k] \in Plain
      <4>1. (k - i) + 1 \in DOMAIN word /\ i + ((k - i) + 1) - 1 = k
        BY <3>1, <3>2
      <4> QED BY <3>1, <3>2, <4>1
    <3> QED BY <3>1, <3>2, <3>3
  <2> QED BY Zenon, <2>1, <2>2 DEF IsLiteral
<1> HIDE DEF Plain
<1>3. i \in i .. e - 1
  BY <1>2
<1> QED BY Zenon, <1>1, <1>2, <1>3

(* A value is not empty, begins with no white space and no stop.             *)
LEMMA SpanBegins ==
    ASSUME NEW b, NEW i \in Nat, NEW e \in Nat, NEW kind, IsSpan(b, i, e, kind)
    PROVE  i < e /\ b[i] \notin WhiteSpace /\ b[i] \notin Stops
<1>1. CASE IsFrame(b, i, e, "{", "}") \/ IsFrame(b, i, e, "[", "]") \/ IsString(b, i, e)
  <2>1. i + 1 < e /\ b[i] \in {"{", "[", QuoteMark}
    BY Zenon, <1>1 DEF IsFrame, IsString
  <2>2. b[i] \notin WhiteSpace /\ b[i] \notin Stops
    BY Zenon, <2>1, MarksAreNotBlank
  <2>3. i + 1 < e
    BY Zenon, <2>1
  <2>4. i < e
    BY <2>3
  <2> QED BY Zenon, <2>2, <2>4
<1>2. CASE IsLiteral(b, i, e)
  <2>1. i < e /\ \A k \in i .. e - 1 : b[k] \notin Stops /\ b[k] \notin WhiteSpace
    BY Zenon, <1>2, LiteralChars
  <2>2. i \in i .. e - 1
    BY <2>1
  <2> QED BY Zenon, <2>1, <2>2
<1> QED BY Zenon, <1>1, <1>2 DEF IsSpan

(* What looks like a value from outside is one, when its brackets balance.    *)
LEMMA BalancedIsValue ==
    ASSUME NEW b, NEW i, NEW e, NEW kind, IsSpan(b, i, e, kind), Balanced(b, i, e, kind)
    PROVE  IsValue(b, i, e, kind)
BY Zenon DEF IsSpan, Balanced, IsValue, IsNest

LEMMA ValueIsSpan ==
    ASSUME NEW b, NEW i, NEW e, NEW kind, IsValue(b, i, e, kind)
    PROVE  IsSpan(b, i, e, kind)
BY Zenon DEF IsSpan, IsValue, IsNest

LEMMA ValueBegins ==
    ASSUME NEW b, NEW i \in Nat, NEW e \in Nat, NEW kind, IsValue(b, i, e, kind)
    PROVE  i < e /\ b[i] \notin WhiteSpace /\ b[i] \notin Stops
BY Zenon, ValueIsSpan, SpanBegins

(* findValueEnd finds the end of a string and of a container.                *)
LEMMA FindValueEndFinds ==
    ASSUME NEW b, Len(b) \in Nat, NEW i \in Nat, NEW e \in Nat, NEW kind,
           IsValue(b, i, e, kind), kind # "literal", e <= Len(b) + 1
    PROVE  FindValueEnd(b, i) = e
<1>1. i <= Len(b)
  BY ValueBegins
<1>2. CASE kind = "object"
  <2>1. IsNest(b, i, e, "{", "}")
    BY Zenon, <1>2 DEF IsValue
  <2>2. b[i] = "{"
    BY Zenon, <2>1 DEF IsNest, IsFrame
  <2>3. "{" # "}"
    BY Zenon
  <2>4. BracketEnd(b, i, "{", "}") = e
    BY Zenon, <2>1, <2>3, BracketEndFinds
  <2>5. ~ (i > Len(b))
    BY <1>1
  <2> QED BY Zenon, <2>2, <2>4, <2>5 DEF FindValueEnd, QuoteMark
<1>3. CASE kind = "array"
  <2>1. IsNest(b, i, e, "[", "]")
    BY Zenon, <1>3 DEF IsValue
  <2>2. b[i] = "["
    BY Zenon, <2>1 DEF IsNest, IsFrame
  <2>3. "[" # "]"
    BY Zenon
  <2>4. BracketEnd(b, i, "[", "]") = e
    BY Zenon, <2>1, <2>3, BracketEndFinds
  <2>5. ~ (i > Len(b))
    BY <1>1
  <2> QED BY Zenon, <2>2, <2>4, <2>5 DEF FindValueEnd, QuoteMark
<1>4. CASE kind = "string"
  <2>1. IsString(b, i, e)
    BY Zenon, <1>4 DEF IsValue
  <2>2. b[i] = QuoteMark
    BY Zenon, <2>1 DEF IsString
  <2>3. StringEnd(b, i + 1) = e
    BY <2>1, StringEndFinds
  <2>4. ~ (i > Len(b))
    BY <1>1
  <2> QED BY Zenon, <2>2, <2>3, <2>4 DEF FindValueEnd, QuoteMark
<1> QED BY Zenon, <1>2, <1>3, <1>4 DEF IsValue

(* It takes a literal up to the mark behind it, with the white space between. *)
LEMMA FindLiteralEndFinds ==
    ASSUME NEW b, Len(b) \in Nat, NEW i \in Nat \ {0}, NEW e \in Nat, NEW z \in Nat,
           IsLiteral(b, i, e), Blank(b, e, z), z <= Len(b), b[z] \in Stops
    PROVE  FindValueEnd(b, i) = z
<1>1. /\ i < e /\ b[i] \notin {"{", "[", QuoteMark}
      /\ \A k \in i .. e - 1 : b[k] \notin Stops
  BY Zenon, LiteralChars
<1>2. \A k \in e .. z - 1 : b[k] \notin Stops
  BY Zenon, MarksAreNotBlank DEF Blank
<1>3. e <= z
  BY DEF Blank
<1>4. i < e
  BY Zenon, <1>1
<1>5. i <= z /\ ~ (i > Len(b)) /\ \A k \in i .. z - 1 : k \in i .. e - 1 \/ k \in e .. z - 1
  BY <1>3, <1>4
<1>6. \A k \in i .. z - 1 : b[k] \notin Stops
  BY Zenon, <1>1, <1>2, <1>5
<1>7. FirstOf(b, i, Stops) = z
  BY <1>5, <1>6, FirstOfFinds
<1>8. FindValueEnd(b, i) = FirstOf(b, i, Stops)
  BY Zenon, <1>1, <1>5 DEF FindValueEnd, Stops
<1> QED BY Zenon, <1>7, <1>8

(* skipWS tells the type of a value from its first character.                *)
LEMMA TypeAtFinds ==
    ASSUME NEW b, Len(b) \in Nat, NEW i \in Nat, NEW e \in Nat, NEW kind,
           IsValue(b, i, e, kind), e <= Len(b) + 1
    PROVE  TypeAt(b, i) = LetterOf(kind, b[i])
<1>1. i <= Len(b)
  BY ValueBegins
<1>2. ~ (i > Len(b))
  BY <1>1
<1>3. CASE kind = "object"
  <2>1. b[i] = "{"
    BY Zenon, <1>3 DEF IsValue, IsNest, IsFrame
  <2>2. TypeAt(b, i) = "o"
    BY Zenon, <1>2, <2>1 DEF TypeAt, QuoteMark
  <2>3. LetterOf("object", b[i]) = "o"
    BY Zenon DEF LetterOf
  <2> QED BY Zenon, <1>3, <2>2, <2>3
<1>4. CASE kind = "array"
  <2>1. b[i] = "["
    BY Zenon, <1>4 DEF IsValue, IsNest, IsFrame
  <2>2. TypeAt(b, i) = "a"
    BY Zenon, <1>2, <2>1 DEF TypeAt, QuoteMark
  <2>3. LetterOf("array", b[i]) = "a"
    BY Zenon DEF LetterOf
  <2> QED BY Zenon, <1>4, <2>2, <2>3
<1>5. CASE kind = "string"
  <2>1. b[i] = QuoteMark
    BY Zenon, <1>5 DEF IsValue, IsString
  <2>2. TypeAt(b, i) = "s"
    BY Zenon, <1>2, <2>1 DEF TypeAt, QuoteMark
  <2>3. LetterOf("string", b[i]) = "s"
    BY Zenon DEF LetterOf
  <2> QED BY Zenon, <1>5, <2>2, <2>3
<1>6. CASE kind = "literal"
  <2>1. b[i] \notin {"{", "[", QuoteMark}
    <3>1. IsLiteral(b, i, e)
      BY Zenon, <1>6 DEF IsValue
    <3> QED BY Zenon, <3>1, LiteralChars
  <2>2. LetterOf("literal", b[i]) =
          IF b[i] \in {"t", "f"} THEN "b" ELSE IF b[i] = "n" THEN "l" ELSE "n"
    BY Zenon DEF LetterOf
  <2>3. CASE b[i] \in {"t", "f"}
    <3>1. TypeAt(b, i) = "b"
      BY Zenon, <1>2, <2>1, <2>3 DEF TypeAt, QuoteMark
    <3> QED BY Zenon, <1>6, <2>2, <2>3, <3>1
  <2>4. CASE b[i] = "n"
    <3>1. b[i] \notin {"t", "f"}
      BY Zenon, <2>4
    <3>2. TypeAt(b, i) = "l"
      BY Zenon, <1>2, <2>1, <2>4 DEF TypeAt, QuoteMark
    <3> QED BY Zenon, <1>6, <2>2, <2>4, <3>1, <3>2
  <2>5. CASE b[i] \notin {"t", "f"} /\ b[i] # "n"
    <3>1. TypeAt(b, i) = "n"
      BY Zenon, <1>2, <2>1, <2>5 DEF TypeAt, QuoteMark
    <3> QED BY Zenon, <1>6, <2>2, <2>5, <3>1
  <2> QED BY Zenon, <2>3, <2>4, <2>5
<1> QED BY Zenon, <1>3, <1>4, <1>5, <1>6 DEF IsValue
-----------------------------------------------------------------------------
(* The items of a container d, which lies in its text from c up to e.        *)

Closing(kind) == IF kind = "array" THEN "]" ELSE "}"

(* A loop over the container n that stands at q has item k before it, or,     *)
(* behind the last item, only white space and the closing bracket.           *)
StandsBefore(d, c, e, k, q) ==
    /\ q \in c + 1 .. e - 1
    /\ k \in 1 .. Len(d.items) => q <= d.items[k].start /\ LeadsTo(d.text, q, d.items[k], d.kind)
    /\ k = Len(d.items) + 1 => Blank(d.text, q, e - 1)

(* Behind item k, at z, is the comma before the next, or the end of d.       *)
EndsAt(d, c, e, k, z) ==
    /\ z \in d.items[k].end .. d.items[k].end + d.blanks /\ z <= e - 1
    /\ Blank(d.text, d.items[k].end, z) /\ d.text[z] \in Stops
    /\ IF k = Len(d.items) THEN z = e - 1
       ELSE d.text[z] = "," /\ StandsBefore(d, c, e, k + 1, z + 1)

(* The container is inside the text, and has its closing bracket.            *)
LEMMA FrameInText ==
    ASSUME NEW d, d.text \in Seq(STRING), NEW c, NEW e, Encloses(d, c, e)
    PROVE  /\ Len(d.text) \in Nat /\ Len(d.items) \in Nat /\ d.blanks \in Nat
           /\ c \in Nat \ {0} /\ e \in Nat /\ c + 1 <= e - 1 /\ e <= Len(d.text) + 1
           /\ d.kind \in {"array", "object"}
           /\ IsSpan(d.text, c, e, d.kind)
           /\ d.text[e - 1] = Closing(d.kind)
<1>1. /\ Len(d.items) \in Nat /\ d.blanks \in Nat
      /\ c \in 1 .. Len(d.text) /\ e \in 1 .. Len(d.text) + 1
      /\ d.kind \in {"array", "object"}
      /\ IsSpan(d.text, c, e, d.kind)
  BY DEF Encloses
<1>2. Len(d.text) \in Nat
  OBVIOUS
<1>3. c + 1 < e /\ d.text[e - 1] = Closing(d.kind)
  <2>1. CASE d.kind = "array"
    <3>1. d.kind # "object" /\ d.kind # "string" /\ d.kind # "literal"
      BY Zenon, <2>1
    <3> QED BY Zenon, <1>1, <2>1, <3>1 DEF IsSpan, IsFrame, Closing
  <2>2. CASE d.kind = "object"
    <3>1. d.kind # "array" /\ d.kind # "string" /\ d.kind # "literal"
      BY Zenon, <2>2
    <3> QED BY Zenon, <1>1, <2>2, <3>1 DEF IsSpan, IsFrame, Closing
  <2> QED BY Zenon, <1>1, <2>1, <2>2
<1>4. c \in Nat \ {0} /\ e \in Nat /\ e <= Len(d.text) + 1
  BY <1>1, <1>2
<1>5. c + 1 <= e - 1
  BY <1>3, <1>4
<1> QED BY Zenon, <1>1, <1>2, <1>3, <1>4, <1>5

LEMMA ContainerInText ==
    ASSUME NEW d, d.text \in Seq(STRING), NEW c, NEW e, Holds(d, c, e)
    PROVE  /\ Len(d.text) \in Nat /\ Len(d.items) \in Nat /\ d.blanks \in Nat
           /\ c \in Nat \ {0} /\ e \in Nat /\ c + 1 <= e - 1 /\ e <= Len(d.text) + 1
           /\ d.kind \in {"array", "object"}
           /\ IsValue(d.text, c, e, d.kind)
           /\ d.text[e - 1] = Closing(d.kind)
BY Zenon, FrameInText, BalancedIsValue DEF Holds

(* A closing bracket stops literals, and is no white space and no comma.     *)
LEMMA ClosingStops ==
    ASSUME NEW kind
    PROVE  /\ Closing(kind) \in Stops
           /\ Closing(kind) \notin WhiteSpace
           /\ Closing(kind) # ","
           /\ Closing(kind) # QuoteMark
<1>1. Closing(kind) \in {"]", "}"}
  BY Zenon DEF Closing
<1>2. Closing(kind) \in Stops
  BY Zenon, <1>1 DEF Stops
<1>3. Closing(kind) # "," /\ Closing(kind) # QuoteMark
  BY Zenon, <1>1 DEF QuoteMark
<1> QED BY Zenon, <1>2, <1>3, MarksAreNotBlank

(* Each item is a value inside the container.                                *)
LEMMA ItemInFrame ==
    ASSUME NEW d, d.text \in Seq(STRING), NEW c, NEW e, Encloses(d, c, e),
           NEW k \in 1 .. Len(d.items)
    PROVE  /\ d.items[k].key \in Seq(STRING)
           /\ d.items[k].start \in Nat \ {0} /\ d.items[k].end \in Nat
           /\ c + 1 <= d.items[k].start /\ d.items[k].start < d.items[k].end
           /\ d.items[k].end <= e - 1
           /\ IsSpan(d.text, d.items[k].start, d.items[k].end, d.items[k].kind)
           /\ d.items[k].typ = LetterOf(d.items[k].kind, d.text[d.items[k].start])
<1>1. ItemInPlace(d, c, e, k)
  BY Zenon DEF Encloses
<1>2. /\ d.items[k].key \in Seq(STRING)
      /\ d.items[k].start \in c + 1 .. e - 1 /\ d.items[k].end \in c + 1 .. e - 1
      /\ IsSpan(d.text, d.items[k].start, d.items[k].end, d.items[k].kind)
      /\ d.items[k].typ = LetterOf(d.items[k].kind, d.text[d.items[k].start])
  BY Zenon, <1>1 DEF ItemInPlace
<1>3. /\ d.items[k].start \in Nat \ {0} /\ d.items[k].end \in Nat
      /\ c + 1 <= d.items[k].start /\ d.items[k].end <= e - 1
  BY <1>2, FrameInText
<1>4. d.items[k].start < d.items[k].end
  BY Zenon, <1>2, <1>3, SpanBegins
<1> QED BY Zenon, <1>2, <1>3, <1>4

LEMMA ItemInText ==
    ASSUME NEW d, d.text \in Seq(STRING), NEW c, NEW e, Holds(d, c, e),
           NEW k \in 1 .. Len(d.items)
    PROVE  /\ d.items[k].key \in Seq(STRING)
           /\ d.items[k].start \in Nat \ {0} /\ d.items[k].end \in Nat
           /\ c + 1 <= d.items[k].start /\ d.items[k].start < d.items[k].end
           /\ d.items[k].end <= e - 1
           /\ IsValue(d.text, d.items[k].start, d.items[k].end, d.items[k].kind)
           /\ d.items[k].typ = LetterOf(d.items[k].kind, d.text[d.items[k].start])
BY Zenon, ItemInFrame, BalancedIsValue DEF Holds

(* What leads to item k: the opening bracket, or the comma behind the item    *)
(* before.                                                                   *)
LEMMA LedTo ==
    ASSUME NEW d, d.text \in Seq(STRING), NEW c, NEW e, Encloses(d, c, e),
           NEW k \in 1 .. Len(d.items)
    PROVE  \E q \in c + 1 .. d.items[k].start :
             /\ LeadsTo(d.text, q, d.items[k], d.kind)
             /\ k = 1 => q = c + 1
             /\ k # 1 => /\ Blank(d.text, d.items[k - 1].end, q - 1)
                         /\ d.text[q - 1] = ","
                         /\ q - 1 <= d.items[k - 1].end + d.blanks
<1>1. ItemInPlace(d, c, e, k)
  BY Zenon DEF Encloses
<1> QED BY Zenon, <1>1 DEF ItemInPlace

(* A loop begins before the first item.                                      *)
LEMMA StandsBeforeFirst ==
    ASSUME NEW d, d.text \in Seq(STRING), NEW c, NEW e, Encloses(d, c, e)
    PROVE  StandsBefore(d, c, e, 1, c + 1)
<1>1. c + 1 \in c + 1 .. e - 1 /\ Len(d.items) \in Nat
  BY FrameInText
<1>2. ASSUME 1 \in 1 .. Len(d.items)
      PROVE  /\ c + 1 <= d.items[1].start
             /\ LeadsTo(d.text, c + 1, d.items[1], d.kind)
  BY <1>2, ItemInFrame, LedTo
<1>3. ASSUME 1 = Len(d.items) + 1
      PROVE  Blank(d.text, c + 1, e - 1)
  <2>1. Len(d.items) = 0
    BY <1>1, <1>3
  <2> QED BY Zenon, <2>1 DEF Encloses
<1> QED BY <1>1, <1>2, <1>3 DEF StandsBefore

(* Each item ends at a comma, or at the end of the container.                *)
LEMMA ItemEnds ==
    ASSUME NEW d, d.text \in Seq(STRING), NEW c, NEW e, Encloses(d, c, e),
           NEW k \in 1 .. Len(d.items)
    PROVE  \E z : EndsAt(d, c, e, k, z)
<1>1. /\ d.items[k].end \in Nat /\ d.items[k].end <= e - 1
      /\ c \in Nat /\ e \in Nat /\ Len(d.items) \in Nat /\ d.blanks \in Nat
      /\ c + 1 <= d.items[k].end
  <2>1. /\ c \in Nat /\ e \in Nat /\ Len(d.items) \in Nat /\ d.blanks \in Nat
    BY Zenon, FrameInText
  <2>2. /\ d.items[k].start \in Nat /\ d.items[k].end \in Nat
        /\ c + 1 <= d.items[k].start /\ d.items[k].start < d.items[k].end
        /\ d.items[k].end <= e - 1
    BY ItemInFrame
  <2> QED BY <2>1, <2>2
<1>2. CASE k = Len(d.items)
  <2>1. Len(d.items) # 0
    BY <1>2
  <2>2. Blank(d.text, d.items[k].end, e - 1) /\ e - 1 <= d.items[k].end + d.blanks
    BY Zenon, <1>2, <2>1 DEF Encloses
  <2>3. e - 1 \in d.items[k].end .. d.items[k].end + d.blanks /\ e - 1 <= e - 1
    BY <1>1, <2>2
  <2>4. d.text[e - 1] \in Stops
    BY Zenon, FrameInText, ClosingStops
  <2>5. EndsAt(d, c, e, k, e - 1)
    BY Zenon, <1>2, <2>2, <2>3, <2>4 DEF EndsAt
  <2> QED BY Zenon, <2>5
<1>3. CASE k # Len(d.items)
  <2>1. k + 1 \in 1 .. Len(d.items) /\ k + 1 # 1 /\ (k + 1) - 1 = k
    BY <1>1, <1>3
  <2>2. PICK q \in c + 1 .. d.items[k + 1].start :
             /\ LeadsTo(d.text, q, d.items[k + 1], d.kind)
             /\ k + 1 # 1 => /\ Blank(d.text, d.items[(k + 1) - 1].end, q - 1)
                             /\ d.text[q - 1] = ","
                             /\ q - 1 <= d.items[(k + 1) - 1].end + d.blanks
    BY Zenon, <2>1, LedTo
  <2>3. /\ Blank(d.text, d.items[k].end, q - 1)
        /\ d.text[q - 1] = ","
        /\ q - 1 <= d.items[k].end + d.blanks
    BY Zenon, <2>1, <2>2
  <2>4. d.items[k].end <= q - 1
    BY Zenon, <2>3 DEF Blank
  <2>5. d.items[k + 1].start \in Nat /\ d.items[k + 1].start <= e - 1
    <3>1. /\ d.items[k + 1].start \in Nat /\ d.items[k + 1].end \in Nat
          /\ d.items[k + 1].start < d.items[k + 1].end /\ d.items[k + 1].end <= e - 1
      BY <2>1, ItemInFrame
    <3> QED BY <1>1, <3>1
  <2>6. /\ q \in c + 1 .. e - 1 /\ q <= d.items[k + 1].start
        /\ q - 1 \in d.items[k].end .. d.items[k].end + d.blanks /\ q - 1 <= e - 1
        /\ (q - 1) + 1 = q
        /\ k + 1 # Len(d.items) + 1
    <3> DEFINE start == d.items[k + 1].start
               end == d.items[k].end
               n == Len(d.items)
    <3>1. q \in c + 1 .. start /\ start \in Nat /\ start <= e - 1
      BY <2>5
    <3>2. end \in Nat /\ end <= q - 1 /\ q - 1 <= end + d.blanks
      BY Zenon, <1>1, <2>3, <2>4
    <3>3. c \in Nat /\ e \in Nat /\ d.blanks \in Nat /\ n \in Nat /\ k \in 1 .. n /\ k # n
      BY Zenon, <1>1, <1>3
    <3> HIDE DEF start, end, n
    <3>4. /\ q \in c + 1 .. e - 1 /\ q <= start
          /\ q - 1 \in end .. end + d.blanks /\ q - 1 <= e - 1
          /\ (q - 1) + 1 = q
      BY <3>1, <3>2, <3>3
    <3>5. k + 1 # n + 1
      BY <3>3
    <3> QED BY Zenon, <3>4, <3>5 DEF start, end, n
  <2>7. StandsBefore(d, c, e, k + 1, (q - 1) + 1)
    BY Zenon, <2>1, <2>2, <2>6 DEF StandsBefore
  <2>8. d.text[q - 1] \in Stops
    BY Zenon, <2>3 DEF Stops
  <2>9. EndsAt(d, c, e, k, q - 1)
    BY Zenon, <1>3, <2>3, <2>6, <2>7, <2>8 DEF EndsAt
  <2> QED BY Zenon, <2>9
<1> QED BY Zenon, <1>2, <1>3

(* The node read from before item k is that item: its start and type are      *)
(* right, and so is its end, but that of a literal takes the white space in.  *)
LEMMA NodeAtItem ==
    ASSUME NEW d, d.text \in Seq(STRING), NEW c, NEW e, Holds(d, c, e),
           NEW k \in 1 .. Len(d.items),
           NEW s \in Nat \ {0}, Blank(d.text, s, d.items[k].start)
    PROVE  /\ NodeAt(d.text, s).raw = d.text
           /\ NodeAt(d.text, s).start = d.items[k].start
           /\ NodeAt(d.text, s).typ = d.items[k].typ
           /\ \E z : /\ EndsAt(d, c, e, k, z)
                     /\ \/ NodeAt(d.text, s).end = d.items[k].end
                        \/ /\ d.items[k].kind = "literal"
                           /\ NodeAt(d.text, s).end = z
<1> DEFINE b == d.text
           from == d.items[k].start
           to == d.items[k].end
           kind == d.items[k].kind
<1>1. /\ Len(b) \in Nat /\ e \in Nat /\ e <= Len(b) + 1
  BY ContainerInText
<1>2. /\ from \in Nat \ {0} /\ to \in Nat /\ from < to /\ to <= e - 1
      /\ IsValue(b, from, to, kind)
      /\ d.items[k].typ = LetterOf(kind, b[from])
  BY Zenon, ItemInText
<1>3. PICK z : EndsAt(d, c, e, k, z)
  BY Zenon, ItemEnds DEF Holds
<1>4. Blank(b, s, from)
  OBVIOUS
<1>5. /\ z \in to .. to + d.blanks /\ z <= e - 1
      /\ Blank(b, to, z) /\ b[z] \in Stops
  BY Zenon, <1>3 DEF EndsAt
<1> HIDE DEF b, from, to, kind
<1>6. from <= Len(b) /\ to <= Len(b) + 1 /\ z \in Nat /\ z <= Len(b)
  <2>1. z \in Int /\ to <= z
    BY <1>2, <1>5, ContainerInText
  <2> QED BY <1>1, <1>2, <1>5, <2>1
<1>7. b[from] \notin WhiteSpace
  BY <1>2, ValueBegins
<1>8. SkipSpaces(b, s) = from
  BY <1>1, <1>2, <1>4, <1>6, <1>7, SkipSpacesFinds
<1>9. TypeAt(b, from) = LetterOf(kind, b[from])
  BY <1>1, <1>2, <1>6, TypeAtFinds
<1>10. from \in Nat /\ to \in Nat /\ IsValue(b, from, to, kind)
  BY <1>2
<1>11. \/ FindValueEnd(b, from) = to
       \/ kind = "literal" /\ FindValueEnd(b, from) = z
  <2>1. CASE kind # "literal"
    <3>1. FindValueEnd(b, from) = to
      BY Zenon, <1>1, <1>6, <1>10, <2>1, FindValueEndFinds
    <3> QED BY <3>1
  <2>2. CASE kind = "literal"
    <3>1. IsLiteral(b, from, to)
      BY Zenon, <1>2, <2>2 DEF IsValue
    <3>2. FindValueEnd(b, from) = z
      BY <1>1, <1>2, <1>5, <1>6, <3>1, FindLiteralEndFinds
    <3> QED BY <2>2, <3>2
  <2> QED BY <2>1, <2>2
<1>12. NodeAt(b, s) = [raw |-> b, start |-> from, end |-> FindValueEnd(b, from),
                       typ |-> TypeAt(b, from)]
  BY Zenon, <1>8 DEF NodeAt
<1>13. /\ NodeAt(b, s).raw = b /\ NodeAt(b, s).start = from
       /\ NodeAt(b, s).end = FindValueEnd(b, from) /\ NodeAt(b, s).typ = TypeAt(b, from)
  BY <1>12
<1> QED BY Zenon, <1>2, <1>3, <1>9, <1>11, <1>13 DEF b, from, to, kind

(* The loop goes on before the next item.                                    *)
LEMMA AfterItem ==
    ASSUME NEW d, d.text \in Seq(STRING), NEW c, NEW e, Holds(d, c, e),
           NEW k \in 1 .. Len(d.items),
           NEW n, n.raw = d.text, n.end = e,
           NEW v, NEW z, EndsAt(d, c, e, k, z), v.end \in {d.items[k].end, z}
    PROVE  StandsBefore(d, c, e, k + 1, After(n, v))
<1> DEFINE b == d.text
           to == d.items[k].end
<1>1. /\ Len(b) \in Nat /\ e \in Nat /\ e <= Len(b) + 1 /\ c \in Nat /\ c + 1 <= e - 1
      /\ Len(d.items) \in Nat /\ b[e - 1] = Closing(d.kind) /\ d.blanks \in Nat
  BY Zenon, ContainerInText
<1>2. to \in Nat \ {0}
  <2>1. /\ d.items[k].start \in Nat \ {0} /\ to \in Nat /\ d.items[k].start < to
    BY Zenon, ItemInText
  <2> QED BY <2>1
<1>3. /\ z \in to .. to + d.blanks /\ z <= e - 1
      /\ Blank(b, to, z) /\ b[z] \in Stops
      /\ IF k = Len(d.items) THEN z = e - 1
         ELSE b[z] = "," /\ StandsBefore(d, c, e, k + 1, z + 1)
  BY Zenon DEF EndsAt
<1>4. v.end = to \/ v.end = z
  OBVIOUS
<1>5. n.raw = b /\ n.end = e
  OBVIOUS
<1> HIDE DEF b, to
<1>6. z \in Nat \ {0} /\ to <= z /\ z <= Len(b) /\ z < e
  <2>1. z \in to .. to + d.blanks /\ z <= e - 1
    BY Zenon, <1>3
  <2> QED BY <1>1, <1>2, <2>1
<1>7. b[z] \notin WhiteSpace
  BY Zenon, <1>3, MarksAreNotBlank
<1>8. Blank(b, z, z)
  BY <1>6 DEF Blank
<1>9. SkipSpaces(b, v.end) = z
  <2>1. SkipSpaces(b, to) = z
    BY <1>1, <1>2, <1>3, <1>6, <1>7, SkipSpacesFinds
  <2>2. SkipSpaces(b, z) = z
    BY <1>1, <1>6, <1>7, <1>8, SkipSpacesFinds
  <2> QED BY <1>4, <2>1, <2>2
<1>10. After(n, v) = IF z < e /\ b[z] = "," THEN z + 1 ELSE z
  BY Zenon, <1>5, <1>9 DEF After
<1>11. CASE k = Len(d.items)
  <2>1. z = e - 1
    BY Zenon, <1>3, <1>11
  <2>2. b[z] # ","
    BY Zenon, <1>1, <2>1, ClosingStops
  <2>3. After(n, v) = e - 1
    BY Zenon, <1>10, <2>1, <2>2
  <2>4. Blank(d.text, e - 1, e - 1)
    BY <1>8, <2>1 DEF b
  <2>5. e - 1 \in c + 1 .. e - 1 /\ k + 1 \notin 1 .. Len(d.items)
    BY <1>1, <1>11
  <2> QED BY Zenon, <2>3, <2>4, <2>5 DEF StandsBefore
<1>12. CASE k # Len(d.items)
  BY Zenon, <1>3, <1>6, <1>10, <1>12
<1> QED BY Zenon, <1>11, <1>12

(* ForEachArray goes on exactly before an element, and begins to read it.     *)
LEMMA ElementThere ==
    ASSUME NEW d, d.text \in Seq(STRING), NEW c, NEW e, Holds(d, c, e), d.kind = "array",
           NEW k \in 1 .. Len(d.items) + 1, NEW q, StandsBefore(d, c, e, k, q),
           NEW n, n.raw = d.text, n.end = e
    PROVE  /\ HasElement(n, q) <=> k # Len(d.items) + 1
           /\ k # Len(d.items) + 1 => /\ d.items[k].key = <<>>
                                      /\ q \in Nat \ {0} /\ Blank(d.text, q, d.items[k].start)
<1> DEFINE b == d.text
           count == Len(d.items)
<1>1. /\ Len(b) \in Nat /\ e \in Nat /\ e <= Len(b) + 1 /\ c \in Nat /\ c + 1 <= e - 1
      /\ count \in Nat /\ b[e - 1] = Closing(d.kind)
  BY Zenon, ContainerInText
<1>2. /\ q \in c + 1 .. e - 1
      /\ k \in 1 .. count => q <= d.items[k].start /\ LeadsTo(b, q, d.items[k], d.kind)
      /\ k = count + 1 => Blank(b, q, e - 1)
  BY Zenon DEF StandsBefore
<1>3. q \in Nat \ {0} /\ q < e
  BY <1>1, <1>2
<1>4. HasElement(n, q) <=> /\ q < e
                           /\ SkipSpaces(b, q) < e
                           /\ b[SkipSpaces(b, q)] # "]"
  BY Zenon DEF HasElement
<1>5. CASE k = count + 1
  <2>1. b[e - 1] = "]"
    BY Zenon, <1>1 DEF Closing
  <2>2. b[e - 1] \notin WhiteSpace
    BY Zenon, <1>1, ClosingStops
  <2>3. e - 1 \in Nat /\ e - 1 <= Len(b)
    BY <1>1
  <2>4. SkipSpaces(b, q) = e - 1
    <3>1. Blank(b, q, e - 1)
      BY Zenon, <1>2, <1>5
    <3> HIDE DEF b
    <3> QED BY <1>1, <1>3, <2>2, <2>3, <3>1, SkipSpacesFinds
  <2> QED BY Zenon, <1>4, <1>5, <2>1, <2>4
<1>6. CASE k # count + 1
  <2>1. k \in 1 .. count
    BY <1>1, <1>6
  <2>2. d.items[k].key = <<>> /\ Blank(b, q, d.items[k].start)
    <3>1. d.kind # "object"
      BY Zenon
    <3> QED BY Zenon, <1>2, <2>1, <3>1 DEF LeadsTo
  <2>3. /\ d.items[k].start \in Nat \ {0} /\ d.items[k].end \in Nat
        /\ d.items[k].start < d.items[k].end /\ d.items[k].end <= e - 1
        /\ IsValue(b, d.items[k].start, d.items[k].end, d.items[k].kind)
    BY Zenon, <2>1, ItemInText
  <2>4. b[d.items[k].start] \notin WhiteSpace /\ b[d.items[k].start] \notin Stops
    BY <2>3, ValueBegins
  <2>5. d.items[k].start < e /\ d.items[k].start <= Len(b)
    BY <1>1, <2>3
  <2>6. SkipSpaces(b, q) = d.items[k].start
    BY <1>1, <1>3, <2>2, <2>3, <2>4, <2>5, SkipSpacesFinds
  <2>7. b[d.items[k].start] # "]"
    BY Zenon, <2>4 DEF Stops
  <2> QED BY Zenon, <1>3, <1>4, <1>6, <2>2, <2>5, <2>6, <2>7
<1> QED BY Zenon, <1>5, <1>6

(* ForEachObject, and the scans for a key, go on exactly before a member, take *)
(* its key and read its value from behind the colon.                         *)
LEMMA MemberThere ==
    ASSUME NEW d, d.text \in Seq(STRING), NEW c, NEW e, Holds(d, c, e), d.kind = "object",
           NEW k \in 1 .. Len(d.items) + 1, NEW q, StandsBefore(d, c, e, k, q),
           NEW n, n.raw = d.text, n.end = e
    PROVE  /\ HasMember(n, q) <=> k # Len(d.items) + 1
           /\ k # Len(d.items) + 1 =>
                /\ MemberKey(n, q) = d.items[k].key
                /\ Colon(n, q) + 1 \in Nat \ {0}
                /\ Blank(d.text, Colon(n, q) + 1, d.items[k].start)
<1> DEFINE b == d.text
           count == Len(d.items)
<1>1. /\ Len(b) \in Nat /\ e \in Nat /\ e <= Len(b) + 1 /\ c \in Nat /\ c + 1 <= e - 1
      /\ count \in Nat /\ b[e - 1] = Closing(d.kind)
  BY Zenon, ContainerInText
<1>2. /\ q \in c + 1 .. e - 1
      /\ k \in 1 .. count => q <= d.items[k].start /\ LeadsTo(b, q, d.items[k], d.kind)
      /\ k = count + 1 => Blank(b, q, e - 1)
  BY Zenon DEF StandsBefore
<1>3. q \in Nat \ {0} /\ q < e
  BY <1>1, <1>2
<1>4. HasMember(n, q) <=> /\ q < e
                          /\ SkipSpaces(b, q) < e
                          /\ b[SkipSpaces(b, q)] = QuoteMark
                          /\ Colon(n, q) < e
                          /\ b[Colon(n, q)] = ":"
  BY Zenon DEF HasMember
<1>5. CASE k = count + 1
  <2>1. b[e - 1] \notin WhiteSpace /\ b[e - 1] # QuoteMark
    BY Zenon, <1>1, ClosingStops
  <2>2. e - 1 \in Nat /\ e - 1 <= Len(b)
    BY <1>1
  <2>3. SkipSpaces(b, q) = e - 1
    <3>1. Blank(b, q, e - 1)
      BY Zenon, <1>2, <1>5
    <3> HIDE DEF b
    <3> QED BY <1>1, <1>3, <2>1, <2>2, <3>1, SkipSpacesFinds
  <2> QED BY Zenon, <1>4, <1>5, <2>1, <2>3
<1>6. CASE k # count + 1
  <2> DEFINE key == d.items[k].key
             from == d.items[k].start
  <2>1. k \in 1 .. count
    BY <1>1, <1>6
  <2>2. /\ key \in Seq(STRING) /\ from \in Nat \ {0} /\ d.items[k].end \in Nat
        /\ from < d.items[k].end /\ d.items[k].end <= e - 1
    BY Zenon, <2>1, ItemInText
  <2>3. from < e /\ from <= Len(b)
    BY <1>1, <2>2
  <2>4. PICK s \in q .. from, m \in q .. from :
          LET f == s + Len(key) + 2
          IN  /\ Blank(b, q, s) /\ IsString(b, s, f)
              /\ SubSeq(b, s + 1, f - 2) = key
              /\ Blank(b, f, m) /\ b[m] = ":"
              /\ Blank(b, m + 1, from)
    <3>1. d.kind # "array"
      BY Zenon
    <3> QED BY Zenon, <1>2, <2>1, <3>1 DEF LeadsTo
  <2> DEFINE f == s + Len(key) + 2
  <2>5. /\ Blank(b, q, s) /\ IsString(b, s, f)
        /\ SubSeq(b, s + 1, f - 2) = key
        /\ Blank(b, f, m) /\ b[m] = ":"
        /\ Blank(b, m + 1, from)
    BY Zenon, <2>4
  <2>6. Len(key) \in Nat
    BY <2>2
  <2> HIDE DEF b, key, from
  <2>7. s \in Nat /\ m \in Nat /\ f \in Nat /\ s <= from /\ m <= from /\ s >= 1
    BY <1>3, <2>2, <2>6
  <2> HIDE DEF f
  <2>8. f <= m
    BY Zenon, <2>5 DEF Blank
  <2>9. f <= Len(b) + 1 /\ f <= n.end /\ s <= Len(b) /\ m <= Len(b) /\ s < e /\ m < e /\ f # 0
    <3>1. s + 1 < f
      BY Zenon, <2>5 DEF IsString
    <3>2. Len(b) \in Nat /\ e \in Nat /\ e <= Len(b) + 1
      BY Zenon, <1>1
    <3>3. n.end = e
      OBVIOUS
    <3>4. from \in Nat
      BY <2>2
    <3> QED BY <2>3, <2>7, <2>8, <3>1, <3>2, <3>3, <3>4
  <2>10. b[s] = QuoteMark
    BY Zenon, <2>5 DEF IsString
  <2>11. b[s] \notin WhiteSpace /\ b[m] \notin WhiteSpace
    BY Zenon, <2>5, <2>10, MarksAreNotBlank
  <2>12. SkipSpaces(b, q) = s
    BY <1>1, <1>3, <2>5, <2>7, <2>9, <2>11, SkipSpacesFinds
  <2>13. n.raw = b /\ n.end \in Nat
    BY <1>1 DEF b
  <2>14. KeyStart(n, q) = s + 1
    BY Zenon, <2>12, <2>13 DEF KeyStart
  <2>15. KeyEnd(n, s + 1) = f - 1
    BY <1>1, <2>5, <2>7, <2>9, <2>13, KeyEndFinds
  <2>16. SkipSpaces(b, f) = m
    <3>1. f \in Nat \ {0}
      BY <2>7, <2>9
    <3> QED BY <1>1, <2>5, <2>7, <2>9, <2>11, <3>1, SkipSpacesFinds
  <2>17. (f - 1) + 1 = f /\ (f - 1) - 1 = f - 2
    BY <2>7
  <2>18. Colon(n, q) = m
    BY Zenon, <2>13, <2>14, <2>15, <2>16, <2>17 DEF Colon
  <2>19. MemberKey(n, q) = key
    BY Zenon, <2>5, <2>13, <2>14, <2>15, <2>17 DEF MemberKey
  <2>20. HasMember(n, q)
    BY Zenon, <1>3, <1>4, <2>5, <2>9, <2>10, <2>12, <2>18 DEF b
  <2>21. Colon(n, q) + 1 \in Nat \ {0}
    BY <2>7, <2>18
  <2>22. Blank(d.text, Colon(n, q) + 1, d.items[k].start)
    BY Zenon, <2>5, <2>18 DEF b, from
  <2> QED BY Zenon, <1>6, <2>19, <2>20, <2>21, <2>22 DEF key
<1> QED BY Zenon, <1>5, <1>6

(* FromBytes finds the container of a document.                              *)
LEMMA ContainerFound ==
    ASSUME NEW d, d.text \in Seq(STRING), NEW c, NEW e, Holds(d, c, e),
           Blank(d.text, 1, c)
    PROVE  FromBytes(d.text) = [raw |-> d.text, start |-> c, end |-> e,
                                typ |-> IF d.kind = "array" THEN "a" ELSE "o"]
<1> DEFINE b == d.text
<1>1. /\ Len(b) \in Nat /\ c \in Nat \ {0} /\ e \in Nat /\ c + 1 <= e - 1 /\ e <= Len(b) + 1
      /\ d.kind \in {"array", "object"} /\ IsValue(b, c, e, d.kind)
  BY Zenon, ContainerInText
<1>2. Blank(b, 1, c)
  OBVIOUS
<1> HIDE DEF b
<1>3. c \in Nat /\ c <= Len(b) /\ ~ (c > Len(b)) /\ d.kind # "literal"
  BY <1>1
<1>4. b[c] \notin WhiteSpace
  BY Zenon, <1>1, <1>3, ValueBegins
<1>5. SkipSpaces(b, 1) = c
  BY <1>1, <1>2, <1>3, <1>4, SkipSpacesFinds
<1>6. FindValueEnd(b, c) = e
  BY Zenon, <1>1, <1>3, FindValueEndFinds
<1>7. TypeAt(b, c) = LetterOf(d.kind, b[c])
  BY Zenon, <1>1, <1>3, TypeAtFinds
<1>8. LetterOf(d.kind, b[c]) = IF d.kind = "array" THEN "a" ELSE "o"
  BY Zenon, <1>1 DEF LetterOf
<1> QED BY Zenon, <1>3, <1>5, <1>6, <1>7, <1>8 DEF FromBytes, NodeAt, b

(* v is the node of item k of d: it has the text of the item, and at most the *)
(* white space behind a literal.                                             *)
LandsOn(v, d, k) ==
    LET item == d.items[k]
    IN  /\ v = [raw |-> d.text, start |-> item.start, end |-> v.end, typ |-> item.typ]
        /\ v.end \in item.end .. item.end + (IF item.kind = "literal" THEN d.blanks ELSE 0)
        /\ Blank(d.text, item.end, v.end) /\ v.end <= Len(d.text)

(* A node read from before an item lands on it, and the loop goes on before   *)
(* the next one.                                                             *)
LEMMA ItemRead ==
    ASSUME NEW d, d.text \in Seq(STRING), NEW c, NEW e, Holds(d, c, e),
           NEW k \in 1 .. Len(d.items),
           NEW s \in Nat \ {0}, Blank(d.text, s, d.items[k].start),
           NEW n, n.raw = d.text, n.end = e
    PROVE  /\ LandsOn(NodeAt(d.text, s), d, k)
           /\ StandsBefore(d, c, e, k + 1, After(n, NodeAt(d.text, s)))
<1> DEFINE v == NodeAt(d.text, s)
           to == d.items[k].end
           kind == d.items[k].kind
<1>1. /\ v.raw = d.text /\ v.start = d.items[k].start /\ v.typ = d.items[k].typ
      /\ \E z : EndsAt(d, c, e, k, z) /\ (v.end = to \/ (kind = "literal" /\ v.end = z))
  BY Zenon, NodeAtItem
<1> HIDE DEF v
<1>2. PICK z : EndsAt(d, c, e, k, z) /\ (v.end = to \/ (kind = "literal" /\ v.end = z))
  BY Zenon, <1>1
<1>3. v.end \in {to, z}
  BY Zenon, <1>2
<1>4. StandsBefore(d, c, e, k + 1, After(n, v))
  BY Zenon, <1>2, <1>3, AfterItem
<1>5. to \in Nat /\ d.blanks \in Nat /\ z \in to .. to + d.blanks
  BY Zenon, <1>2, ItemInText, ContainerInText DEF EndsAt
<1>6. v.end \in to .. to + (IF kind = "literal" THEN d.blanks ELSE 0)
  <2> HIDE DEF to, kind
  <2> QED BY <1>2, <1>5
<1>7. Blank(d.text, to, v.end)
  <2>1. Blank(d.text, to, z)
    BY Zenon, <1>2 DEF EndsAt
  <2>2. Blank(d.text, to, to)
    BY <1>5 DEF Blank
  <2> QED BY Zenon, <1>2, <2>1, <2>2
<1>8. v = [raw |-> d.text, start |-> d.items[k].start, end |-> v.end, typ |-> d.items[k].typ]
  <2>1. v = [raw |-> v.raw, start |-> v.start, end |-> v.end, typ |-> v.typ]
    BY DEF v, NodeAt
  <2> QED BY Zenon, <1>1, <2>1
<1>9. v.end <= Len(d.text)
  <2>1. /\ Len(d.text) \in Nat /\ e \in Nat /\ e <= Len(d.text) + 1
        /\ to \in Nat /\ to <= e - 1 /\ z <= e - 1
    BY Zenon, <1>2, ItemInText, ContainerInText DEF EndsAt
  <2>2. z \in Int /\ v.end \in {to, z}
    BY <1>3, <1>5
  <2> HIDE DEF to
  <2> QED BY <2>1, <2>2
<1>10. LandsOn(v, d, k)
  BY Zenon, <1>6, <1>7, <1>8, <1>9 DEF LandsOn
<1> QED BY Zenon, <1>4, <1>10 DEF v

-----------------------------------------------------------------------------
(* The strict scans of strings, numbers and words.                            *)

(* Where the strict scan of a string goes on from a character that is no quote. *)
BehindChar(b, j) ==
    IF b[j] # "\\" THEN j + 1 ELSE IF j < Len(b) /\ b[j + 1] = "u" THEN j + 6 ELSE j + 2

(* One step of that scan.                                                    *)
StringSkips(b, u, j) ==
    u[j] = IF j > Len(b) THEN 0
           ELSE IF b[j] = QuoteMark THEN j + 1
           ELSE IF BehindChar(b, j) > Len(b) + 1 THEN 0 ELSE u[BehindChar(b, j)]

(* The strict scan of a string, step by step.                                *)
LEMMA ScanStringUnfolds ==
    ASSUME NEW b, Len(b) \in Nat
    PROVE  \E u : /\ \A i \in Nat : ScanString(b, i) = u[i + 1]
                  /\ \A j \in Nat : /\ StringSkips(b, u, j)
                                    /\ u[j] \in Nat /\ (u[j] = 0 \/ u[j] > j)
<1> DEFINE n == Len(b)
           S == Nat
           pos == [j \in S |-> j]
           Ends == {j \in S : j > n \/ b[j] = QuoteMark \/ BehindChar(b, j) > n + 1}
           val == [j \in S |-> IF j <= n /\ b[j] = QuoteMark THEN j + 1 ELSE 0]
           next == [j \in S |-> BehindChar(b, j)]
           behind(w, k) == IF k > Len(b) + 1 THEN 0 ELSE w[k]
           rhs(w, j) == IF j > Len(b) THEN 0
                        ELSE CASE b[j] = QuoteMark -> j + 1
                               [] b[j] = "\\" ->
                                    IF j < Len(b) /\ b[j + 1] = "u" THEN behind(w, j + 6)
                                                                   ELSE behind(w, j + 2)
                               [] OTHER -> w[j + 1]
           Eq(w) == w = [j \in Nat |-> rhs(w, j)]
           u == CHOOSE x : Eq(x)
<1>1. \A j \in Nat : BehindChar(b, j) \in Nat /\ BehindChar(b, j) > j
  BY DEF BehindChar
<1>2. IsWalk(S, n, pos, Ends, next, val)
  <2> HIDE DEF n
  <2>1. n \in Nat
    BY DEF n
  <2>2. \A j \in S : j \notin Ends => pos[next[j]] > pos[j]
    BY <1>1
  <2>3. next \in [S -> S]
    BY <1>1
  <2>4. pos \in [S -> Nat] /\ val \in [S -> Nat] /\ Ends \in SUBSET S
    BY <2>1
  <2>5. \A j \in S : pos[j] > n => j \in Ends
    OBVIOUS
  <2> HIDE DEF pos, val, Ends, next, S
  <2> QED BY <2>1, <2>2, <2>3, <2>4, <2>5 DEF IsWalk, Moves
<1>3. \A j \in S : /\ j \in Ends <=> j > n \/ b[j] = QuoteMark \/ BehindChar(b, j) > n + 1
                   /\ val[j] = IF j <= n /\ b[j] = QuoteMark THEN j + 1 ELSE 0
                   /\ next[j] = BehindChar(b, j)
  OBVIOUS
<1>4. ASSUME NEW w, NEW j \in S
      PROVE  rhs(w, j) = IF j > n THEN 0
                         ELSE IF b[j] = QuoteMark THEN j + 1
                         ELSE behind(w, BehindChar(b, j))
  <2>1. QuoteMark # "\\"
    BY Zenon DEF QuoteMark
  <2>2. CASE j > n
    BY <2>2
  <2>3. CASE j <= n /\ b[j] = QuoteMark
    BY <2>1, <2>3
  <2>4. CASE j <= n /\ b[j] = "\\"
    <3>1. BehindChar(b, j) = IF j < Len(b) /\ b[j + 1] = "u" THEN j + 6 ELSE j + 2
      BY <2>4 DEF BehindChar
    <3>2. rhs(w, j) = IF j < Len(b) /\ b[j + 1] = "u" THEN behind(w, j + 6)
                                                      ELSE behind(w, j + 2)
      BY <2>1, <2>4
    <3> HIDE DEF rhs, behind
    <3> QED BY <2>1, <2>4, <3>1, <3>2
  <2>5. CASE j <= n /\ b[j] # QuoteMark /\ b[j] # "\\"
    <3>1. BehindChar(b, j) = j + 1 /\ ~ (j + 1 > Len(b) + 1)
      BY <2>5 DEF BehindChar
    <3>2. rhs(w, j) = w[j + 1]
      BY <2>5
    <3> HIDE DEF rhs
    <3> QED BY <2>5, <3>1, <3>2
  <2> QED BY <2>2, <2>3, <2>4, <2>5
<1>5. ASSUME NEW w, NEW j \in S
      PROVE  rhs(w, j) = IF j \in Ends THEN val[j] ELSE w[next[j]]
  <2> HIDE DEF rhs, Ends, val, next
  <2> QED BY <1>3, <1>4
<1>6. \A i \in Nat : ScanString(b, i) = u[i + 1]
  BY DEF ScanString
<1> HIDE DEF pos, Ends, next, val, rhs, n, S
<1>7. PICK w \in [S -> Nat] : Walks(w, S, Ends, next, val)
  BY <1>2, WalkExists
<1>8. Eq(w)
  BY <1>5, <1>7 DEF S, Walks
<1> HIDE DEF Eq
<1>9. Eq(u)
  BY <1>8
<1> HIDE DEF u
<1>10. \A j \in Nat : u[j] = rhs(u, j)
  BY <1>9 DEF Eq
<1>11. \A j \in Nat : StringSkips(b, u, j)
  <2> TAKE j \in Nat
  <2>1. u[j] = IF j > n THEN 0
               ELSE IF b[j] = QuoteMark THEN j + 1
               ELSE behind(u, BehindChar(b, j))
    BY <1>4, <1>10 DEF S
  <2> QED BY <2>1 DEF StringSkips, n
<1>12. \A j \in S : u[j] \in Nat /\ (u[j] = 0 \/ u[j] > j)
  <2> DEFINE P == {j \in S : u[j] \in Nat /\ (u[j] = 0 \/ u[j] > j)}
  <2>1. ASSUME NEW j \in S, j \in Ends
        PROVE  j \in P
    <3>1. u[j] = IF j <= n /\ b[j] = QuoteMark THEN j + 1 ELSE 0
      BY <1>3, <1>5, <1>10, <2>1 DEF S
    <3> QED BY <3>1 DEF S
  <2>2. ASSUME NEW j \in S, j \notin Ends, next[j] \in P
        PROVE  j \in P
    <3>1. u[j] = u[next[j]]
      BY <1>5, <1>10, <2>2 DEF S
    <3>2. next[j] > j /\ j \in Nat /\ next[j] \in Nat
      BY <1>1, <1>3 DEF S
    <3>3. u[next[j]] \in Nat /\ (u[next[j]] = 0 \/ u[next[j]] > next[j])
      BY <2>2
    <3>4. u[j] \in Nat /\ (u[j] = 0 \/ u[j] > j)
      BY <3>1, <3>2, <3>3
    <3> QED BY <3>4
  <2> HIDE DEF P
  <2>3. Inherited(S, Ends, next, P)
    BY <2>1, <2>2 DEF Inherited
  <2>4. \A j \in S : j \in P
    BY <1>2, <2>3, WalkInduction DEF IsWalk
  <2> QED BY <2>4 DEF P
<1> QED BY <1>6, <1>11, <1>12 DEF S

(* b is what is left of t when off characters are cut off before it, and what  *)
(* is behind it.                                                             *)
Cut(b, t, off) ==
    /\ off \in Nat /\ Len(b) \in Nat /\ Len(b) + off <= Len(t)
    /\ \A k \in 1 .. Len(b) : b[k] = t[k + off]

(* What the strict scan sees, which steps over the digits behind \u.          *)
LEMMA StrictSteps ==
    ASSUME NEW t, NEW i \in Nat, NEW e \in Nat, IsString(t, i, e),
           NEW j \in i + 1 .. e - 1, ~ Hidden(t, i + 1, j),
           NEW k, k = IF t[j] # "\\" THEN j + 1 ELSE IF t[j + 1] = "u" THEN j + 6 ELSE j + 2
    PROVE  /\ t[j] = QuoteMark <=> j = e - 1
           /\ j # e - 1 => k \in i + 1 .. e - 1 /\ k > j /\ ~ Hidden(t, i + 1, k)
           /\ j # e - 1 /\ t[j] = "\\" => j + 1 < e - 1
<1> DEFINE l == IF t[j] = "\\" THEN j + 2 ELSE j + 1
<1>1. /\ t[j] = QuoteMark <=> j = e - 1
      /\ j # e - 1 => l \in i + 1 .. e - 1 /\ l > j /\ ~ Hidden(t, i + 1, l)
  BY StringSteps
<1>2. CASE j = e - 1 \/ t[j] # "\\"
  BY <1>1, <1>2
<1>3. CASE j # e - 1 /\ t[j] = "\\"
  <2>1. j + 2 \in i + 1 .. e - 1 /\ ~ Hidden(t, i + 1, j + 2)
    BY <1>1, <1>3
  <2>2. j + 1 < e - 1
    BY <2>1
  <2>3. CASE t[j + 1] # "u"
    BY <1>1, <1>3, <2>1, <2>2, <2>3
  <2>4. CASE t[j + 1] = "u"
    <3>1. Hidden(t, i + 1, j + 1)
      BY <1>3, HiddenNext
    <3>2. j + 1 \in i + 1 .. e - 2
      BY <2>2
    <3>3. (j + 1) + 4 <= e - 2 /\ \A m \in (j + 1) + 1 .. (j + 1) + 4 : t[m] \in HexLetters
      BY <2>4, <3>1, <3>2 DEF IsString
    <3>4. "\\" \notin HexLetters
      BY Zenon DEF HexLetters, Digits
    <3>5. \A m \in j + 2 .. j + 5 : t[m] # "\\"
      BY <3>3, <3>4
    <3>6. ASSUME NEW m \in j + 2 .. j + 5, ~ Hidden(t, i + 1, m)
          PROVE  ~ Hidden(t, i + 1, m + 1)
      <4>1. i + 1 \in Nat /\ m \in Nat /\ i + 1 <= m
        OBVIOUS
      <4> QED BY <3>5, <3>6, <4>1, HiddenNext
    <3>7. ~ Hidden(t, i + 1, j + 3)
      <4>1. j + 2 \in j + 2 .. j + 5 /\ (j + 2) + 1 = j + 3
        OBVIOUS
      <4> QED BY <2>1, <3>6, <4>1
    <3>8. ~ Hidden(t, i + 1, j + 4)
      <4>1. j + 3 \in j + 2 .. j + 5 /\ (j + 3) + 1 = j + 4
        OBVIOUS
      <4> QED BY <3>6, <3>7, <4>1
    <3>9. ~ Hidden(t, i + 1, j + 5)
      <4>1. j + 4 \in j + 2 .. j + 5 /\ (j + 4) + 1 = j + 5
        OBVIOUS
      <4> QED BY <3>6, <3>8, <4>1
    <3>10. ~ Hidden(t, i + 1, j + 6)
      <4>1. j + 5 \in j + 2 .. j + 5 /\ (j + 5) + 1 = j + 6
        OBVIOUS
      <4> QED BY <3>6, <3>9, <4>1
    <3>11. k = j + 6 /\ j + 6 \in i + 1 .. e - 1
      BY <1>3, <2>4, <3>3
    <3> QED BY <1>1, <2>2, <3>10, <3>11
  <2> QED BY <2>3, <2>4
<1> QED BY <1>2, <1>3

(* The strict scan finds the closing quote of a string that lies in the cut.  *)
LEMMA ScanStringFinds ==
    ASSUME NEW b, NEW t, NEW off, Cut(b, t, off), NEW i \in Nat \ {0}, NEW e \in Nat,
           IsString(t, i + off, e + off), e <= Len(b) + 1
    PROVE  ScanString(b, i) = e
<1>1. /\ off \in Nat /\ Len(b) \in Nat /\ i + off \in Nat /\ e + off \in Nat
      /\ \A k \in 1 .. Len(b) : b[k] = t[k + off]
  BY DEF Cut
<1>2. PICK u : /\ ScanString(b, i) = u[i + 1]
               /\ \A j \in Nat : StringSkips(b, u, j)
  BY <1>1, ScanStringUnfolds
<1> DEFINE first == i + off + 1
           Found(m) == \A j \in i + 1 .. e - 1 :
                         e - 1 - j <= m /\ ~ Hidden(t, first, j + off) => u[j] = e
           P == {m \in Nat : Found(m)}
<1>3. ASSUME NEW j \in i + 1 .. e - 1, ~ Hidden(t, first, j + off)
      PROVE  /\ j = e - 1 => u[j] = e
             /\ j # e - 1 => \E k \in i + 1 .. e - 1 :
                               k > j /\ ~ Hidden(t, first, k + off) /\ u[j] = u[k]
  <2> DEFINE J == j + off
             K == IF t[J] # "\\" THEN J + 1 ELSE IF t[J + 1] = "u" THEN J + 6 ELSE J + 2
             k == IF t[J] # "\\" THEN j + 1 ELSE IF t[J + 1] = "u" THEN j + 6 ELSE j + 2
  <2>1. J \in (i + off) + 1 .. (e + off) - 1 /\ ~ Hidden(t, (i + off) + 1, J)
    BY <1>1, <1>3
  <2>2. /\ t[J] = QuoteMark <=> J = (e + off) - 1
        /\ J # (e + off) - 1 =>
             K \in (i + off) + 1 .. (e + off) - 1 /\ K > J /\ ~ Hidden(t, (i + off) + 1, K)
        /\ J # (e + off) - 1 /\ t[J] = "\\" => J + 1 < (e + off) - 1
    BY <1>1, <2>1, StrictSteps
  <2>3. K = k + off /\ k \in Nat
    BY <1>1
  <2>4. j \in 1 .. Len(b) /\ b[j] = t[J]
    BY <1>1
  <2>5. StringSkips(b, u, j)
    BY <1>2
  <2>6. ~ (j > Len(b))
    BY <2>4
  <2>7. CASE j = e - 1
    <3>1. b[j] = QuoteMark
      BY <1>1, <2>2, <2>4, <2>7
    <3> QED BY <2>5, <2>6, <2>7, <3>1 DEF StringSkips
  <2>8. CASE j # e - 1
    <3>1. J # (e + off) - 1
      BY <1>1, <2>8
    <3>2. b[j] # QuoteMark
      BY <2>2, <2>4, <3>1
    <3>3. t[J] = "\\" => j < Len(b) /\ b[j + 1] = t[J + 1]
      <4> SUFFICES ASSUME t[J] = "\\" PROVE j < Len(b) /\ b[j + 1] = t[J + 1]
        OBVIOUS
      <4>1. J + 1 < (e + off) - 1
        BY <2>2, <3>1
      <4>2. j + 1 \in 1 .. Len(b) /\ (j + 1) + off = J + 1
        BY <1>1, <4>1
      <4> QED BY <1>1, <4>2
    <3>4. BehindChar(b, j) = k
      BY <2>4, <3>3 DEF BehindChar
    <3>5. k \in i + 1 .. e - 1 /\ k > j /\ ~ Hidden(t, first, k + off)
      <4> HIDE DEF K, k
      <4>1. K \in (i + off) + 1 .. (e + off) - 1 /\ K > J /\ ~ Hidden(t, (i + off) + 1, K)
        BY <2>2, <3>1
      <4> QED BY <1>1, <2>3, <4>1
    <3> HIDE DEF k, K
    <3>6. ~ (k > Len(b) + 1)
      BY <1>1, <3>5
    <3>7. u[j] = u[k]
      BY <2>5, <2>6, <3>2, <3>4, <3>6 DEF StringSkips
    <3> QED BY <2>8, <3>5, <3>7
  <2> QED BY <2>7, <2>8
<1>4. i + 1 <= e - 1
  BY <1>1 DEF IsString
<1> HIDE DEF first
<1>5. 0 \in P
  <2>1. ASSUME NEW j \in i + 1 .. e - 1, e - 1 - j <= 0, ~ Hidden(t, first, j + off)
        PROVE  u[j] = e
    <3>1. j = e - 1
      BY <2>1
    <3> QED BY <1>3, <2>1, <3>1
  <2> QED BY <2>1
<1>6. ASSUME NEW m \in Nat, m \in P
      PROVE  m + 1 \in P
  <2>1. ASSUME NEW j \in i + 1 .. e - 1, e - 1 - j <= m + 1, ~ Hidden(t, first, j + off)
        PROVE  u[j] = e
    <3>1. CASE j = e - 1
      BY <1>3, <2>1, <3>1
    <3>2. CASE j # e - 1
      <4>1. PICK k \in i + 1 .. e - 1 :
                k > j /\ ~ Hidden(t, first, k + off) /\ u[j] = u[k]
        BY <1>3, <2>1, <3>2
      <4>2. e - 1 - k <= m
        BY <2>1, <4>1
      <4> QED BY <1>6, <4>1, <4>2
    <3> QED BY <3>1, <3>2
  <2> QED BY <2>1
<1> HIDE DEF P
<1>7. e - 1 - (i + 1) \in Nat
  BY <1>4
<1>8. e - 1 - (i + 1) \in P
  BY <1>5, <1>6, <1>7, Induction
<1>9. i + 1 \in i + 1 .. e - 1 /\ ~ Hidden(t, first, (i + 1) + off)
  <2>1. first = (i + 1) + off /\ first \in Nat
    BY <1>1 DEF first
  <2>2. ~ Hidden(t, first, first)
    BY <2>1, FirstIsNotHidden
  <2> QED BY <1>4, <2>1, <2>2
<1> QED BY <1>2, <1>8, <1>9 DEF P

(* White space of the text is white space of the cut.                        *)
LEMMA BlankInCut ==
    ASSUME NEW b, NEW t, NEW off, Cut(b, t, off), NEW i \in Nat \ {0}, NEW j \in Nat,
           Blank(t, i + off, j + off), j <= Len(b) + 1
    PROVE  Blank(b, i, j)
<1>1. /\ off \in Nat /\ Len(b) \in Nat
      /\ \A k \in 1 .. Len(b) : b[k] = t[k + off]
  BY DEF Cut
<1>2. i + off <= j + off /\ \A k \in i + off .. (j + off) - 1 : t[k] \in WhiteSpace
  BY DEF Blank
<1>3. ASSUME NEW k \in i .. j - 1
      PROVE  b[k] \in WhiteSpace
  <2>1. k \in 1 .. Len(b) /\ k + off \in i + off .. (j + off) - 1
    BY <1>1
  <2> QED BY <1>1, <1>2, <2>1
<1> QED BY <1>1, <1>2, <1>3 DEF Blank

(* So the skip of white space ends in the cut where it does in the text.      *)
LEMMA SkipSpacesInCut ==
    ASSUME NEW b, NEW t, NEW off, Cut(b, t, off), NEW i \in Nat \ {0}, NEW j \in Nat,
           Blank(t, i + off, j + off), j <= Len(b), t[j + off] \notin WhiteSpace
    PROVE  SkipSpaces(b, i) = j /\ j \in 1 .. Len(b) /\ b[j] = t[j + off]
<1>1. Len(b) \in Nat /\ off \in Nat /\ \A k \in 1 .. Len(b) : b[k] = t[k + off]
  BY DEF Cut
<1>2. j <= Len(b) + 1
  BY <1>1
<1>3. Blank(b, i, j)
  BY <1>2, BlankInCut
<1>4. i <= j
  BY <1>3 DEF Blank
<1>5. j \in 1 .. Len(b)
  BY <1>1, <1>4
<1>6. b[j] = t[j + off]
  BY <1>1, <1>5
<1> QED BY <1>1, <1>3, <1>5, <1>6, SkipSpacesFinds

(* A word is where it is.                                                    *)
LEMMA KeywordFinds ==
    ASSUME NEW b, NEW t, NEW off, Cut(b, t, off), NEW i \in Nat \ {0}, NEW e \in Nat,
           NEW word, DOMAIN word = 1 .. Len(word), Len(word) \in Nat,
           IsWord(t, i + off, e + off, word), e <= Len(b) + 1
    PROVE  Keyword(b, i, word) = e
<1>1. Len(b) \in Nat /\ off \in Nat /\ \A k \in 1 .. Len(b) : b[k] = t[k + off]
  BY DEF Cut
<1>2. /\ e + off = (i + off) + Len(word)
      /\ \A k \in 1 .. Len(word) : t[(i + off) + k - 1] = word[k]
  BY DEF IsWord
<1>3. e = i + Len(word)
  <2> DEFINE n == Len(word)
  <2>1. n \in Nat /\ e + off = (i + off) + n /\ off \in Nat
    BY <1>1, <1>2
  <2> HIDE DEF n
  <2>2. e = i + n
    BY <2>1
  <2> QED BY <2>2 DEF n
<1>4. ASSUME NEW k \in 1 .. Len(word)
      PROVE  b[i + k - 1] = word[k]
  <2>1. i + k - 1 \in 1 .. Len(b) /\ (i + k - 1) + off = (i + off) + k - 1
    BY <1>1, <1>3
  <2>2. b[i + k - 1] = t[(i + k - 1) + off]
    BY <1>1, <2>1
  <2> QED BY <1>2, <2>1, <2>2
<1> QED BY <1>3, <1>4 DEF Keyword

(* No digit stands at e in b.                                                *)
NumberStops(b, e) == e <= Len(b) => b[e] \notin NumberChars

(* A number goes up to what is no part of one.                               *)
LEMMA ScanNumberFinds ==
    ASSUME NEW b, Len(b) \in Nat, NEW i \in Nat \ {0}, NEW e \in Nat,
           i < e, e <= Len(b) + 1, \A k \in i .. e - 1 : b[k] \in NumberChars,
           NumberStops(b, e)
    PROVE  ScanNumber(b, i) = e
<1> DEFINE from == IF b[i] = "-" THEN i + 1 ELSE i
           I == {k \in from .. Len(b) : b[k] \notin NumberChars}
           at == IF I # {} THEN Min(I) ELSE 0
           to == IF at # 0 THEN at ELSE Len(b) + 1
<1>1. from \in {i, i + 1}
  OBVIOUS
<1>2. ScanNumber(b, i) = IF to = i THEN 0 ELSE to
  BY DEF ScanNumber, SelectInSubSeq
<1> HIDE DEF from
<1>3. \A k \in I : e <= k
  BY <1>1
<1>4. CASE e <= Len(b)
  <2>1. e \in I
    BY <1>1, <1>4 DEF NumberStops
  <2>2. Min(I) = e
    <3>1. \A k \in I : (\A l \in I : k <= l) => k = e
      BY <1>1, <1>3, <2>1
    <3> HIDE DEF I
    <3> QED BY <1>3, <2>1, <3>1 DEF Min
  <2>3. to = e
    BY <2>1, <2>2
  <2> QED BY <1>2, <2>3
<1>5. CASE e = Len(b) + 1
  <2>1. I = {}
    BY <1>1, <1>5
  <2>2. to = e
    BY <1>5, <2>1
  <2> QED BY <1>2, <2>2
<1> QED BY <1>4, <1>5

-----------------------------------------------------------------------------
(* skipValue: its scans of contents are one function, which meets its         *)
(* equation.                                                                 *)

ContentsAt == {"members", "elements"} \X Nat

(* A scan that fails or goes on.                                             *)
Forwards(f) == \A s \in ContentsAt : f[s] \in Nat /\ (f[s] = 0 \/ f[s] > s[2])

(* Each of the scans fails, or goes on.                                      *)
GoesOn(e, i) == e \in Nat /\ (e = 0 \/ e > i)

LEMMA ScanStringMoves ==
    ASSUME NEW b, Len(b) \in Nat, NEW i \in Nat
    PROVE  GoesOn(ScanString(b, i), i)
<1>1. PICK u : /\ ScanString(b, i) = u[i + 1]
               /\ u[i + 1] \in Nat /\ (u[i + 1] = 0 \/ u[i + 1] > i + 1)
  BY ScanStringUnfolds
<1> QED BY <1>1 DEF GoesOn

LEMMA KeywordMoves ==
    ASSUME NEW b, NEW i \in Nat,
           NEW word \in {<<"t", "r", "u", "e">>, <<"f", "a", "l", "s", "e">>,
                          <<"n", "u", "l", "l">>}
    PROVE  GoesOn(Keyword(b, i, word), i)
<1> DEFINE n == Len(word)
           There == i + n <= Len(b) + 1 /\ \A k \in DOMAIN word : b[i + k - 1] = word[k]
<1>1. n \in Nat \ {0}
  BY WordLetters
<1>2. Keyword(b, i, word) = IF There THEN i + n ELSE 0
  BY DEF Keyword
<1> HIDE DEF n, There
<1> QED BY <1>1, <1>2 DEF GoesOn

LEMMA ScanNumberMoves ==
    ASSUME NEW b, Len(b) \in Nat, NEW i \in Nat, i <= Len(b)
    PROVE  GoesOn(ScanNumber(b, i), i)
<1> DEFINE from == IF b[i] = "-" THEN i + 1 ELSE i
           I == {k \in from .. Len(b) : b[k] \notin NumberChars}
           at == IF I # {} THEN Min(I) ELSE 0
           to == IF at # 0 THEN at ELSE Len(b) + 1
<1>1. from \in {i, i + 1}
  OBVIOUS
<1>2. ScanNumber(b, i) = IF to = i THEN 0 ELSE to
  BY DEF ScanNumber, SelectInSubSeq
<1> HIDE DEF from
<1>3. I # {} => Min(I) \in from .. Len(b)
  <2>1. I \in SUBSET Nat
    BY <1>1
  <2>2. I # {} => \E m \in I : \A k \in I : m <= k
    BY <2>1, Least
  <2> QED BY <2>2 DEF Min
<1>4. to \in Nat /\ to >= i
  BY <1>1, <1>3
<1> HIDE DEF to
<1> QED BY <1>2, <1>4 DEF GoesOn

(* Which scan a value has.                                                   *)
LEMMA ValueArms ==
    ASSUME NEW b, NEW f, NEW i, ~ (i > Len(b)), NEW v, v = ValueSkipped(b, f, i)
    PROVE  /\ b[i] = QuoteMark => v = ScanString(b, i)
           /\ b[i] = "{" => v = f[<<"members", i + 1>>]
           /\ b[i] = "[" => v = f[<<"elements", i + 1>>]
           /\ b[i] = "t" => v = Keyword(b, i, <<"t", "r", "u", "e">>)
           /\ b[i] = "f" => v = Keyword(b, i, <<"f", "a", "l", "s", "e">>)
           /\ b[i] = "n" => v = Keyword(b, i, <<"n", "u", "l", "l">>)
           /\ b[i] \notin {QuoteMark, "{", "[", "t", "f", "n"} => v = ScanNumber(b, i)
<1>1. CASE b[i] = QuoteMark
  <2>1. v = ScanString(b, i)
    BY Zenon, <1>1 DEF ValueSkipped, QuoteMark
  <2> QED BY Zenon, <1>1, <2>1 DEF QuoteMark
<1>2. CASE b[i] = "{"
  <2>1. v = f[<<"members", i + 1>>]
    BY Zenon, <1>2 DEF ValueSkipped, QuoteMark
  <2> QED BY Zenon, <1>2, <2>1 DEF QuoteMark
<1>3. CASE b[i] = "["
  <2>1. v = f[<<"elements", i + 1>>]
    BY Zenon, <1>3 DEF ValueSkipped, QuoteMark
  <2> QED BY Zenon, <1>3, <2>1 DEF QuoteMark
<1>4. CASE b[i] = "t"
  <2>1. v = Keyword(b, i, <<"t", "r", "u", "e">>)
    BY Zenon, <1>4 DEF ValueSkipped, QuoteMark
  <2> QED BY Zenon, <1>4, <2>1 DEF QuoteMark
<1>5. CASE b[i] = "f"
  <2>1. v = Keyword(b, i, <<"f", "a", "l", "s", "e">>)
    BY Zenon, <1>5 DEF ValueSkipped, QuoteMark
  <2> QED BY Zenon, <1>5, <2>1 DEF QuoteMark
<1>6. CASE b[i] = "n"
  <2>1. v = Keyword(b, i, <<"n", "u", "l", "l">>)
    BY Zenon, <1>6 DEF ValueSkipped, QuoteMark
  <2> QED BY Zenon, <1>6, <2>1 DEF QuoteMark
<1>7. CASE b[i] \notin {QuoteMark, "{", "[", "t", "f", "n"}
  <2>1. v = ScanNumber(b, i)
    BY Zenon, <1>7 DEF ValueSkipped
  <2> QED BY Zenon, <1>7, <2>1
<1> QED BY Zenon, <1>1, <1>2, <1>3, <1>4, <1>5, <1>6, <1>7

(* So does the scan of a value, which looks at scan behind the value's start   *)
(* only.                                                                     *)
LEMMA ValueSkippedMoves ==
    ASSUME NEW b, Len(b) \in Nat, NEW f, Forwards(f), NEW i \in Nat
    PROVE  GoesOn(ValueSkipped(b, f, i), i)
<1> DEFINE v == ValueSkipped(b, f, i)
<1>1. CASE i > Len(b)
  <2>1. v = 0
    BY Zenon, <1>1 DEF ValueSkipped
  <2> QED BY <2>1 DEF GoesOn
<1>2. CASE ~ (i > Len(b))
  <2>1. /\ GoesOn(ScanString(b, i), i)
        /\ GoesOn(ScanNumber(b, i), i)
        /\ GoesOn(Keyword(b, i, <<"t", "r", "u", "e">>), i)
        /\ GoesOn(Keyword(b, i, <<"f", "a", "l", "s", "e">>), i)
        /\ GoesOn(Keyword(b, i, <<"n", "u", "l", "l">>), i)
    BY <1>2, ScanStringMoves, ScanNumberMoves, KeywordMoves
  <2>2. ASSUME NEW what \in {"members", "elements"}
        PROVE  GoesOn(f[<<what, i + 1>>], i)
    <3> DEFINE s == <<what, i + 1>>
    <3>1. s \in ContentsAt /\ s[2] = i + 1
      BY DEF ContentsAt
    <3> HIDE DEF s
    <3>2. f[s] \in Nat /\ (f[s] = 0 \/ f[s] > i + 1)
      BY <3>1 DEF Forwards
    <3>3. GoesOn(f[s], i)
      BY <3>2 DEF GoesOn
    <3> QED BY <3>3 DEF s
  <2>3. "members" \in {"members", "elements"} /\ "elements" \in {"members", "elements"}
    OBVIOUS
  <2>4. \/ v = ScanString(b, i)
        \/ v = f[<<"members", i + 1>>]
        \/ v = f[<<"elements", i + 1>>]
        \/ v = Keyword(b, i, <<"t", "r", "u", "e">>)
        \/ v = Keyword(b, i, <<"f", "a", "l", "s", "e">>)
        \/ v = Keyword(b, i, <<"n", "u", "l", "l">>)
        \/ v = ScanNumber(b, i)
    BY Zenon, <1>2, ValueArms
  <2> HIDE DEF v
  <2>5. GoesOn(v, i)
    BY Zenon, <2>1, <2>2, <2>3, <2>4
  <2> QED BY <2>5 DEF v
<1> QED BY <1>1, <1>2

(* g is f behind i.                                                          *)
SameBehind(f, g, i) == \A s \in ContentsAt : s[2] > i => g[s] = f[s]

LEMMA ValueSkippedLocal ==
    ASSUME NEW b, NEW f, NEW g, NEW i \in Nat, SameBehind(f, g, i)
    PROVE  ValueSkipped(b, g, i) = ValueSkipped(b, f, i)
<1>1. <<"members", i + 1>> \in ContentsAt /\ <<"elements", i + 1>> \in ContentsAt
  BY DEF ContentsAt
<1>2. <<"members", i + 1>>[2] > i /\ <<"elements", i + 1>>[2] > i
  OBVIOUS
<1>3. /\ g[<<"members", i + 1>>] = f[<<"members", i + 1>>]
      /\ g[<<"elements", i + 1>>] = f[<<"elements", i + 1>>]
  BY Zenon, <1>1, <1>2 DEF SameBehind
<1> DEFINE v == ValueSkipped(b, f, i)
           w == ValueSkipped(b, g, i)
<1>4. CASE i > Len(b)
  BY Zenon, <1>4 DEF ValueSkipped
<1>5. CASE ~ (i > Len(b))
  <2> DEFINE Arms(h, x) ==
               /\ b[i] = QuoteMark => x = ScanString(b, i)
               /\ b[i] = "{" => x = h[<<"members", i + 1>>]
               /\ b[i] = "[" => x = h[<<"elements", i + 1>>]
               /\ b[i] = "t" => x = Keyword(b, i, <<"t", "r", "u", "e">>)
               /\ b[i] = "f" => x = Keyword(b, i, <<"f", "a", "l", "s", "e">>)
               /\ b[i] = "n" => x = Keyword(b, i, <<"n", "u", "l", "l">>)
               /\ b[i] \notin {QuoteMark, "{", "[", "t", "f", "n"} => x = ScanNumber(b, i)
  <2>1. Arms(f, v) /\ Arms(g, w)
    BY Zenon, <1>5, ValueArms
  <2> HIDE DEF v, w
  <2>2. w = v
    BY Zenon, <1>3, <2>1
  <2> QED BY <2>2 DEF v, w
<1> QED BY <1>4, <1>5

LEMMA ValueOfKeyMoves ==
    ASSUME NEW b, Len(b) \in Nat, NEW i \in Nat
    PROVE  GoesOn(ValueOfKey(b, i), i)
<1> DEFINE end == ScanString(b, i)
           colon == SkipSpaces(b, end)
           value == SkipSpaces(b, colon + 1)
           Bad == end = 0 \/ colon > Len(b) \/ b[colon] # ":"
<1>1. end \in Nat /\ (end = 0 \/ end > i)
  BY ScanStringMoves DEF GoesOn
<1>2. ValueOfKey(b, i) = IF Bad THEN 0 ELSE value
  BY Zenon DEF ValueOfKey
<1>3. Bad \/ end # 0
  OBVIOUS
<1> HIDE DEF end
<1>4. colon \in Nat /\ colon >= end
  BY <1>1, SkipSpacesMoves
<1> HIDE DEF colon
<1>5. value \in Nat /\ value >= colon + 1
  BY <1>4, SkipSpacesMoves
<1> HIDE DEF value, Bad
<1> QED BY <1>1, <1>2, <1>3, <1>4, <1>5 DEF GoesOn

CloseOf(what) == IF what = "members" THEN "}" ELSE "]"

ValueFrom(b, what, i) ==
    IF what = "elements" THEN i ELSE IF b[i] = QuoteMark THEN ValueOfKey(b, i) ELSE 0

EndFrom(b, what, f, i) ==
    IF ValueFrom(b, what, i) = 0 THEN 0 ELSE ValueSkipped(b, f, ValueFrom(b, what, i))

(* The scan of contents, case by case.                                       *)
LEMMA ContentsArms ==
    ASSUME NEW b, NEW what, NEW f, NEW i
    PROVE  LET end == EndFrom(b, what, f, i)
               next == SkipSpaces(b, end)
           IN  ContentsSkipped(b, what, f, i) =
                 IF i > Len(b) THEN 0
                 ELSE IF b[i] = CloseOf(what) THEN i + 1
                 ELSE IF end = 0 \/ next > Len(b) THEN 0
                 ELSE IF b[next] = "," THEN f[<<what, next + 1>>]
                 ELSE IF b[next] = CloseOf(what) THEN next + 1 ELSE 0
<1> DEFINE close == CloseOf(what)
           v == ContentsSkipped(b, what, f, i)
           end == EndFrom(b, what, f, i)
           next == SkipSpaces(b, end)
           rest == CASE b[next] = "," -> f[<<what, next + 1>>]
                     [] b[next] = close -> next + 1
                     [] OTHER -> 0
<1>1. v = IF i > Len(b) THEN 0
          ELSE IF b[i] = close THEN i + 1
          ELSE IF end = 0 \/ next > Len(b) THEN 0
          ELSE rest
  BY Zenon DEF ContentsSkipped, CloseOf, ValueFrom, EndFrom
<1>2. close # ","
  BY Zenon DEF CloseOf
<1> HIDE DEF close, v, end, next
<1>3. rest = IF b[next] = "," THEN f[<<what, next + 1>>]
             ELSE IF b[next] = close THEN next + 1 ELSE 0
  <2>1. CASE b[next] = ","
    BY Zenon, <1>2, <2>1
  <2>2. CASE b[next] # "," /\ b[next] = close
    BY Zenon, <2>2
  <2>3. CASE b[next] # "," /\ b[next] # close
    BY Zenon, <2>3
  <2> QED BY <2>1, <2>2, <2>3
<1> HIDE DEF rest
<1>4. v = IF i > Len(b) THEN 0
          ELSE IF b[i] = close THEN i + 1
          ELSE IF end = 0 \/ next > Len(b) THEN 0
          ELSE IF b[next] = "," THEN f[<<what, next + 1>>]
          ELSE IF b[next] = close THEN next + 1 ELSE 0
  BY Zenon, <1>1, <1>3
<1> QED BY <1>4 DEF close, v, end, next

(* What is scanned of an item lies behind i, or is nothing.                  *)
LEMMA EndFromMoves ==
    ASSUME NEW b, Len(b) \in Nat, NEW what, NEW f, Forwards(f), NEW i \in Nat
    PROVE  GoesOn(EndFrom(b, what, f, i), i)
<1> DEFINE value == ValueFrom(b, what, i)
<1>1. value \in Nat /\ (value = 0 \/ value >= i)
  BY ValueOfKeyMoves DEF ValueFrom, GoesOn
<1>2. EndFrom(b, what, f, i) = IF value = 0 THEN 0 ELSE ValueSkipped(b, f, value)
  BY DEF EndFrom
<1> HIDE DEF value
<1>3. GoesOn(ValueSkipped(b, f, value), value)
  BY <1>1, ValueSkippedMoves
<1> QED BY <1>1, <1>2, <1>3 DEF GoesOn

LEMMA EndFromLocal ==
    ASSUME NEW b, Len(b) \in Nat, NEW what, NEW f, NEW g, NEW i \in Nat, SameBehind(f, g, i)
    PROVE  EndFrom(b, what, g, i) = EndFrom(b, what, f, i)
<1> DEFINE value == ValueFrom(b, what, i)
<1>1. value \in Nat /\ (value = 0 \/ value >= i)
  BY ValueOfKeyMoves DEF ValueFrom, GoesOn
<1>2. \A h : EndFrom(b, what, h, i) = IF value = 0 THEN 0 ELSE ValueSkipped(b, h, value)
  BY DEF EndFrom
<1> HIDE DEF value
<1>3. CASE value = 0
  BY <1>2, <1>3
<1>4. CASE value >= i
  <2>1. SameBehind(f, g, value)
    BY <1>1, <1>4 DEF SameBehind, ContentsAt
  <2>2. ValueSkipped(b, g, value) = ValueSkipped(b, f, value)
    BY <1>1, <2>1, ValueSkippedLocal
  <2> QED BY <1>2, <2>2
<1> QED BY <1>1, <1>3, <1>4

(* The scan of contents fails or goes on, and looks only behind i.            *)
LEMMA ContentsMove ==
    ASSUME NEW b, Len(b) \in Nat, NEW what \in {"members", "elements"},
           NEW f, Forwards(f), NEW i \in Nat
    PROVE  GoesOn(ContentsSkipped(b, what, f, i), i)
<1> DEFINE v == ContentsSkipped(b, what, f, i)
           end == EndFrom(b, what, f, i)
           next == SkipSpaces(b, end)
           close == CloseOf(what)
<1>1. v = IF i > Len(b) THEN 0
          ELSE IF b[i] = close THEN i + 1
          ELSE IF end = 0 \/ next > Len(b) THEN 0
          ELSE IF b[next] = "," THEN f[<<what, next + 1>>]
          ELSE IF b[next] = close THEN next + 1 ELSE 0
  BY ContentsArms
<1>2. end \in Nat /\ (end = 0 \/ end > i)
  BY EndFromMoves DEF GoesOn
<1> HIDE DEF end
<1>3. next \in Nat /\ next >= end
  BY <1>2, SkipSpacesMoves
<1> HIDE DEF next, close, v
<1> DEFINE s == <<what, next + 1>>
<1>4. s \in ContentsAt /\ s[2] = next + 1
  BY <1>3 DEF ContentsAt
<1> HIDE DEF s
<1>5. f[s] \in Nat /\ (f[s] = 0 \/ f[s] > next + 1)
  BY <1>4 DEF Forwards
<1>6. v \in {0, i + 1} \/ (end # 0 /\ v \in {f[s], next + 1})
  BY Zenon, <1>1 DEF s
<1>7. GoesOn(v, i)
  BY <1>2, <1>3, <1>5, <1>6 DEF GoesOn
<1> QED BY <1>7 DEF v

LEMMA ContentsLocal ==
    ASSUME NEW b, Len(b) \in Nat, NEW what \in {"members", "elements"},
           NEW f, Forwards(f), NEW g, NEW i \in Nat, SameBehind(f, g, i)
    PROVE  ContentsSkipped(b, what, g, i) = ContentsSkipped(b, what, f, i)
<1> DEFINE v == ContentsSkipped(b, what, f, i)
           w == ContentsSkipped(b, what, g, i)
           end == EndFrom(b, what, f, i)
           next == SkipSpaces(b, end)
           s == <<what, next + 1>>
           From(h) == IF i > Len(b) THEN 0
                      ELSE IF b[i] = CloseOf(what) THEN i + 1
                      ELSE IF end = 0 \/ next > Len(b) THEN 0
                      ELSE IF b[next] = "," THEN h[s]
                      ELSE IF b[next] = CloseOf(what) THEN next + 1 ELSE 0
<1>1. EndFrom(b, what, g, i) = end
  BY EndFromLocal
<1>2. v = From(f)
  BY ContentsArms
<1>3. w = From(g)
  BY <1>1, ContentsArms
<1>4. end \in Nat /\ (end = 0 \/ end > i)
  BY EndFromMoves DEF GoesOn
<1>5. end # 0 => g[s] = f[s]
  <2> HIDE DEF end
  <2>1. next \in Nat /\ next >= end
    BY <1>4, SkipSpacesMoves
  <2> HIDE DEF next
  <2>2. s \in ContentsAt /\ s[2] = next + 1
    BY <2>1 DEF ContentsAt
  <2> HIDE DEF s
  <2>3. end # 0 => s[2] > i
    BY <1>4, <2>1, <2>2
  <2> QED BY <2>2, <2>3 DEF SameBehind
<1> HIDE DEF v, w, end, next, s
<1>6. v = w
  BY Zenon, <1>2, <1>3, <1>5
<1> QED BY <1>6 DEF v, w

(* u says where the contents from each position on end.                      *)
Scans(b, u) ==
    \A what \in {"members", "elements"}, i \in Nat :
        u[<<what, i>>] = ContentsSkipped(b, what, u, SkipSpaces(b, i))

(* The equation of the scans has a solution, which goes on, and it is the only *)
(* one.                                                                      *)
LEMMA SkipValueUnfolds ==
    ASSUME NEW b, Len(b) \in Nat
    PROVE  \E u : /\ Forwards(u) /\ Scans(b, u)
                  /\ \A i : SkipValue(b, i) = ValueSkipped(b, u, i)
<1> DEFINE n == Len(b)
           S == ContentsAt
           from(s) == SkipSpaces(b, s[2])
           C(f, s) == ContentsSkipped(b, s[1], f, from(s))
           Fits(f, m) == /\ f = [s \in S |-> f[s]] /\ Forwards(f)
                         /\ \A s \in S : s[2] + m > n => f[s] = C(f, s)
           N == {m \in Nat : \E f : Fits(f, m)}
           Eq(f) == f = [s \in {"members", "elements"} \X Nat |->
                           ContentsSkipped(b, s[1], f, SkipSpaces(b, s[2]))]
           u == CHOOSE f : Eq(f)
<1>1. \A i : SkipValue(b, i) = ValueSkipped(b, u, i)
  BY DEF SkipValue
<1>2. ASSUME NEW s \in S
      PROVE  /\ s[1] \in {"members", "elements"} /\ s[2] \in Nat
             /\ from(s) \in Nat /\ from(s) >= s[2]
  <2>1. s[1] \in {"members", "elements"} /\ s[2] \in Nat
    BY DEF ContentsAt
  <2> QED BY <2>1, SkipSpacesMoves
<1>3. ASSUME NEW f, Forwards(f), NEW s \in S
      PROVE  C(f, s) \in Nat /\ (C(f, s) = 0 \/ C(f, s) > s[2])
  <2>1. GoesOn(C(f, s), from(s))
    BY <1>2, <1>3, ContentsMove
  <2> HIDE DEF from, C
  <2> QED BY <1>2, <2>1 DEF GoesOn
<1>4. ASSUME NEW f, Forwards(f), NEW g, NEW s \in S, \A t \in S : t[2] > s[2] => g[t] = f[t]
      PROVE  C(g, s) = C(f, s)
  <2>1. SameBehind(f, g, from(s))
    BY <1>2, <1>4 DEF SameBehind
  <2> HIDE DEF from
  <2> QED BY <1>2, <1>4, <2>1, ContentsLocal
<1>5. \A s \in S : s[2] > n => \A f : C(f, s) = 0
  <2> TAKE s \in S
  <2> SUFFICES ASSUME s[2] > n, NEW f PROVE C(f, s) = 0
    OBVIOUS
  <2>1. from(s) > n
    BY <1>2
  <2> HIDE DEF from
  <2> QED BY Zenon, <2>1 DEF ContentsSkipped
<1> HIDE DEF S, from, C
<1>6. 0 \in N
  <2> DEFINE f == [s \in S |-> 0]
  <2>1. \A s \in S : f[s] = 0
    OBVIOUS
  <2>2. f = [s \in S |-> f[s]]
    OBVIOUS
  <2> HIDE DEF f
  <2>3. Forwards(f)
    BY <2>1 DEF Forwards, S
  <2>4. \A s \in S : s[2] + 0 > n => f[s] = C(f, s)
    BY <1>2, <1>5, <2>1
  <2>5. Fits(f, 0)
    BY <2>2, <2>3, <2>4
  <2> HIDE DEF Fits
  <2> QED BY <2>5
<1>7. ASSUME NEW m \in Nat, m \in N
      PROVE  m + 1 \in N
  <2>1. PICK f : Fits(f, m)
    BY <1>7
  <2> DEFINE g == [s \in S |-> IF s[2] + m = n THEN C(f, s) ELSE f[s]]
  <2>2. g = [s \in S |-> g[s]]
    OBVIOUS
  <2>3. \A s \in S : g[s] = IF s[2] + m = n THEN C(f, s) ELSE f[s]
    OBVIOUS
  <2> HIDE DEF g
  <2>4. Forwards(g)
    <3>1. ASSUME NEW s \in S
          PROVE  g[s] \in Nat /\ (g[s] = 0 \/ g[s] > s[2])
      <4>1. f[s] \in Nat /\ (f[s] = 0 \/ f[s] > s[2])
        BY <2>1 DEF Forwards, S
      <4>2. C(f, s) \in Nat /\ (C(f, s) = 0 \/ C(f, s) > s[2])
        BY <1>3, <2>1
      <4> QED BY <2>3, <4>1, <4>2
    <3> QED BY <3>1 DEF Forwards, S
  <2>5. ASSUME NEW s \in S, s[2] + (m + 1) > n
        PROVE  g[s] = C(g, s)
    <3>1. \A t \in S : t[2] > s[2] => g[t] = f[t]
      BY <1>2, <2>3, <2>5
    <3>2. C(g, s) = C(f, s)
      BY <1>4, <2>1, <3>1
    <3>3. s[2] + m = n \/ s[2] + m > n
      BY <1>2, <2>5
    <3>4. s[2] + m > n => f[s] = C(f, s)
      BY <2>1
    <3> QED BY <2>3, <3>2, <3>3, <3>4
  <2>6. Fits(g, m + 1)
    BY <2>2, <2>4, <2>5
  <2> HIDE DEF Fits
  <2> QED BY <2>6
<1>8. n + 1 \in N
  <2> HIDE DEF N
  <2>1. n + 1 \in Nat
    OBVIOUS
  <2> QED BY <1>6, <1>7, <2>1, Induction
<1>9. PICK f : Fits(f, n + 1)
  BY <1>8
<1>10. \A s \in S : f[s] = C(f, s)
  <2>1. \A s \in S : s[2] + (n + 1) > n
    BY <1>2
  <2> QED BY <1>9, <2>1
<1>11. \A h : Eq(h) <=> h = [s \in S |-> C(h, s)]
  BY DEF S, C, from, ContentsAt
<1> HIDE DEF Eq
<1>12. Eq(f)
  <2>1. f = [s \in S |-> f[s]]
    BY <1>9
  <2>2. f = [s \in S |-> C(f, s)]
    BY <1>10, <2>1
  <2> QED BY <1>11, <2>2
<1>13. Eq(u)
  BY <1>12
<1> HIDE DEF u
<1>14. \A s \in S : u[s] = C(u, s)
  BY <1>11, <1>13
<1>15. \A s \in S : u[s] = f[s]
  <2> DEFINE Same(m) == \A s \in S : s[2] + m > n => u[s] = f[s]
             M == {m \in Nat : Same(m)}
  <2>1. 0 \in M
    BY <1>2, <1>5, <1>10, <1>14
  <2>2. ASSUME NEW m \in Nat, m \in M
        PROVE  m + 1 \in M
    <3>1. ASSUME NEW s \in S, s[2] + (m + 1) > n
          PROVE  u[s] = f[s]
      <4>1. \A t \in S : t[2] > s[2] => u[t] = f[t]
        BY <1>2, <2>2, <3>1
      <4>2. C(u, s) = C(f, s)
        BY <1>4, <1>9, <4>1
      <4> QED BY <1>10, <1>14, <4>2
    <3> QED BY <3>1
  <2> HIDE DEF M
  <2>3. n + 1 \in M
    <3>1. n + 1 \in Nat
      OBVIOUS
    <3> QED BY <2>1, <2>2, <3>1, Induction
  <2>4. \A s \in S : s[2] + (n + 1) > n
    BY <1>2
  <2> QED BY <2>3, <2>4 DEF M
<1>16. Forwards(u)
  BY <1>9, <1>15 DEF Forwards, S
<1>17. Scans(b, u)
  <2> SUFFICES ASSUME NEW what \in {"members", "elements"}, NEW i \in Nat
               PROVE  u[<<what, i>>] = ContentsSkipped(b, what, u, SkipSpaces(b, i))
    BY Zenon DEF Scans
  <2> DEFINE s == <<what, i>>
  <2>1. s \in S /\ s[1] = what /\ s[2] = i
    BY DEF S, ContentsAt
  <2> HIDE DEF s
  <2>2. u[s] = ContentsSkipped(b, what, u, SkipSpaces(b, i))
    BY Zenon, <1>14, <2>1 DEF C, from
  <2> QED BY <2>2 DEF s
<1> QED BY <1>1, <1>16, <1>17

(* The same of positions in the text.                                        *)
LEMMA SpacesInCut ==
    ASSUME NEW b, NEW t, NEW off, Cut(b, t, off), NEW q \in Nat, off < q, NEW r \in Nat,
           Blank(t, q, r), r - off <= Len(b), t[r] \notin WhiteSpace
    PROVE  /\ SkipSpaces(b, q - off) = r - off
           /\ r - off \in 1 .. Len(b) /\ b[r - off] = t[r]
<1> DEFINE i == q - off
           j == r - off
<1>1. off \in Nat
  BY DEF Cut
<1>2. q <= r
  BY DEF Blank
<1>3. i \in Nat \ {0} /\ j \in Nat /\ i + off = q /\ j + off = r
  BY <1>1, <1>2
<1> HIDE DEF i, j
<1>4. Blank(t, i + off, j + off) /\ j <= Len(b) /\ t[j + off] \notin WhiteSpace
  BY <1>3 DEF j
<1>5. SkipSpaces(b, i) = j /\ j \in 1 .. Len(b) /\ b[j] = t[j + off]
  BY <1>3, <1>4, SkipSpacesInCut
<1> QED BY <1>3, <1>5 DEF i, j

(* A string of the text is one character of the cut after the other.          *)
LEMMA StringInCut ==
    ASSUME NEW b, NEW t, NEW off, Cut(b, t, off), NEW i \in Nat, off < i, NEW e \in Nat,
           IsString(t, i, e), e - off <= Len(b) + 1
    PROVE  /\ ScanString(b, i - off) = e - off
           /\ i - off \in 1 .. Len(b) /\ b[i - off] = QuoteMark
<1> DEFINE j == i - off
           f == e - off
<1>1. off \in Nat /\ Len(b) \in Nat /\ \A k \in 1 .. Len(b) : b[k] = t[k + off]
  BY DEF Cut
<1>2. i + 1 < e /\ t[i] = QuoteMark
  BY DEF IsString
<1>3. j \in Nat \ {0} /\ f \in Nat /\ j + off = i /\ f + off = e /\ j < f
  BY <1>1, <1>2
<1> HIDE DEF j, f
<1>4. IsString(t, j + off, f + off) /\ f <= Len(b) + 1
  BY <1>3 DEF f
<1>5. ScanString(b, j) = f
  BY <1>3, <1>4, ScanStringFinds
<1>6. j \in 1 .. Len(b)
  BY <1>1, <1>3, <1>4
<1>7. b[j] = QuoteMark
  BY <1>1, <1>2, <1>3, <1>6
<1> QED BY <1>5, <1>6, <1>7 DEF j, f

(* The strict scan goes over a string, and over a literal that no character   *)
(* of a number follows.                                                      *)
LEMMA ScalarSkipped ==
    ASSUME NEW b, NEW t, NEW off, Cut(b, t, off), NEW u, NEW i \in Nat, off < i,
           NEW e \in Nat, NEW kind, kind \notin {"array", "object"}, IsSpan(t, i, e, kind),
           e - off <= Len(b) + 1, NumberStops(b, e - off)
    PROVE  ValueSkipped(b, u, i - off) = e - off
<1> DEFINE j == i - off
           f == e - off
           v == ValueSkipped(b, u, j)
<1>1. off \in Nat /\ Len(b) \in Nat /\ \A k \in 1 .. Len(b) : b[k] = t[k + off]
  BY DEF Cut
<1>2. i < e
  BY SpanBegins
<1>3. j \in Nat \ {0} /\ f \in Nat /\ j + off = i /\ f + off = e /\ j < f
  BY <1>1, <1>2
<1>4. f <= Len(b) + 1 /\ NumberStops(b, f)
  OBVIOUS
<1>5. ASSUME IsString(t, i, e)
      PROVE  v = f
  <2>1. ScanString(b, j) = f /\ j \in 1 .. Len(b) /\ b[j] = QuoteMark
    BY <1>5, StringInCut
  <2> HIDE DEF j, f, v
  <2>2. ~ (j > Len(b))
    BY <1>1, <2>1
  <2>3. v = ScanString(b, j)
    BY <2>1, <2>2, ValueArms DEF v
  <2> QED BY <2>1, <2>3
<1> HIDE DEF j, f, v
<1>6. j \in 1 .. Len(b) /\ ~ (j > Len(b)) /\ b[j] = t[i]
  BY <1>1, <1>3, <1>4
<1>7. ASSUME \A k \in i .. e - 1 : t[k] \in NumberChars
      PROVE  v = f
  <2>1. \A k \in j .. f - 1 : b[k] \in NumberChars
    <3> TAKE k \in j .. f - 1
    <3>1. k \in 1 .. Len(b) /\ k + off \in i .. e - 1
      BY <1>1, <1>3, <1>4
    <3>2. b[k] = t[k + off]
      BY <1>1, <3>1
    <3> QED BY <1>7, <3>1, <3>2
  <2>2. ScanNumber(b, j) = f
    BY <1>1, <1>3, <1>4, <2>1, ScanNumberFinds
  <2>3. b[j] \in NumberChars
    BY <1>3, <2>1
  <2>4. b[j] \notin {QuoteMark, "{", "[", "t", "f", "n"}
    BY Zenon, <2>3 DEF NumberChars, Digits, QuoteMark
  <2>5. v = ScanNumber(b, j)
    BY Zenon, <1>6, <2>4, ValueArms DEF v
  <2> QED BY <2>2, <2>5
<1>8. ASSUME NEW word \in {<<"t", "r", "u", "e">>, <<"f", "a", "l", "s", "e">>,
                            <<"n", "u", "l", "l">>}, IsWord(t, i, e, word)
      PROVE  v = f
  <2>1. Len(word) \in Nat \ {0} /\ DOMAIN word = 1 .. Len(word)
    BY WordLetters
  <2>2. IsWord(t, j + off, f + off, word)
    BY <1>3, <1>8
  <2>3. Keyword(b, j, word) = f
    BY <1>3, <1>4, <2>1, <2>2, KeywordFinds
  <2>4. b[j] = word[1]
    <3>1. t[i + 1 - 1] = word[1]
      BY <1>8, <2>1 DEF IsWord
    <3>2. i + 1 - 1 = i
      OBVIOUS
    <3> QED BY <1>6, <3>1, <3>2
  <2>5. CASE word = <<"t", "r", "u", "e">>
    <3>1. b[j] = "t"
      BY <2>4, <2>5
    <3>2. v = Keyword(b, j, <<"t", "r", "u", "e">>)
      BY Zenon, <1>6, <3>1, ValueArms DEF v
    <3> QED BY Zenon, <2>3, <2>5, <3>2
  <2>6. CASE word = <<"f", "a", "l", "s", "e">>
    <3>1. b[j] = "f"
      BY <2>4, <2>6
    <3>2. v = Keyword(b, j, <<"f", "a", "l", "s", "e">>)
      BY Zenon, <1>6, <3>1, ValueArms DEF v
    <3> QED BY Zenon, <2>3, <2>6, <3>2
  <2>7. CASE word = <<"n", "u", "l", "l">>
    <3>1. b[j] = "n"
      BY <2>4, <2>7
    <3>2. v = Keyword(b, j, <<"n", "u", "l", "l">>)
      BY Zenon, <1>6, <3>1, ValueArms DEF v
    <3> QED BY Zenon, <2>3, <2>7, <3>2
  <2> QED BY <1>8, <2>5, <2>6, <2>7
<1>9. IsString(t, i, e) \/ IsLiteral(t, i, e)
  BY Zenon DEF IsSpan
<1>10. v = f
  BY Zenon, <1>5, <1>7, <1>8, <1>9 DEF IsLiteral
<1> QED BY <1>10 DEF v, j, f

-----------------------------------------------------------------------------
(* The strict scan of a container d, which lies in its text from c up to e.   *)

WhatIn(kind) == IF kind = "array" THEN "elements" ELSE "members"

(* It goes from before an item to the value of the item.                     *)
LEMMA ValueFromFinds ==
    ASSUME NEW b, NEW t, NEW off, Cut(b, t, off), NEW kind \in {"array", "object"},
           NEW q \in Nat, off < q, NEW item, item.key \in Seq(STRING),
           item.start \in Nat, item.end \in Nat, item.end - off <= Len(b) + 1,
           IsSpan(t, item.start, item.end, item.kind), LeadsTo(t, q, item, kind)
    PROVE  LET i == SkipSpaces(b, q - off)
           IN  /\ i \in 1 .. Len(b) /\ b[i] # CloseOf(WhatIn(kind))
               /\ ValueFrom(b, WhatIn(kind), i) = item.start - off
<1> DEFINE i == SkipSpaces(b, q - off)
           start == item.start
           Goal == /\ i \in 1 .. Len(b) /\ b[i] # CloseOf(WhatIn(kind))
                   /\ ValueFrom(b, WhatIn(kind), i) = start - off
<1>1. off \in Nat /\ Len(b) \in Nat
  BY DEF Cut
<1>2. start < item.end /\ t[start] \notin WhiteSpace /\ t[start] \notin Stops
  BY SpanBegins
<1>3. start - off <= Len(b)
  BY <1>1, <1>2
<1> HIDE DEF Goal
<1>4. ASSUME kind = "array" PROVE Goal
  <2>1. Blank(t, q, start)
    BY Zenon, <1>4 DEF LeadsTo
  <2>2. i = start - off /\ i \in 1 .. Len(b) /\ b[i] = t[start]
    BY <1>2, <1>3, <2>1, SpacesInCut
  <2> HIDE DEF i
  <2>3. WhatIn(kind) = "elements" /\ CloseOf(WhatIn(kind)) \in Stops
    BY Zenon, <1>4 DEF WhatIn, CloseOf, Stops
  <2>4. ValueFrom(b, WhatIn(kind), i) = i
    BY Zenon, <2>3 DEF ValueFrom
  <2>5. b[i] # CloseOf(WhatIn(kind))
    BY Zenon, <1>2, <2>2, <2>3
  <2> HIDE DEF start
  <2> QED BY Zenon, <2>2, <2>4, <2>5 DEF Goal
<1>5. ASSUME kind = "object" PROVE Goal
  <2>1. PICK s \in q .. start, m \in q .. start :
          LET e == s + Len(item.key) + 2
          IN  /\ Blank(t, q, s) /\ IsString(t, s, e)
              /\ SubSeq(t, s + 1, e - 2) = item.key
              /\ Blank(t, e, m) /\ t[m] = ":"
              /\ Blank(t, m + 1, start)
    BY Zenon, <1>5 DEF LeadsTo
  <2> DEFINE e == s + Len(item.key) + 2
  <2>2. e \in Nat /\ s \in Nat /\ m \in Nat /\ m + 1 \in Nat
    BY <2>1
  <2>3. /\ Blank(t, q, s) /\ IsString(t, s, e) /\ Blank(t, e, m) /\ t[m] = ":"
        /\ Blank(t, m + 1, start)
    BY <2>1
  <2> HIDE DEF e
  <2>4. s + 1 < e /\ t[s] = QuoteMark
    BY <2>3 DEF IsString
  <2>5. e <= m /\ m + 1 <= start
    BY <2>3 DEF Blank
  <2>6. QuoteMark \notin WhiteSpace /\ ":" \notin WhiteSpace
    BY MarksAreNotBlank
  <2>7. s - off <= Len(b) /\ e - off <= Len(b) + 1 /\ m - off <= Len(b)
    BY <1>1, <1>3, <2>2, <2>4, <2>5
  <2>8. i = s - off /\ i \in 1 .. Len(b) /\ b[i] = QuoteMark
    BY <2>2, <2>3, <2>4, <2>6, <2>7, SpacesInCut
  <2>9. off < s /\ off < e /\ off < m + 1
    BY <1>1, <2>1, <2>2, <2>4, <2>5
  <2>10. ScanString(b, s - off) = e - off
    BY <2>2, <2>3, <2>7, <2>9, StringInCut
  <2>11. /\ SkipSpaces(b, e - off) = m - off
         /\ m - off \in 1 .. Len(b) /\ b[m - off] = ":"
    BY <2>2, <2>3, <2>6, <2>7, <2>9, SpacesInCut
  <2>12. SkipSpaces(b, (m + 1) - off) = start - off
    BY <1>2, <1>3, <2>2, <2>3, <2>9, SpacesInCut
  <2>13. (m - off) + 1 = (m + 1) - off
    BY <1>1, <2>2
  <2>14. e - off # 0 /\ ~ (m - off > Len(b))
    BY <1>1, <2>2, <2>9, <2>11
  <2>15. ValueOfKey(b, s - off) = start - off
    BY <2>10, <2>11, <2>12, <2>13, <2>14 DEF ValueOfKey
  <2>16. WhatIn(kind) = "members" /\ WhatIn(kind) # "elements"
    BY Zenon, <1>5 DEF WhatIn
  <2>17. CloseOf(WhatIn(kind)) # QuoteMark
    BY Zenon, <2>16 DEF CloseOf, QuoteMark
  <2> HIDE DEF i
  <2>18. ValueFrom(b, WhatIn(kind), i) = ValueOfKey(b, i)
    BY Zenon, <2>8, <2>16 DEF ValueFrom
  <2>19. ValueFrom(b, WhatIn(kind), i) = start - off
    BY Zenon, <2>8, <2>15, <2>18
  <2>20. b[i] # CloseOf(WhatIn(kind))
    BY Zenon, <2>8, <2>17
  <2> HIDE DEF start
  <2> QED BY Zenon, <2>8, <2>19, <2>20 DEF Goal
<1> QED BY <1>4, <1>5 DEF Goal

LEMMA ClosesIn ==
    ASSUME NEW kind \in {"array", "object"}
    PROVE  CloseOf(WhatIn(kind)) = Closing(kind) /\ WhatIn(kind) \in {"members", "elements"}
BY Zenon DEF CloseOf, WhatIn, Closing

(* When it finds the ends of the items, it finds the end of d.               *)
LEMMA ContentsFind ==
    ASSUME NEW d, d.text \in Seq(STRING), NEW c, NEW e, Encloses(d, c, e),
           NEW b, NEW off, Cut(b, d.text, off), off < c, e - off <= Len(b) + 1,
           NEW u, Scans(b, u),
           \A k \in 1 .. Len(d.items) :
              ValueSkipped(b, u, d.items[k].start - off) = d.items[k].end - off
    PROVE  \A k \in 1 .. Len(d.items) + 1 : \A q :
              StandsBefore(d, c, e, k, q) => u[<<WhatIn(d.kind), q - off>>] = e - off
<1> DEFINE n == Len(d.items)
           t == d.text
           what == WhatIn(d.kind)
           P == {m \in Nat : \A k \in 1 .. n + 1 : \A q :
                    n + 1 - k <= m /\ StandsBefore(d, c, e, k, q)
                      => u[<<what, q - off>>] = e - off}
<1>1. off \in Nat /\ Len(b) \in Nat
  BY DEF Cut
<1>2. /\ Len(d.items) \in Nat /\ c \in Nat \ {0} /\ e \in Nat
      /\ d.kind \in {"array", "object"} /\ t[e - 1] = Closing(d.kind) /\ c + 1 <= e - 1
  BY FrameInText
<1>3. CloseOf(what) = Closing(d.kind) /\ what \in {"members", "elements"}
  BY <1>2, ClosesIn
<1>4. Closing(d.kind) \notin WhiteSpace /\ Closing(d.kind) # ","
  BY ClosingStops
<1>5. ASSUME NEW q, q \in c + 1 .. e - 1
      PROVE  /\ q \in Nat /\ off < q /\ q - off \in Nat
             /\ u[<<what, q - off>>] = ContentsSkipped(b, what, u, SkipSpaces(b, q - off))
  <2>1. q \in Nat /\ off < q /\ q - off \in Nat
    BY <1>1, <1>2, <1>5
  <2> QED BY <1>3, <2>1 DEF Scans
<1> HIDE DEF what
<1>6. ASSUME NEW q, StandsBefore(d, c, e, n + 1, q)
      PROVE  u[<<what, q - off>>] = e - off
  <2>1. q \in c + 1 .. e - 1 /\ Blank(t, q, e - 1)
    BY <1>6 DEF StandsBefore
  <2> DEFINE i == SkipSpaces(b, q - off)
  <2>2. i = (e - 1) - off /\ i \in 1 .. Len(b) /\ b[i] = t[e - 1]
    <3>1. e - 1 \in Nat /\ (e - 1) - off <= Len(b)
      BY <1>1, <1>2
    <3>2. q \in Nat /\ off < q
      BY <1>5, <2>1
    <3>3. t[e - 1] \notin WhiteSpace
      BY <1>2, <1>4
    <3>4. Blank(t, q, e - 1)
      BY <2>1
    <3> DEFINE r == e - 1
    <3> HIDE DEF r
    <3>5. /\ SkipSpaces(b, q - off) = r - off
          /\ r - off \in 1 .. Len(b) /\ b[r - off] = t[r]
      BY <3>1, <3>2, <3>3, <3>4, SpacesInCut DEF r
    <3> QED BY <3>5 DEF r
  <2> HIDE DEF i
  <2>3. ~ (i > Len(b)) /\ b[i] = CloseOf(what)
    BY <1>1, <1>2, <1>3, <2>2
  <2>4. ContentsSkipped(b, what, u, i) = i + 1
    BY <2>3, ContentsArms
  <2>5. i + 1 = e - off
    BY <1>1, <1>2, <2>2
  <2> QED BY <1>5, <2>1, <2>4, <2>5 DEF i
<1>7. ASSUME NEW k \in 1 .. n, NEW q, StandsBefore(d, c, e, k, q)
      PROVE  \/ k = n /\ u[<<what, q - off>>] = e - off
             \/ k # n /\ \E z : /\ StandsBefore(d, c, e, k + 1, z)
                                /\ u[<<what, q - off>>] = u[<<what, z - off>>]
  <2> DEFINE item == d.items[k]
             i == SkipSpaces(b, q - off)
             next == SkipSpaces(b, item.end - off)
  <2>1. /\ q \in c + 1 .. e - 1 /\ LeadsTo(t, q, item, d.kind)
    BY <1>7 DEF StandsBefore
  <2>2. /\ item.key \in Seq(STRING) /\ item.start \in Nat \ {0} /\ item.end \in Nat
        /\ c + 1 <= item.start /\ item.start < item.end /\ item.end <= e - 1
        /\ IsSpan(t, item.start, item.end, item.kind)
    BY ItemInFrame
  <2>3. PICK z : EndsAt(d, c, e, k, z)
    BY ItemEnds
  <2>4. /\ z \in Nat /\ item.end <= z /\ z <= e - 1
        /\ Blank(t, item.end, z) /\ t[z] \in Stops
        /\ k = n => z = e - 1
        /\ k # n => t[z] = "," /\ StandsBefore(d, c, e, k + 1, z + 1)
    <3>1. z \in item.end .. item.end + d.blanks /\ d.blanks \in Nat
      <4>1. d.blanks \in Nat
        BY FrameInText
      <4> QED BY <2>3, <4>1 DEF EndsAt
    <3>2. z \in Nat /\ item.end <= z
      BY <2>2, <3>1
    <3>3. /\ z <= e - 1 /\ Blank(t, item.end, z) /\ t[z] \in Stops
          /\ IF k = n THEN z = e - 1
             ELSE t[z] = "," /\ StandsBefore(d, c, e, k + 1, z + 1)
      BY Zenon, <2>3 DEF EndsAt
    <3> QED BY Zenon, <3>2, <3>3
  <2>5. ValueSkipped(b, u, item.start - off) = item.end - off
    OBVIOUS
  <2> HIDE DEF item
  <2>6. item.end - off <= Len(b) + 1 /\ z - off <= Len(b) /\ off < item.end
    <3> DEFINE len == Len(b)
               a == item.start
               y == item.end
    <3>1. /\ off \in Nat /\ len \in Nat /\ c \in Nat /\ e \in Nat /\ z \in Nat
          /\ a \in Nat /\ y \in Nat /\ c + 1 <= a /\ a < y /\ y <= z /\ z <= e - 1
          /\ off < c /\ e - off <= len + 1
      BY <1>1, <1>2, <2>2, <2>4
    <3> HIDE DEF len, a, y
    <3>2. y - off <= len + 1 /\ z - off <= len /\ off < y
      BY <3>1
    <3> QED BY <3>2 DEF len, y
  <2>7. /\ i \in 1 .. Len(b) /\ b[i] # CloseOf(what)
        /\ ValueFrom(b, what, i) = item.start - off
    <3>1. q \in Nat /\ off < q /\ d.kind \in {"array", "object"}
      BY <1>2, <1>5, <2>1
    <3>2. LET j == SkipSpaces(b, q - off)
          IN  /\ j \in 1 .. Len(b) /\ b[j] # CloseOf(WhatIn(d.kind))
              /\ ValueFrom(b, WhatIn(d.kind), j) = item.start - off
      BY <2>1, <2>2, <2>6, <3>1, ValueFromFinds
    <3> QED BY <3>2 DEF what
  <2>8. t[z] \notin WhiteSpace
    BY <2>4, MarksAreNotBlank
  <2>9. next = z - off /\ next \in 1 .. Len(b) /\ b[next] = t[z]
    <3> DEFINE y == item.end
    <3>1. y \in Nat /\ off < y /\ Blank(t, y, z) /\ z \in Nat /\ z - off <= Len(b)
      BY <2>2, <2>4, <2>6
    <3> HIDE DEF y
    <3>2. /\ SkipSpaces(b, y - off) = z - off
          /\ z - off \in 1 .. Len(b) /\ b[z - off] = t[z]
      BY <2>8, <3>1, SpacesInCut
    <3> QED BY <3>2 DEF y
  <2> HIDE DEF i
  <2>10. item.start - off # 0 /\ item.end - off # 0 /\ ~ (next > Len(b)) /\ ~ (i > Len(b))
    <3>1. item.start - off # 0 /\ item.end - off # 0
      BY <1>1, <1>2, <2>2
    <3> HIDE DEF next
    <3> QED BY <1>1, <2>7, <2>9, <3>1
  <2>11. EndFrom(b, what, u, i) = item.end - off
    BY <2>5, <2>7, <2>10 DEF EndFrom
  <2>12. ContentsSkipped(b, what, u, i) =
           IF b[next] = "," THEN u[<<what, next + 1>>]
           ELSE IF b[next] = CloseOf(what) THEN next + 1 ELSE 0
    <3>1. LET end == EndFrom(b, what, u, i)
              nxt == SkipSpaces(b, end)
          IN  ContentsSkipped(b, what, u, i) =
                 IF i > Len(b) THEN 0
                 ELSE IF b[i] = CloseOf(what) THEN i + 1
                 ELSE IF end = 0 \/ nxt > Len(b) THEN 0
                 ELSE IF b[nxt] = "," THEN u[<<what, nxt + 1>>]
                 ELSE IF b[nxt] = CloseOf(what) THEN nxt + 1 ELSE 0
      BY ContentsArms
    <3> QED BY <2>7, <2>10, <2>11, <3>1
  <2> HIDE DEF next
  <2>13. u[<<what, q - off>>] = ContentsSkipped(b, what, u, i)
    BY <1>5, <2>1 DEF i
  <2>14. CASE k = n
    <3>1. b[next] = CloseOf(what) /\ b[next] # ","
      BY <1>2, <1>3, <1>4, <2>4, <2>9, <2>14
    <3>2. next + 1 = e - off
      BY <1>1, <1>2, <2>4, <2>9, <2>14
    <3> QED BY <2>12, <2>13, <2>14, <3>1, <3>2
  <2>15. CASE k # n
    <3>1. StandsBefore(d, c, e, k + 1, z + 1) /\ b[next] = ","
      BY <2>4, <2>9, <2>15
    <3>2. next + 1 = (z + 1) - off
      <4>1. z \in Nat /\ off \in Nat
        BY <1>1, <2>4
      <4>2. next = z - off
        BY <2>9
      <4> QED BY <4>1, <4>2
    <3>3. u[<<what, q - off>>] = u[<<what, (z + 1) - off>>]
      BY <2>12, <2>13, <3>1, <3>2
    <3> QED BY <2>15, <3>1, <3>3
  <2> QED BY <2>14, <2>15
<1>8. 0 \in P
  <2> SUFFICES ASSUME NEW k \in 1 .. n + 1, NEW q, n + 1 - k <= 0,
                      StandsBefore(d, c, e, k, q)
               PROVE  u[<<what, q - off>>] = e - off
    OBVIOUS
  <2>1. k = n + 1
    BY <1>2
  <2> QED BY <1>6, <2>1
<1>9. ASSUME NEW m \in Nat, m \in P
      PROVE  m + 1 \in P
  <2> SUFFICES ASSUME NEW k \in 1 .. n + 1, NEW q, n + 1 - k <= m + 1,
                      StandsBefore(d, c, e, k, q)
               PROVE  u[<<what, q - off>>] = e - off
    OBVIOUS
  <2>1. CASE k = n + 1
    BY <1>6, <2>1
  <2>2. CASE k = n
    <3>1. k \in 1 .. n
      BY <1>2, <2>2
    <3> QED BY <1>7, <2>2, <3>1
  <2>3. CASE k # n /\ k # n + 1
    <3>1. k \in 1 .. n /\ k + 1 \in 1 .. n + 1 /\ n + 1 - (k + 1) <= m
      <4>1. n \in Nat
        BY <1>2
      <4> HIDE DEF n
      <4> QED BY <2>3, <4>1
    <3>2. PICK z : /\ StandsBefore(d, c, e, k + 1, z)
                   /\ u[<<what, q - off>>] = u[<<what, z - off>>]
      BY <1>7, <2>3, <3>1
    <3>3. u[<<what, z - off>>] = e - off
      BY <1>9, <3>1, <3>2
    <3> QED BY <3>2, <3>3
  <2> QED BY <2>1, <2>2, <2>3
<1> HIDE DEF P
<1>10. n + 1 \in Nat /\ n + 1 \in P
  <2>1. n + 1 \in Nat
    BY <1>2
  <2> QED BY <1>8, <1>9, <2>1, Induction
<1>11. \A k \in 1 .. n + 1 : n + 1 - k <= n + 1
  BY <1>2
<1> QED BY <1>10, <1>11 DEF P, what

(* So it goes over the container.                                            *)
LEMMA ContainerSkipped ==
    ASSUME NEW d, d.text \in Seq(STRING), NEW c, NEW e, Encloses(d, c, e),
           NEW b, NEW off, Cut(b, d.text, off), off < c, e - off <= Len(b) + 1,
           NEW u, Scans(b, u),
           \A k \in 1 .. Len(d.items) :
              ValueSkipped(b, u, d.items[k].start - off) = d.items[k].end - off
    PROVE  ValueSkipped(b, u, c - off) = e - off
<1> DEFINE i == c - off
           t == d.text
           what == WhatIn(d.kind)
           v == ValueSkipped(b, u, i)
<1>1. off \in Nat /\ Len(b) \in Nat /\ \A k \in 1 .. Len(b) : b[k] = t[k + off]
  BY DEF Cut
<1>2. /\ Len(d.items) \in Nat /\ c \in Nat \ {0} /\ e \in Nat /\ c + 1 <= e - 1
      /\ d.kind \in {"array", "object"} /\ IsSpan(t, c, e, d.kind)
  BY FrameInText
<1>3. u[<<what, (c + 1) - off>>] = e - off
  <2>1. 1 \in 1 .. Len(d.items) + 1
    BY <1>2
  <2>2. StandsBefore(d, c, e, 1, c + 1)
    BY StandsBeforeFirst
  <2> QED BY <2>1, <2>2, ContentsFind
<1>4. (c + 1) - off = i + 1 /\ i \in 1 .. Len(b) /\ i + off = c
  BY <1>1, <1>2
<1>5. b[i] = t[c] /\ ~ (i > Len(b))
  BY <1>1, <1>4
<1>6. u[<<what, i + 1>>] = e - off
  BY <1>3, <1>4
<1> HIDE DEF i
<1> HIDE DEF v
<1>7. CASE d.kind = "array"
  <2>1. b[i] = "["
    BY Zenon, <1>2, <1>5, <1>7 DEF IsSpan, IsFrame
  <2>2. v = u[<<"elements", i + 1>>]
    BY Zenon, <1>5, <2>1 DEF v, ValueSkipped, QuoteMark
  <2>3. what = "elements"
    BY <1>7 DEF WhatIn
  <2>4. v = e - off
    BY <1>6, <2>2, <2>3
  <2> QED BY <2>4 DEF v, i
<1>8. CASE d.kind = "object"
  <2>1. b[i] = "{"
    BY Zenon, <1>2, <1>5, <1>8 DEF IsSpan, IsFrame
  <2>2. v = u[<<"members", i + 1>>]
    BY Zenon, <1>5, <2>1 DEF v, ValueSkipped, QuoteMark
  <2>3. what = "members"
    BY <1>8 DEF WhatIn
  <2>4. v = e - off
    BY <1>6, <2>2, <2>3
  <2> QED BY <2>4 DEF v, i
<1> QED BY <1>2, <1>7, <1>8

(* White space and marks are no part of a number.                            *)
LEMMA MarksAreNoNumber == \A c \in WhiteSpace \cup Stops : c \notin NumberChars
BY Zenon DEF WhiteSpace, Stops, NumberChars, Digits

(* No character of a number stands behind an item.                           *)
LEMMA ItemStops ==
    ASSUME NEW d, d.text \in Seq(STRING), NEW c, NEW e, Encloses(d, c, e),
           NEW b, NEW off, Cut(b, d.text, off), off < c, e - off <= Len(b) + 1,
           NEW k \in 1 .. Len(d.items)
    PROVE  NumberStops(b, d.items[k].end - off)
<1> DEFINE t == d.text
           y == d.items[k].end
           f == y - off
<1>1. off \in Nat /\ Len(b) \in Nat /\ \A j \in 1 .. Len(b) : b[j] = t[j + off]
  BY DEF Cut
<1>2. c \in Nat /\ y \in Nat /\ c + 1 <= y
  <2>1. c \in Nat
    BY FrameInText
  <2>2. d.items[k].start \in Nat /\ y \in Nat /\ c + 1 <= d.items[k].start
        /\ d.items[k].start < y
    BY ItemInFrame
  <2> QED BY <2>1, <2>2
<1>3. PICK z : EndsAt(d, c, e, k, z)
  BY ItemEnds
<1>4. /\ z \in y .. y + d.blanks /\ d.blanks \in Nat
      /\ Blank(t, y, z) /\ t[z] \in Stops
  <2>1. d.blanks \in Nat
    BY FrameInText
  <2> QED BY <1>3, <2>1 DEF EndsAt
<1> HIDE DEF y
<1>5. t[y] \in WhiteSpace \cup Stops
  <2>1. CASE z = y
    BY <1>4, <2>1
  <2>2. CASE z # y
    <3>1. y \in y .. z - 1
      BY <1>2, <1>4, <2>2
    <3>2. t[y] \in WhiteSpace
      BY <1>4, <3>1 DEF Blank
    <3> QED BY <3>2
  <2> QED BY <2>1, <2>2
<1>6. ASSUME f <= Len(b)
      PROVE  b[f] \notin NumberChars
  <2>1. f \in 1 .. Len(b) /\ f + off = y
    BY <1>1, <1>2, <1>6
  <2> HIDE DEF f
  <2>2. b[f] = t[y]
    BY <1>1, <2>1
  <2> QED BY <1>5, <2>2, MarksAreNoNumber
<1>7. NumberStops(b, f)
  BY <1>6 DEF NumberStops
<1> QED BY <1>7 DEF y

-----------------------------------------------------------------------------
(* The scan of an object for a top key (TopKeys).                            *)

(* The lesser of two numbers.                                                *)
LEMMA LeastOfTwo ==
    ASSUME NEW m \in Nat, NEW n \in Nat
    PROVE  Min({m, n}) = IF m <= n THEN m ELSE n
<1> DEFINE least == IF m <= n THEN m ELSE n
<1>1. least \in {m, n} /\ \A x \in {m, n} : least <= x
  OBVIOUS
<1>2. \A x \in {m, n} : (\A y \in {m, n} : x <= y) => x = least
  OBVIOUS
<1> HIDE DEF least
<1>3. Min({m, n}) = least
  BY <1>1, <1>2 DEF Min
<1> QED BY <1>3 DEF least

(* A string ends where the scan of it does, or at the end of the text.        *)
LEMMA PastStringMoves ==
    ASSUME NEW b, Len(b) \in Nat, NEW i \in Nat, i <= Len(b) + 1
    PROVE  PastString(b, i) \in Nat /\ PastString(b, i) >= i /\ PastString(b, i) <= Len(b) + 1
<1> DEFINE e == StringEnd(b, i)
<1>1. e \in Nat /\ e >= i
  BY StringEndMoves
<1>2. PastString(b, i) = Min({e, Len(b) + 1}) /\ Len(b) + 1 \in Nat
  BY DEF PastString
<1> HIDE DEF e
<1>3. PastString(b, i) = IF e <= Len(b) + 1 THEN e ELSE Len(b) + 1
  BY <1>1, <1>2, LeastOfTwo
<1> QED BY <1>1, <1>3

(* It is the end of a string that is one.                                    *)
LEMMA PastStringFinds ==
    ASSUME NEW b, Len(b) \in Nat, NEW i \in Nat, NEW e \in Nat,
           IsString(b, i, e), e <= Len(b) + 1
    PROVE  PastString(b, i + 1) = e
<1>1. StringEnd(b, i + 1) = e
  BY StringEndFinds
<1>2. Min({e, Len(b) + 1}) = e
  BY LeastOfTwo
<1> QED BY <1>1, <1>2 DEF PastString

Openings == {"{", "["}
Closings == {"}", "]"}

(* One step of SkipToNext, at s: a position and the depth before it.          *)
SkipsAt(b, u, s) ==
    u[s] = IF s[1] > Len(b) THEN s[1]
           ELSE IF b[s[1]] = QuoteMark THEN u[<<PastString(b, s[1] + 1), s[2]>>]
           ELSE IF b[s[1]] \in Openings THEN u[<<s[1] + 1, s[2] + 1>>]
           ELSE IF b[s[1]] \in {",", "}"} /\ s[2] = 0 THEN s[1] + 1
           ELSE IF b[s[1]] \in Closings /\ s[2] > 0 THEN u[<<s[1] + 1, s[2] - 1>>]
           ELSE u[<<s[1] + 1, s[2]>>]

(* SkipToNext, step by step.                                                 *)
LEMMA SkipToNextUnfolds ==
    ASSUME NEW b, Len(b) \in Nat
    PROVE  \E u : /\ \A i : SkipToNext(b, i) = u[<<i, 0>>]
                  /\ \A s \in Nat \X Nat : SkipsAt(b, u, s)
<1> DEFINE n == Len(b)
           S == Nat \X Nat
           pos == [s \in S |-> s[1]]
           stops(s) == b[s[1]] \in {",", "}"} /\ s[2] = 0
           Ends == {s \in S : s[1] > n \/ stops(s)}
           val == [s \in S |-> IF s[1] > n THEN s[1] ELSE s[1] + 1]
           go(s) == IF b[s[1]] = QuoteMark THEN <<PastString(b, s[1] + 1), s[2]>>
                    ELSE IF b[s[1]] \in Openings THEN <<s[1] + 1, s[2] + 1>>
                    ELSE IF b[s[1]] \in Closings /\ s[2] > 0 THEN <<s[1] + 1, s[2] - 1>>
                    ELSE <<s[1] + 1, s[2]>>
           on(s) == <<s[1] + 1, s[2]>>
           next == [s \in S |-> IF s \in Ends THEN on(s) ELSE go(s)]
           rhs(w, s) == IF s[1] > Len(b) THEN s[1]
                        ELSE CASE b[s[1]] = QuoteMark -> w[<<PastString(b, s[1] + 1), s[2]>>]
                               [] b[s[1]] \in {"{", "["} -> w[<<s[1] + 1, s[2] + 1>>]
                               [] b[s[1]] \in {",", "}"} /\ s[2] = 0 -> s[1] + 1
                               [] b[s[1]] \in {"}", "]"} /\ s[2] > 0 -> w[<<s[1] + 1, s[2] - 1>>]
                               [] OTHER -> w[<<s[1] + 1, s[2]>>]
           Eq(w) == w = [s \in S |-> rhs(w, s)]
           u == CHOOSE x : Eq(x)
<1>1. \A s \in S : ~ (s[1] > n) => /\ PastString(b, s[1] + 1) \in Nat
                                   /\ PastString(b, s[1] + 1) >= s[1] + 1
  BY PastStringMoves
<1>2. /\ QuoteMark \notin Openings /\ QuoteMark \notin Closings /\ QuoteMark \notin {",", "}"}
      /\ \A c \in Openings : c \notin Closings /\ c \notin {",", "}"}
  BY Zenon DEF QuoteMark, Openings, Closings
<1>3. IsWalk(S, n, pos, Ends, next, val)
  <2>1. \A s \in S : s[1] > n \/ (go(s) \in S /\ go(s)[1] > s[1])
    BY <1>1
  <2>2. \A s \in S : next[s] \in S /\ next[s][1] > s[1]
    <3>1. \A s \in S : /\ s[1] > n => s \in Ends
                       /\ next[s] = IF s \in Ends THEN on(s) ELSE go(s)
      OBVIOUS
    <3>2. \A s \in S : on(s) \in S /\ on(s)[1] > s[1]
      OBVIOUS
    <3> HIDE DEF go, on, next, Ends, S, n
    <3> QED BY <2>1, <3>1, <3>2
  <2>3. next \in [S -> S]
    <3> HIDE DEF go
    <3> QED BY <2>2
  <2>4. \A s \in S : pos[s] = s[1]
    OBVIOUS
  <2>5. val \in [S -> Nat] /\ pos \in [S -> Nat]
    OBVIOUS
  <2> HIDE DEF next, pos, val, Ends
  <2>6. \A s \in S : pos[next[s]] > pos[s]
    BY <2>2, <2>4
  <2>7. \A s \in S : pos[s] > n => s \in Ends
    BY <2>4 DEF Ends
  <2>8. n \in Nat /\ Ends \in SUBSET S
    BY DEF Ends
  <2> HIDE DEF S, n
  <2> QED BY <2>3, <2>5, <2>6, <2>7, <2>8 DEF IsWalk, Moves
<1>4. ASSUME NEW w, NEW s \in S
      PROVE  /\ rhs(w, s) = IF s \in Ends THEN val[s] ELSE w[next[s]]
             /\ w[s] = rhs(w, s) => SkipsAt(b, w, s)
  <2> DEFINE c == b[s[1]]
  <2>0. s \in Ends <=> s[1] > n \/ stops(s)
    OBVIOUS
  <2>1. CASE s[1] > n
    BY <2>1 DEF SkipsAt
  <2>2. CASE ~ (s[1] > n) /\ c = QuoteMark
    <3>1. ~ stops(s) /\ go(s) = <<PastString(b, s[1] + 1), s[2]>>
      BY <1>2, <2>2
    <3>2. next[s] = <<PastString(b, s[1] + 1), s[2]>> /\ s \notin Ends
      BY <2>0, <2>2, <3>1
    <3>3. rhs(w, s) = w[<<PastString(b, s[1] + 1), s[2]>>]
      BY <1>2, <2>2 DEF Openings, Closings
    <3> QED BY <2>2, <3>2, <3>3 DEF SkipsAt
  <2>3. CASE ~ (s[1] > n) /\ c \in Openings
    <3>1. ~ stops(s) /\ go(s) = <<s[1] + 1, s[2] + 1>> /\ c # QuoteMark
      BY <1>2, <2>3
    <3>2. next[s] = <<s[1] + 1, s[2] + 1>> /\ s \notin Ends
      BY <2>0, <2>3, <3>1
    <3>3. rhs(w, s) = w[<<s[1] + 1, s[2] + 1>>]
      BY <1>2, <2>3, <3>1 DEF Openings, Closings
    <3> QED BY <2>3, <3>1, <3>2, <3>3 DEF SkipsAt
  <2>4. CASE ~ (s[1] > n) /\ c # QuoteMark /\ c \notin Openings /\ stops(s)
    <3>1. s \in Ends /\ val[s] = s[1] + 1
      BY <2>4
    <3>2. rhs(w, s) = s[1] + 1
      <4>1. ~ (s[1] > Len(b)) /\ c \in {",", "}"} /\ s[2] = 0 /\ ~ (s[2] > 0)
        <5>1. ~ (s[1] > Len(b)) /\ c \in {",", "}"} /\ s[2] = 0
          BY Zenon, <2>4
        <5>2. ~ (s[2] > 0)
          <6> DEFINE depth == s[2]
          <6>1. depth = 0
            BY Zenon, <5>1
          <6> HIDE DEF depth
          <6>2. ~ (depth > 0)
            BY <6>1
          <6> QED BY <6>2 DEF depth
        <5> QED BY Zenon, <5>1, <5>2
      <4>2. c # QuoteMark /\ c \notin {"{", "["}
        BY <2>4 DEF Openings
      <4> HIDE DEF c
      <4>3. rhs(w, s) = s[1] + 1
        BY <4>1, <4>2 DEF c
      <4> QED BY <4>3
    <3> QED BY <2>4, <3>1, <3>2 DEF SkipsAt
  <2>5. CASE ~ (s[1] > n) /\ c # QuoteMark /\ c \notin Openings /\ ~ stops(s)
    <3>1. CASE c \in Closings /\ s[2] > 0
      <4>1. next[s] = <<s[1] + 1, s[2] - 1>> /\ s \notin Ends
        BY <2>0, <2>5, <3>1
      <4>2. rhs(w, s) = w[<<s[1] + 1, s[2] - 1>>]
        BY <2>5, <3>1 DEF Openings, Closings
      <4> QED BY <2>5, <3>1, <4>1, <4>2 DEF SkipsAt
    <3>2. CASE ~ (c \in Closings /\ s[2] > 0)
      <4>1. next[s] = <<s[1] + 1, s[2]>> /\ s \notin Ends
        BY <2>0, <2>5, <3>2
      <4>2. rhs(w, s) = w[<<s[1] + 1, s[2]>>]
        BY <2>5, <3>2 DEF Openings, Closings
      <4> QED BY <2>5, <3>2, <4>1, <4>2 DEF SkipsAt
    <3> QED BY <3>1, <3>2
  <2> QED BY <2>1, <2>2, <2>3, <2>4, <2>5
<1>5. \A i : SkipToNext(b, i) = u[<<i, 0>>]
  BY DEF SkipToNext
<1> HIDE DEF pos, Ends, next, val, rhs, n, S
<1>6. \E w \in [S -> Nat] : Walks(w, S, Ends, next, val)
  BY <1>3, WalkExists
<1>7. Eq(u)
  <2>1. \A w \in [S -> Nat] : Walks(w, S, Ends, next, val) => Eq(w)
    BY <1>4 DEF Walks
  <2> HIDE DEF Eq
  <2> QED BY <1>6, <2>1
<1> HIDE DEF u
<1>8. \A s \in S : SkipsAt(b, u, s)
  BY <1>4, <1>7
<1> QED BY <1>5, <1>8 DEF S

(* Characters that SkipToNext steps over, whatever the depth.                 *)
Plain(b, i, j) ==
    /\ i <= j
    /\ \A k \in i .. j - 1 : b[k] \notin Stops /\ b[k] \notin {"{", "[", QuoteMark}

(* From i and from j, at the same depth, u ends at the same position.         *)
SameFrom(u, i, j) == \A depth \in Nat : u[<<i, depth>>] = u[<<j, depth>>]

(* The same, but one bracket further in, one further out, and inside of one.   *)
Opened(u, i, j) == \A depth \in Nat : u[<<i, depth>>] = u[<<j, depth + 1>>]
Closed(u, i, j) == \A depth \in Nat : u[<<i, depth + 1>>] = u[<<j, depth>>]
SameInside(u, i, j) == \A depth \in Nat : u[<<i, depth + 1>>] = u[<<j, depth + 1>>]

(* What SkipToNext does at a character.                                      *)
LEMMA SkipSteps ==
    ASSUME NEW b, Len(b) \in Nat, NEW u, \A s \in Nat \X Nat : SkipsAt(b, u, s),
           NEW i \in Nat, i <= Len(b)
    PROVE  /\ b[i] = QuoteMark => SameFrom(u, i, PastString(b, i + 1))
           /\ b[i] \notin Stops /\ b[i] \notin {"{", "[", QuoteMark} => SameFrom(u, i, i + 1)
           /\ b[i] \in Openings => Opened(u, i, i + 1)
           /\ b[i] \in Closings => Closed(u, i, i + 1)
           /\ b[i] = "," => SameInside(u, i, i + 1)
           /\ b[i] \in {",", "}"} => u[<<i, 0>>] = i + 1
<1>1. ASSUME NEW depth \in Nat
      PROVE  LET c == b[i]
             IN  u[<<i, depth>>] =
                   IF c = QuoteMark THEN u[<<PastString(b, i + 1), depth>>]
                   ELSE IF c \in Openings THEN u[<<i + 1, depth + 1>>]
                   ELSE IF c \in {",", "}"} /\ depth = 0 THEN i + 1
                   ELSE IF c \in Closings /\ depth > 0 THEN u[<<i + 1, depth - 1>>]
                   ELSE u[<<i + 1, depth>>]
  <2> DEFINE s == <<i, depth>>
  <2>1. s \in Nat \X Nat /\ s[1] = i /\ s[2] = depth
    OBVIOUS
  <2> HIDE DEF s
  <2>2. SkipsAt(b, u, s)
    BY <2>1
  <2>3. ~ (s[1] > Len(b))
    BY <2>1
  <2> QED BY <2>1, <2>2, <2>3 DEF SkipsAt, s
<1> DEFINE c == b[i]
<1>2. /\ QuoteMark \notin Openings /\ QuoteMark \notin Closings /\ QuoteMark \notin {",", "}"}
      /\ \A x \in Openings : x \notin Closings /\ x \notin {",", "}"}
      /\ "," \notin Closings
      /\ \A x : x \notin Stops => x \notin Closings /\ x \notin {",", "}"}
      /\ \A x : x \notin {"{", "[", QuoteMark} => x # QuoteMark /\ x \notin Openings
  BY Zenon DEF QuoteMark, Openings, Closings, Stops
<1> HIDE DEF c
<1>3. c = QuoteMark => SameFrom(u, i, PastString(b, i + 1))
  BY <1>1 DEF c, SameFrom
<1>4. c \notin Stops /\ c \notin {"{", "[", QuoteMark} => SameFrom(u, i, i + 1)
  <2> SUFFICES ASSUME c \notin Stops, c \notin {"{", "[", QuoteMark}, NEW depth \in Nat
               PROVE  u[<<i, depth>>] = u[<<i + 1, depth>>]
    BY Zenon DEF SameFrom
  <2>1. c # QuoteMark /\ c \notin Openings /\ c \notin Closings /\ c \notin {",", "}"}
    BY Zenon, <1>2
  <2> QED BY Zenon, <1>1, <2>1 DEF c
<1>5. c \in Openings => Opened(u, i, i + 1)
  BY <1>1, <1>2 DEF c, Opened
<1>6. ASSUME NEW depth \in Nat
      PROVE  depth + 1 \in Nat /\ depth + 1 # 0 /\ depth + 1 > 0 /\ (depth + 1) - 1 = depth
  OBVIOUS
<1>7. c \in Closings => Closed(u, i, i + 1)
  <2> SUFFICES ASSUME c \in Closings, NEW depth \in Nat
               PROVE  u[<<i, depth + 1>>] = u[<<i + 1, depth>>]
    BY Zenon DEF Closed
  <2>1. c # QuoteMark /\ c \notin Openings
    BY Zenon, <1>2
  <2> DEFINE deep == depth + 1
  <2>2. deep \in Nat /\ deep # 0 /\ deep > 0 /\ deep - 1 = depth
    BY <1>6
  <2> HIDE DEF deep
  <2>3. u[<<i, deep>>] = u[<<i + 1, depth>>]
    BY Zenon, <1>1, <2>1, <2>2 DEF c
  <2> QED BY Zenon, <2>3 DEF deep
<1>8. c = "," => SameInside(u, i, i + 1)
  <2> SUFFICES ASSUME c = ",", NEW depth \in Nat
               PROVE  u[<<i, depth + 1>>] = u[<<i + 1, depth + 1>>]
    BY Zenon DEF SameInside
  <2>1. c # QuoteMark /\ c \notin Openings /\ c \notin Closings
    BY Zenon, <1>2
  <2> DEFINE deep == depth + 1
  <2>2. deep \in Nat /\ deep # 0
    BY <1>6
  <2> HIDE DEF deep
  <2>3. u[<<i, deep>>] = u[<<i + 1, deep>>]
    BY Zenon, <1>1, <2>1, <2>2 DEF c
  <2> QED BY Zenon, <2>3 DEF deep
<1>9. c \in {",", "}"} => u[<<i, 0>>] = i + 1
  <2> SUFFICES ASSUME c \in {",", "}"} PROVE u[<<i, 0>>] = i + 1
    BY Zenon
  <2>1. c # QuoteMark /\ c \notin Openings /\ 0 \in Nat
    BY <1>2
  <2> QED BY Zenon, <1>1, <2>1 DEF c
<1> QED BY Zenon, <1>3, <1>4, <1>5, <1>7, <1>8, <1>9 DEF c

(* It goes over plain characters and over strings at any depth.               *)
LEMMA PlainSkipped ==
    ASSUME NEW b, Len(b) \in Nat, NEW u, \A s \in Nat \X Nat : SkipsAt(b, u, s),
           NEW i \in Nat, NEW j \in Nat, Plain(b, i, j), j <= Len(b) + 1
    PROVE  SameFrom(u, i, j)
<1> DEFINE P == {m \in Nat : m + i <= j => SameFrom(u, i, i + m)}
<1>1. 0 \in P
  BY DEF SameFrom
<1>2. ASSUME NEW m \in Nat, m \in P
      PROVE  m + 1 \in P
  <2> SUFFICES ASSUME m + 1 + i <= j
               PROVE  SameFrom(u, i, i + (m + 1))
    OBVIOUS
  <2> DEFINE k == i + m
  <2>1. k \in Nat /\ k <= Len(b) /\ k \in i .. j - 1 /\ k + 1 = i + (m + 1)
    OBVIOUS
  <2>2. SameFrom(u, i, k)
    BY <1>2
  <2> HIDE DEF k
  <2>3. b[k] \notin Stops /\ b[k] \notin {"{", "[", QuoteMark}
    BY Zenon, <2>1 DEF Plain
  <2>4. SameFrom(u, k, k + 1)
    BY Zenon, <2>1, <2>3, SkipSteps
  <2>5. SameFrom(u, i, k + 1)
    BY Zenon, <2>2, <2>4 DEF SameFrom
  <2> QED BY <2>1, <2>5
<1> HIDE DEF P
<1>3. \A m \in Nat : m \in P
  BY <1>1, <1>2, Induction
<1>4. j - i \in Nat /\ (j - i) + i <= j /\ i + (j - i) = j
  <2>1. i <= j
    BY Zenon DEF Plain
  <2> QED BY <2>1
<1>5. SameFrom(u, i, i + (j - i))
  BY <1>3, <1>4 DEF P
<1> QED BY <1>4, <1>5

LEMMA StringSkipped ==
    ASSUME NEW b, Len(b) \in Nat, NEW u, \A s \in Nat \X Nat : SkipsAt(b, u, s),
           NEW i \in Nat, NEW e \in Nat, IsString(b, i, e), e <= Len(b) + 1
    PROVE  SameFrom(u, i, e)
<1>1. i <= Len(b) /\ b[i] = QuoteMark
  <2>1. i + 1 < e /\ b[i] = QuoteMark
    BY DEF IsString
  <2> QED BY <2>1
<1>2. PastString(b, i + 1) = e
  BY PastStringFinds
<1>3. SameFrom(u, i, PastString(b, i + 1))
  BY Zenon, <1>1, SkipSteps
<1> QED BY <1>2, <1>3

(* White space is plain, and so is a literal.                                *)
LEMMA PlainText ==
    ASSUME NEW b, NEW i \in Nat, NEW j \in Nat
    PROVE  /\ Blank(b, i, j) => Plain(b, i, j)
           /\ IsLiteral(b, i, j) => Plain(b, i, j)
           /\ b[i] = ":" => Plain(b, i, i + 1)
<1>1. Blank(b, i, j) => Plain(b, i, j)
  <2>1. \A c \in WhiteSpace : c \notin Stops /\ c \notin {"{", "[", QuoteMark}
    BY Zenon, MarksAreNotBlank
  <2> QED BY Zenon, <2>1 DEF Blank, Plain
<1>2. IsLiteral(b, i, j) => Plain(b, i, j)
  <2> SUFFICES ASSUME IsLiteral(b, i, j) PROVE Plain(b, i, j)
    OBVIOUS
  <2>1. /\ i < j
        /\ \A k \in i .. j - 1 : b[k] \notin Stops /\ b[k] \notin {"{", "[", QuoteMark}
    BY Zenon, LiteralChars
  <2>2. i <= j
    <3>1. i < j
      BY Zenon, <2>1
    <3> QED BY <3>1
  <2> QED BY Zenon, <2>1, <2>2 DEF Plain
<1>3. b[i] = ":" => Plain(b, i, i + 1)
  <2>1. ":" \notin Stops /\ ":" \notin {"{", "[", QuoteMark}
    BY Zenon DEF Stops, QuoteMark
  <2>2. i <= i + 1 /\ \A k \in i .. (i + 1) - 1 : k = i
    OBVIOUS
  <2> QED BY Zenon, <2>1, <2>2 DEF Plain
<1> QED BY <1>1, <1>2, <1>3

(* What leads to the value of an item is gone over at any depth.             *)
LEMMA LedSkipped ==
    ASSUME NEW b \in Seq(STRING), NEW u, \A s \in Nat \X Nat : SkipsAt(b, u, s),
           NEW q \in Nat, NEW item, item.key \in Seq(STRING),
           item.start \in Nat, item.start <= Len(b) + 1,
           NEW kind, LeadsTo(b, q, item, kind)
    PROVE  SameFrom(u, q, item.start)
<1>1. Len(b) \in Nat /\ Len(item.key) \in Nat
  OBVIOUS
<1>2. CASE Blank(b, q, item.start)
  BY Zenon, <1>1, <1>2, PlainText, PlainSkipped
<1>3. ASSUME NEW s \in q .. item.start, NEW m \in q .. item.start,
             LET e == s + Len(item.key) + 2
             IN  /\ Blank(b, q, s) /\ IsString(b, s, e)
                 /\ Blank(b, e, m) /\ b[m] = ":"
                 /\ Blank(b, m + 1, item.start)
      PROVE  SameFrom(u, q, item.start)
  <2> DEFINE e == s + Len(item.key) + 2
  <2>1. s \in Nat /\ m \in Nat /\ e \in Nat /\ m + 1 \in Nat
    BY <1>1
  <2> HIDE DEF e
  <2>2. /\ Blank(b, q, s) /\ IsString(b, s, e)
        /\ Blank(b, e, m) /\ b[m] = ":"
        /\ Blank(b, m + 1, item.start)
    BY Zenon, <1>3 DEF e
  <2>3. e <= m /\ m + 1 <= item.start
    BY Zenon, <2>2 DEF Blank
  <2>4. e <= Len(b) + 1 /\ m <= Len(b) + 1 /\ m + 1 <= Len(b) + 1 /\ s <= Len(b) + 1
    BY <1>1, <2>1, <2>3
  <2>5. SameFrom(u, q, s)
    BY Zenon, <1>1, <2>1, <2>2, <2>4, PlainText, PlainSkipped
  <2>6. SameFrom(u, s, e)
    BY Zenon, <1>1, <2>1, <2>2, <2>4, StringSkipped
  <2>7. SameFrom(u, e, m)
    BY Zenon, <1>1, <2>1, <2>2, <2>4, PlainText, PlainSkipped
  <2>8. SameFrom(u, m, m + 1)
    BY Zenon, <1>1, <2>1, <2>2, <2>4, PlainText, PlainSkipped
  <2>9. SameFrom(u, m + 1, item.start)
    BY Zenon, <1>1, <2>1, <2>2, PlainText, PlainSkipped
  <2> QED BY Zenon, <2>5, <2>6, <2>7, <2>8, <2>9 DEF SameFrom
<1> QED BY Zenon, <1>2, <1>3 DEF LeadsTo

(* When it goes over the items, it goes over what is left of a container, up   *)
(* to behind its close.                                                      *)
LEMMA ItemsSkipped ==
    ASSUME NEW d, d.text \in Seq(STRING), NEW c, NEW e, Encloses(d, c, e),
           NEW u, \A s \in Nat \X Nat : SkipsAt(d.text, u, s),
           \A k \in 1 .. Len(d.items) : SameFrom(u, d.items[k].start, d.items[k].end)
    PROVE  \A k \in 1 .. Len(d.items) + 1 : \A q :
              StandsBefore(d, c, e, k, q) => Closed(u, q, e)
<1> DEFINE n == Len(d.items)
           t == d.text
           Closes(q) == Closed(u, q, e)
           P == {m \in Nat : \A k \in 1 .. n + 1 : \A q :
                    n + 1 - k <= m /\ StandsBefore(d, c, e, k, q) => Closes(q)}
<1>1. /\ Len(t) \in Nat /\ n \in Nat /\ c \in Nat \ {0} /\ e \in Nat /\ e - 1 \in Nat
      /\ c + 1 <= e - 1 /\ e <= Len(t) + 1 /\ e - 1 <= Len(t) /\ (e - 1) + 1 = e
      /\ t[e - 1] \in Closings
  <2>1. /\ Len(t) \in Nat /\ n \in Nat /\ c \in Nat \ {0} /\ e \in Nat
        /\ c + 1 <= e - 1 /\ e <= Len(t) + 1 /\ t[e - 1] = Closing(d.kind)
    BY Zenon, FrameInText
  <2>2. t[e - 1] \in Closings
    BY Zenon, <2>1 DEF Closing, Closings
  <2>3. e - 1 \in Nat /\ e - 1 <= Len(t) /\ (e - 1) + 1 = e
    BY <2>1
  <2> QED BY Zenon, <2>1, <2>2, <2>3
<1> DEFINE last == e - 1
<1>2. last \in Nat /\ last <= Len(t) /\ last <= Len(t) + 1 /\ last + 1 = e /\ t[last] \in Closings
  <2>1. e - 1 <= Len(t) + 1
    BY <1>1
  <2> QED BY Zenon, <1>1, <2>1
<1>3. ASSUME NEW q, q \in c + 1 .. e - 1
      PROVE  q \in Nat /\ q <= Len(t)
  BY <1>1, <1>3
<1> HIDE DEF last
<1>4. Closes(last)
  <2>1. Closed(u, last, last + 1)
    BY Zenon, <1>1, <1>2, SkipSteps
  <2> QED BY Zenon, <1>2, <2>1
<1>5. ASSUME NEW q \in Nat, Blank(t, q, last)
      PROVE  Closes(q)
  <2>1. SameFrom(u, q, last)
    BY Zenon, <1>1, <1>2, <1>5, PlainText, PlainSkipped
  <2>2. \A depth \in Nat : depth + 1 \in Nat
    OBVIOUS
  <2> QED BY Zenon, <1>4, <2>1, <2>2 DEF SameFrom, Closed
<1>6. ASSUME NEW k \in 1 .. n, NEW q, StandsBefore(d, c, e, k, q)
      PROVE  \/ k = n /\ Closes(q)
             \/ k # n /\ \E z : StandsBefore(d, c, e, k + 1, z) /\ (Closes(z) => Closes(q))
  <2> DEFINE item == d.items[k]
  <2>1. q \in c + 1 .. e - 1 /\ LeadsTo(t, q, item, d.kind)
    BY Zenon, <1>6 DEF StandsBefore
  <2>2. /\ item.key \in Seq(STRING) /\ item.start \in Nat /\ item.end \in Nat
        /\ item.start < item.end /\ item.end <= e - 1
    BY Zenon, ItemInFrame
  <2>3. item.start <= Len(t) + 1 /\ item.end <= Len(t) + 1
    BY <1>1, <2>2
  <2>4. q \in Nat
    BY Zenon, <1>3, <2>1
  <2>5. PICK z : EndsAt(d, c, e, k, z)
    BY Zenon, ItemEnds
  <2>6. /\ z \in item.end .. item.end + d.blanks /\ z <= e - 1
        /\ Blank(t, item.end, z)
        /\ IF k = n THEN z = e - 1
           ELSE t[z] = "," /\ StandsBefore(d, c, e, k + 1, z + 1)
    BY Zenon, <2>5 DEF EndsAt
  <2>7. z \in Nat /\ z <= Len(t) /\ z <= Len(t) + 1
    <3> DEFINE end == item.end
    <3>1. end \in Nat /\ d.blanks \in Nat /\ z \in end .. end + d.blanks /\ z <= e - 1
      BY Zenon, <2>2, <2>6, FrameInText
    <3>2. e - 1 <= Len(t) /\ Len(t) \in Nat /\ e \in Nat
      BY Zenon, <1>1
    <3> HIDE DEF end, t
    <3> QED BY <3>1, <3>2
  <2> HIDE DEF Closes, t, n
  <2>8. SameFrom(u, item.start, item.end)
    BY Zenon DEF n
  <2>9. SameFrom(u, q, item.start)
    BY Zenon, <2>1, <2>2, <2>3, <2>4, LedSkipped DEF t
  <2>10. SameFrom(u, item.end, z)
    BY Zenon, <1>1, <2>2, <2>6, <2>7, PlainText, PlainSkipped DEF t
  <2>11. SameFrom(u, q, z)
    BY Zenon, <2>8, <2>9, <2>10 DEF SameFrom
  <2>12. \A depth \in Nat : depth + 1 \in Nat
    OBVIOUS
  <2>13. CASE k = n
    <3>1. z = last
      BY Zenon, <2>6, <2>13 DEF last
    <3>2. Closes(q)
      BY Zenon, <1>4, <2>11, <2>12, <3>1 DEF SameFrom, Closes, Closed
    <3> QED BY Zenon, <2>13, <3>2
  <2>14. CASE k # n
    <3>1. t[z] = "," /\ StandsBefore(d, c, e, k + 1, z + 1)
      BY Zenon, <2>6, <2>14
    <3>2. SameInside(u, z, z + 1)
      BY Zenon, <1>1, <2>7, <3>1, SkipSteps DEF t
    <3>3. Closes(z + 1) => Closes(q)
      BY Zenon, <2>11, <2>12, <3>2 DEF SameFrom, SameInside, Closes, Closed
    <3> QED BY Zenon, <2>14, <3>1, <3>3
  <2> QED BY Zenon, <2>13, <2>14
<1>7. ASSUME NEW q, StandsBefore(d, c, e, n + 1, q)
      PROVE  Closes(q)
  <2>1. q \in c + 1 .. e - 1 /\ Blank(t, q, last)
    BY Zenon, <1>7 DEF StandsBefore, last
  <2>2. q \in Nat
    BY Zenon, <1>3, <2>1
  <2> QED BY Zenon, <1>5, <2>1, <2>2
<1> HIDE DEF Closes, t, n
<1>8. 0 \in P
  <2> SUFFICES ASSUME NEW k \in 1 .. n + 1, NEW q, n + 1 - k <= 0, StandsBefore(d, c, e, k, q)
               PROVE  Closes(q)
    BY Zenon DEF P
  <2>1. k = n + 1
    BY <1>1
  <2> QED BY Zenon, <1>7, <2>1
<1>9. ASSUME NEW m \in Nat, m \in P
      PROVE  m + 1 \in P
  <2> SUFFICES ASSUME NEW k \in 1 .. n + 1, NEW q, n + 1 - k <= m + 1,
                      StandsBefore(d, c, e, k, q)
               PROVE  Closes(q)
    BY DEF P
  <2>1. CASE k = n + 1
    BY Zenon, <1>7, <2>1
  <2>2. CASE k \in 1 .. n
    <3>1. CASE k = n
      BY Zenon, <1>6, <2>2, <3>1
    <3>2. CASE k # n
      <4>1. PICK z : StandsBefore(d, c, e, k + 1, z) /\ (Closes(z) => Closes(q))
        BY Zenon, <1>6, <2>2, <3>2
      <4>2. k + 1 \in 1 .. n + 1 /\ n + 1 - (k + 1) <= m
        BY <1>1, <2>2, <3>2
      <4>3. Closes(z)
        BY <1>9, <4>1, <4>2 DEF P
      <4> QED BY <4>1, <4>3
    <3> QED BY <3>1, <3>2
  <2>3. k = n + 1 \/ k \in 1 .. n
    BY <1>1
  <2> QED BY <2>1, <2>2, <2>3
<1> HIDE DEF P
<1>10. \A m \in Nat : m \in P
  BY <1>8, <1>9, Induction
<1>11. ASSUME NEW k \in 1 .. n + 1, NEW q, StandsBefore(d, c, e, k, q)
       PROVE  Closes(q)
  <2>1. n + 1 - k \in Nat /\ n + 1 - k <= n + 1 - k
    BY <1>1
  <2>2. n + 1 - k \in P
    BY <1>10, <2>1
  <2> QED BY <1>11, <2>1, <2>2 DEF P
<1> QED BY <1>11 DEF Closes, n
=============================================================================
