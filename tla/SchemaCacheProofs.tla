------------------------- MODULE SchemaCacheProofs -------------------------
(***************************************************************************)
(* Proofs about SchemaCache, for any types, values, paths and goroutines:    *)
(* that no goroutine ever loads an unfinished schema, and that every read     *)
(* returns the field its path names, or nothing.                             *)
(*                                                                          *)
(* The invariant counts the types that have a schema in the cache: after n   *)
(* of them, each schema there is as deep as it will get within n levels.     *)
(* So no type has to be assumed to end: of a type that contains itself no     *)
(* schema is ever stored.                                                    *)
(***************************************************************************)
EXTENDS SchemaCache, FiniteSetTheorems, TLAPS

L == INSTANCE Lemmas

(* The names of the fields of t that hold structs.                           *)
Names(t) == {Fields[t][k].name : k \in NestedIn(t)}

(* A schema of t, from the schemas up of the level below.                    *)
Level(up, t) ==
    [typ |-> t, subs |-> [name \in Names(t) |-> up[FieldCalled(t, name).of]]]

Base == [t \in Types |-> [typ |-> t, subs |-> <<>>]]

(* There is a function that meets the equation of SchemaUpTo, so SchemaUpTo   *)
(* does: by induction there is one on 0 .. n for every n, and they agree.    *)
LEMMA SchemaUpToDef ==
    /\ SchemaUpTo[0] = Base
    /\ \A n \in Nat : SchemaUpTo[n + 1] = [t \in Types |-> Level(SchemaUpTo[n], t)]
<1> DEFINE Upper(up) == [t \in Types |-> Level(up, t)]
           Fits(g, n) == /\ g = [k \in 0 .. n |-> g[k]]
                         /\ g[0] = Base
                         /\ \A k \in 0 .. n - 1 : g[k + 1] = Upper(g[k])
<1> HIDE DEF Upper
<1>1. \A n \in Nat : \E g : Fits(g, n)
  <2> DEFINE S == {n \in Nat : \E g : Fits(g, n)}
  <2>1. 0 \in S
    <3>1. Fits([k \in 0 .. 0 |-> Base], 0)
      OBVIOUS
    <3> QED BY <3>1
  <2>2. ASSUME NEW n \in Nat, n \in S
        PROVE  n + 1 \in S
    <3>1. PICK g : Fits(g, n)
      BY <2>2
    <3> DEFINE h == [k \in 0 .. n + 1 |-> IF k <= n THEN g[k] ELSE Upper(g[n])]
    <3>2. h = [k \in 0 .. n + 1 |-> h[k]] /\ h[0] = Base
      BY <3>1
    <3>3. ASSUME NEW k \in 0 .. n + 1 - 1
          PROVE  h[k + 1] = Upper(h[k])
      <4>1. CASE k < n
        <5>1. k \in 0 .. n - 1 /\ k + 1 \in 0 .. n
          BY <4>1
        <5> QED BY <5>1, <3>1
      <4>2. CASE k = n
        BY <4>2, <3>1
      <4> QED BY <4>1, <4>2
    <3> HIDE DEF h
    <3>4. Fits(h, n + 1)
      BY <3>2, <3>3
    <3> HIDE DEF Fits
    <3>5. \E x : Fits(x, n + 1)
      BY <3>4
    <3> QED BY <3>5
  <2> HIDE DEF S
  <2>3. \A n \in Nat : n \in S
    BY <2>1, <2>2, L!Induction
  <2> QED BY <2>3 DEF S
<1> DEFINE G(n) == CHOOSE g : Fits(g, n)
<1>2. \A n \in Nat : Fits(G(n), n)
  BY <1>1
<1> HIDE DEF G, Fits
<1>3. \A m \in Nat : \A n \in Nat : m <= n => G(n)[m] = G(m)[m]
  <2> DEFINE S == {m \in Nat : \A n \in Nat : m <= n => G(n)[m] = G(m)[m]}
  <2>1. 0 \in S
    BY <1>2 DEF Fits
  <2>2. ASSUME NEW m \in Nat, m \in S
        PROVE  m + 1 \in S
    <3>1. ASSUME NEW n \in Nat, m + 1 <= n
          PROVE  G(n)[m + 1] = Upper(G(m)[m])
      <4>1. G(n)[m + 1] = Upper(G(n)[m])
        BY <1>2, <3>1 DEF Fits
      <4> QED BY <4>1, <2>2, <3>1
    <3> QED BY <3>1
  <2> HIDE DEF S
  <2>3. \A m \in Nat : m \in S
    BY <2>1, <2>2, L!Induction
  <2> QED BY <2>3 DEF S
<1> DEFINE f == [n \in Nat |-> G(n)[n]]
<1>4. f[0] = Base /\ \A n \in Nat : f[n + 1] = Upper(f[n])
  <2>1. f[0] = Base
    BY <1>2 DEF Fits
  <2>2. ASSUME NEW n \in Nat
        PROVE  f[n + 1] = Upper(f[n])
    <3>1. G(n + 1)[n + 1] = Upper(G(n + 1)[n])
      BY <1>2 DEF Fits
    <3> QED BY <3>1, <1>3
  <2> QED BY <2>1, <2>2
<1> DEFINE Eq(up) ==
      up = [n \in Nat |->
              [t \in Types |->
                 [typ |-> t,
                  subs |-> IF n = 0 THEN <<>>
                           ELSE [name \in {Fields[t][k].name : k \in NestedIn(t)} |->
                                   up[n - 1][FieldCalled(t, name).of]]]]]
<1>5. \A up : Eq(up) => up[0] = Base /\ \A n \in Nat : up[n + 1] = Upper(up[n])
  <2> TAKE up
  <2> HAVE Eq(up)
  <2>1. up[0] = Base
    BY DEF Base
  <2>2. ASSUME NEW n \in Nat
        PROVE  up[n + 1] = Upper(up[n])
    <3> DEFINE m == n + 1
    <3>1. m \in Nat /\ m # 0 /\ m - 1 = n
      OBVIOUS
    <3> HIDE DEF m
    <3>2. up[m] = [t \in Types |->
                 [typ |-> t,
                  subs |-> IF m = 0 THEN <<>>
                           ELSE [name \in {Fields[t][k].name : k \in NestedIn(t)} |->
                                   up[m - 1][FieldCalled(t, name).of]]]]
      BY <3>1
    <3>3. up[m] = Upper(up[n])
      BY <3>1, <3>2 DEF Upper, Level, Names
    <3> QED BY <3>3 DEF m
  <2> QED BY <2>1, <2>2
<1>6. Eq(f)
  <2>1. \A n \in Nat : f[n] = [t \in Types |->
                 [typ |-> t,
                  subs |-> IF n = 0 THEN <<>>
                           ELSE [name \in {Fields[t][k].name : k \in NestedIn(t)} |->
                                   f[n - 1][FieldCalled(t, name).of]]]]
    <3> TAKE n \in Nat
    <3> HIDE DEF f
    <3>1. CASE n = 0
      BY <1>4, <3>1 DEF Base
    <3>2. CASE n # 0
      <4>1. n - 1 \in Nat /\ n - 1 + 1 = n
        BY <3>2
      <4>2. f[n] = Upper(f[n - 1])
        BY <1>4, <4>1
      <4> QED BY <4>2, <3>2 DEF Upper, Level, Names
    <3> QED BY <3>1, <3>2
  <2> QED BY <2>1
<1> HIDE DEF Eq, f
<1>7. Eq(SchemaUpTo)
  BY <1>6 DEF SchemaUpTo, Eq
<1> QED BY <1>7, <1>5 DEF Upper

(* A name of a field of t is the name of that field alone.                   *)
LEMMA FieldCalledIs ==
    ASSUME NEW t \in Types, NEW k \in DOMAIN Fields[t]
    PROVE  FieldCalled(t, Fields[t][k].name) = Fields[t][k]
<1>1. Fields[t][k] \in FieldsOf(t)
  BY DEF FieldsOf
<1>2. \A f \in FieldsOf(t) : f.name = Fields[t][k].name => f = Fields[t][k]
  BY SchemaAssumption DEF FieldsOf
<1> QED BY <1>1, <1>2 DEF FieldCalled

(* A nested field is of a struct type.                                       *)
LEMMA Nested ==
    ASSUME NEW t \in Types, NEW k \in NestedIn(t)
    PROVE  /\ k \in Nat
           /\ Fields[t][k].of \in Types
BY SchemaAssumption DEF NestedIn

(* The next of some nested fields is one of them.                            *)
LEMMA NextNested ==
    ASSUME NEW t \in Types, NEW todo \in SUBSET NestedIn(t), todo # {}
    PROVE  Min(todo) \in todo
<1>1. todo \in SUBSET Nat
  BY Nested
<1>2. \E m \in todo : \A n \in todo : m <= n
  BY <1>1, L!Least
<1> QED BY <1>2 DEF Min
-----------------------------------------------------------------------------
(* The types that have a schema in the cache, and what it is for a schema to *)
(* be that of t at every depth from the given one.                           *)
Done == {t \in Types : cache[t] # NoSchema}
IsSchema(s, t, depth) == \A n \in Nat : n >= depth => s = SchemaUpTo[n][t]

(* All there is of schemas, and of frames: a stack is a sequence of these.   *)
Schemas == {SchemaUpTo[n][t] : n \in Nat, t \in Types}
Frames == [typ : Types, todo : SUBSET Nat,
           subs : UNION {[D -> Schemas] : D \in SUBSET UNION {Names(t) : t \in Types}}]

(* What a frame holds after some of its nested fields were gone through: the *)
(* schemas of their types, as the cache has them.                            *)
FrameInv(f, c) ==
    /\ f.todo \in SUBSET NestedIn(f.typ)
    /\ f.subs = [name \in {Fields[f.typ][k].name : k \in NestedIn(f.typ) \ f.todo} |->
                   f.subs[name]]
    /\ \A k \in NestedIn(f.typ) \ f.todo :
         /\ c[Fields[f.typ][k].of] # NoSchema
         /\ f.subs[Fields[f.typ][k].name] = c[Fields[f.typ][k].of]

(* The calls there are.                                                      *)
Calls == [fn : {"Compile", "GetByPtr"}, value : Values, path : Paths]

(* A goroutine at p, in the call c, inside the builds st, with the schema s.  *)
Good(p, c, st, s, ca) ==
    /\ p \in {"idle", "load", "build", "read", "done"}
    /\ p # "idle" => c \in Calls
    /\ (p = "build") = (st # <<>>)
    /\ (p \in {"read", "done"}) = (s # NoSchema)
    /\ s # NoSchema => s = ca[c.value.typ]
    /\ st \in Seq(Frames)
    /\ \A k \in 1 .. Len(st) :
         /\ FrameInv(st[k], ca)
         /\ st[k].typ = IF k = 1 THEN c.value.typ ELSE NextField(st[k - 1]).of
         /\ k < Len(st) => st[k].todo # {}

(* Each variable is a function on the types, or on the goroutines.           *)
Shape ==
    /\ cache = [t \in Types |-> cache[t]]
    /\ pc = [g \in Goroutines |-> pc[g]]
    /\ call = [g \in Goroutines |-> call[g]]
    /\ stack = [g \in Goroutines |-> stack[g]]
    /\ schema = [g \in Goroutines |-> schema[g]]
    /\ result = [g \in Goroutines |-> result[g]]

(* The schemas in the cache are whole from the level on that their number is. *)
CacheInv == \A t \in Done : IsSchema(cache[t], t, Cardinality(Done))

GoroutineInv == \A g \in Goroutines : Good(pc[g], call[g], stack[g], schema[g], cache)

(* The inductive invariant.                                                  *)
IInv == Shape /\ CacheInv /\ GoroutineInv
-----------------------------------------------------------------------------
(* No more types have a schema than there are.                               *)
LEMMA CacheFinite ==
    /\ Cardinality(Types) \in Nat
    /\ IsFiniteSet(Done)
    /\ Cardinality(Done) \in Nat
    /\ Cardinality(Done) <= Cardinality(Types)
<1>1. IsFiniteSet(Types) /\ Done \in SUBSET Types
  BY SchemaAssumption DEF Done
<1> QED BY <1>1, FS_CardinalityType, FS_Subset

(* A schema has the schemas of the level below in it.                        *)
LEMMA Unfold ==
    ASSUME NEW n \in Nat, NEW t \in Types
    PROVE  SchemaUpTo[n + 1][t] = [typ |-> t, subs |-> [name \in Names(t) |->
              SchemaUpTo[n][FieldCalled(t, name).of]]]
BY SchemaUpToDef DEF Level

(* The schema of t is of type t.                                             *)
LEMMA SchemaTyp ==
    ASSUME NEW n \in Nat, NEW t \in Types
    PROVE  SchemaUpTo[n][t].typ = t
<1>1. CASE n = 0
  BY <1>1, SchemaUpToDef DEF Base
<1>2. CASE n # 0
  <2> DEFINE m == n - 1
  <2>1. m \in Nat /\ m + 1 = n
    BY <1>2
  <2> HIDE DEF m
  <2>2. SchemaUpTo[m + 1][t] = Level(SchemaUpTo[m], t)
    BY <2>1, SchemaUpToDef
  <2>3. SchemaUpTo[m + 1][t].typ = t
    BY <2>2 DEF Level
  <2> QED BY <2>1, <2>3
<1> QED BY <1>1, <1>2

(* The schema of a build that is through with its fields is the one the      *)
(* cache has already, if it has one, and one level deeper than the cache     *)
(* if not: then the type is one more, so there is a level for it.            *)
LEMMA Finished ==
    ASSUME CacheInv, NEW f, f.typ \in Types, FrameInv(f, cache), f.todo = {}
    PROVE  /\ IsSchema(SchemaFrom(f), f.typ, Cardinality(Done) + 1)
           /\ f.typ \in Done => SchemaFrom(f) = cache[f.typ]
           /\ f.typ \notin Done => /\ IsSchema(SchemaFrom(f), f.typ, Cardinality(Types))
                                   /\ Cardinality(Done) + 1 <= Cardinality(Types)
<1> DEFINE t == f.typ
           c == Cardinality(Done)
<1>0. c \in Nat /\ Cardinality(Types) \in Nat
  BY CacheFinite
<1>1. ASSUME NEW n \in Nat, n >= c
      PROVE  SchemaFrom(f) = SchemaUpTo[n + 1][t]
  <2>1. ASSUME NEW name \in Names(t)
        PROVE  f.subs[name] = SchemaUpTo[n][FieldCalled(t, name).of]
    <3>1. PICK k \in NestedIn(t) : name = Fields[t][k].name
      BY DEF Names
    <3>2. Fields[t][k].of \in Done /\ f.subs[name] = cache[Fields[t][k].of]
      BY <3>1, Nested DEF FrameInv, Done
    <3>3. cache[Fields[t][k].of] = SchemaUpTo[n][Fields[t][k].of]
      BY <3>2, <1>1 DEF CacheInv, IsSchema
    <3>4. FieldCalled(t, name) = Fields[t][k]
      BY <3>1, FieldCalledIs DEF NestedIn
    <3> QED BY <3>2, <3>3, <3>4
  <2>2. f.subs = [name \in Names(t) |-> f.subs[name]]
    BY DEF FrameInv, Names
  <2>3. f.subs = [name \in Names(t) |-> SchemaUpTo[n][FieldCalled(t, name).of]]
    BY <2>1, <2>2
  <2> QED BY <2>3, Unfold DEF SchemaFrom
<1>2. IsSchema(SchemaFrom(f), t, c + 1)
  <2>1. ASSUME NEW n \in Nat, n >= c + 1
        PROVE  SchemaFrom(f) = SchemaUpTo[n][t]
    <3>1. n - 1 \in Nat /\ n - 1 >= c /\ n - 1 + 1 = n
      BY <2>1, <1>0
    <3>2. SchemaFrom(f) = SchemaUpTo[n - 1 + 1][t]
      BY <1>1, <3>1
    <3> QED BY <3>1, <3>2
  <2> QED BY <2>1 DEF IsSchema
<1>3. ASSUME t \in Done
      PROVE  SchemaFrom(f) = cache[t]
  <2>1. c + 1 \in Nat /\ c + 1 >= c
    BY <1>0
  <2>2. cache[t] = SchemaUpTo[c + 1][t]
    BY <1>3, <2>1 DEF CacheInv, IsSchema
  <2> QED BY <2>2, <1>1, <1>0
<1>4. ASSUME t \notin Done
      PROVE  c + 1 <= Cardinality(Types)
  <2>1. IsFiniteSet(Types) /\ Done \cup {t} \in SUBSET Types
    BY SchemaAssumption DEF Done
  <2>2. Cardinality(Done \cup {t}) = c + 1
    BY <1>4, CacheFinite, FS_AddElement
  <2> QED BY <2>1, <2>2, FS_Subset
<1>5. ASSUME t \notin Done
      PROVE  IsSchema(SchemaFrom(f), t, Cardinality(Types))
  BY <1>0, <1>2, <1>4, <1>5 DEF IsSchema
<1> QED BY <1>2, <1>3, <1>4, <1>5

(* What is in the cache stays as it is.                                      *)
Grows == \A t \in Done : t \in Done' /\ cache'[t] = cache[t]

(* Storing the schema of a finished build: it is whole, and it replaces      *)
(* nothing but the same.                                                     *)
LEMMA Stored ==
    ASSUME cache = [t \in Types |-> cache[t]], CacheInv,
           NEW f, f.typ \in Types, FrameInv(f, cache), f.todo = {},
           cache' = [cache EXCEPT ![f.typ] = SchemaFrom(f)]
    PROVE  /\ Grows
           /\ f.typ \in Done'
           /\ cache'[f.typ] = SchemaFrom(f)
           /\ CacheInv'
           /\ cache' = [t \in Types |-> cache'[t]]
           /\ SchemaFrom(f) \in Schemas
           /\ SchemaFrom(f) # NoSchema
<1> DEFINE s == SchemaFrom(f)
           c == Cardinality(Done)
<1>0. c \in Nat /\ Cardinality(Types) \in Nat
  BY CacheFinite
<1>1. s # NoSchema
  <2>1. CASE f.typ \in Done
    BY <2>1, Finished DEF Done
  <2>2. CASE f.typ \notin Done
    BY <2>2, <1>0, Finished, NoSchemaAssumption DEF IsSchema, SchemaOf
  <2> QED BY <2>1, <2>2
<1>2. Done' = Done \cup {f.typ}
  BY <1>1 DEF Done
<1>3. Grows
  BY <1>2, Finished DEF Grows, Done
<1>4. \A t \in Types : t # f.typ => cache'[t] = cache[t]
  OBVIOUS
<1>5. cache'[f.typ] = s
  OBVIOUS
<1>6. CacheInv'
  <2> DEFINE d == Cardinality(Done')
  <2>1. CASE f.typ \in Done
    <3>1. Done' = Done
      BY <1>2, <2>1
    <3>2. \A t \in Done : cache'[t] = cache[t]
      BY <1>3 DEF Grows
    <3> QED BY <3>1, <3>2 DEF CacheInv, IsSchema
  <2>2. CASE f.typ \notin Done
    <3>1. d = c + 1
      BY <1>2, <2>2, CacheFinite, FS_AddElement
    <3>2. IsSchema(s, f.typ, d)
      BY <3>1, Finished
    <3>3. ASSUME NEW t \in Done
          PROVE  IsSchema(cache[t], t, d)
      BY <1>0, <3>1 DEF CacheInv, IsSchema
    <3> HIDE DEF d, s
    <3>4. \A t \in Done' : IsSchema(cache'[t], t, d)
      BY <1>2, <1>3, <1>5, <3>2, <3>3 DEF Grows
    <3> QED BY <3>4 DEF CacheInv, IsSchema, d
  <2> QED BY <2>1, <2>2
<1>7. s \in Schemas
  BY <1>0, Finished DEF IsSchema, Schemas
<1> QED BY <1>1, <1>2, <1>3, <1>5, <1>6, <1>7

(* A growing cache leaves a build valid.                                     *)
LEMMA FrameStays ==
    ASSUME NEW f, f.typ \in Types, FrameInv(f, cache), Grows
    PROVE  FrameInv(f, cache')
<1>1. \A t \in Types : cache[t] # NoSchema => cache'[t] # NoSchema /\ cache'[t] = cache[t]
  BY DEF Grows, Done
<1> QED BY <1>1, Nested DEF FrameInv

(* A schema in the cache is one of Schemas.                                  *)
LEMMA CachedSchemas ==
    ASSUME CacheInv, NEW t \in Done
    PROVE  cache[t] \in Schemas
BY CacheFinite DEF CacheInv, IsSchema, Schemas, Done

(* A build that begins has nothing to answer for.                            *)
LEMMA FrameBegins ==
    ASSUME NEW t \in Types
    PROVE  /\ Frame(t) \in Frames
           /\ Frame(t).typ = t
           /\ FrameInv(Frame(t), cache)
<1>1. NestedIn(t) \in SUBSET Nat
  BY Nested
<1>2. [n \in {} |-> NoSchema] \in [{} -> Schemas]
  OBVIOUS
<1>3. Frame(t).subs \in UNION {[D -> Schemas] : D \in SUBSET UNION {Names(u) : u \in Types}}
  BY <1>2 DEF Frame
<1> QED BY <1>1, <1>3 DEF Frame, Frames, FrameInv

(* A build goes on to its next field with a schema that is in the cache c.   *)
LEMMA FrameGoesOn ==
    ASSUME NEW c, NEW f \in Frames, FrameInv(f, c), f.todo # {},
           c[NextField(f).of] # NoSchema, c[NextField(f).of] \in Schemas
    PROVE  /\ NextField(f).of \in Types
           /\ WithSub(f, c[NextField(f).of]) \in Frames
           /\ WithSub(f, c[NextField(f).of]).typ = f.typ
           /\ FrameInv(WithSub(f, c[NextField(f).of]), c)
<1> DEFINE k == Min(f.todo)
           name == Fields[f.typ][k].name
           s == c[Fields[f.typ][k].of]
           w == WithSub(f, s)
<1>1. f.typ \in Types /\ f.todo \in SUBSET NestedIn(f.typ)
  BY DEF Frames, FrameInv
<1>2. k \in f.todo /\ k \in NestedIn(f.typ) /\ Fields[f.typ][k].of \in Types
  BY <1>1, NextNested, Nested
<1>3. s \in Schemas
  BY DEF NextField
<1> DEFINE subs == [n \in DOMAIN f.subs \cup {name} |-> IF n = name THEN s ELSE f.subs[n]]
<1>4. w = [typ |-> f.typ, todo |-> f.todo \ {k}, subs |-> subs]
  <2>1. f = [typ |-> f.typ, todo |-> f.todo, subs |-> f.subs]
    BY DEF Frames
  <2>2. w = [f EXCEPT !.todo = f.todo \ {k}, !.subs = subs]
    BY DEF WithSub, NextField
  <2> QED BY <2>1, <2>2
<1>5. subs \in UNION {[D -> Schemas] : D \in SUBSET UNION {Names(t) : t \in Types}}
  <2>1. name \in Names(f.typ)
    BY <1>2 DEF Names
  <2>2. PICK D \in SUBSET UNION {Names(t) : t \in Types} : f.subs \in [D -> Schemas]
    BY DEF Frames
  <2>3. D \cup {name} \in SUBSET UNION {Names(t) : t \in Types}
    BY <1>1, <2>1
  <2>4. subs \in [D \cup {name} -> Schemas]
    BY <1>3, <2>2
  <2> QED BY <2>3, <2>4
<1>6. f.todo \ {k} \in SUBSET Nat
  BY <1>1, Nested
<1>7. w \in Frames
  <2> HIDE DEF subs
  <2> QED BY <1>1, <1>4, <1>5, <1>6 DEF Frames
<1>8. FrameInv(w, c)
  <2>1. w.todo \in SUBSET NestedIn(w.typ)
    BY <1>1, <1>4
  <2>2. NestedIn(f.typ) \ (f.todo \ {k}) = (NestedIn(f.typ) \ f.todo) \cup {k}
    BY <1>1, <1>2
  <2>3. w.subs = [n \in {Fields[f.typ][j].name : j \in NestedIn(f.typ) \ (f.todo \ {k})} |-> w.subs[n]]
    <3>1. DOMAIN f.subs = {Fields[f.typ][j].name : j \in NestedIn(f.typ) \ f.todo}
      BY DEF FrameInv
    <3>2. DOMAIN f.subs \cup {name}
            = {Fields[f.typ][j].name : j \in NestedIn(f.typ) \ (f.todo \ {k})}
      BY <3>1, <2>2
    <3> QED BY <1>4, <3>2
  <2>4. ASSUME NEW j \in NestedIn(f.typ) \ (f.todo \ {k})
        PROVE  /\ c[Fields[f.typ][j].of] # NoSchema
               /\ w.subs[Fields[f.typ][j].name] = c[Fields[f.typ][j].of]
    <3>1. CASE j = k
      BY <3>1, <1>4 DEF NextField
    <3>2. CASE j # k
      <4>1. j \in NestedIn(f.typ) \ f.todo
        BY <3>2
      <4>2. Fields[f.typ][j].name # name
        BY <3>2, <1>1, <1>2, SchemaAssumption DEF NestedIn
      <4>3. /\ c[Fields[f.typ][j].of] # NoSchema
            /\ f.subs[Fields[f.typ][j].name] = c[Fields[f.typ][j].of]
            /\ Fields[f.typ][j].name \in DOMAIN f.subs
        BY <4>1 DEF FrameInv
      <4> QED BY <4>2, <4>3, <1>4
    <3> QED BY <3>1, <3>2
  <2> HIDE DEF subs, w
  <2> QED BY <1>4, <2>1, <2>3, <2>4 DEF FrameInv
<1> QED BY <1>2, <1>4, <1>7, <1>8 DEF NextField

(* A growing cache leaves the other goroutines valid.                        *)
LEMMA GoodStays ==
    ASSUME NEW p, NEW c, NEW st, NEW s, Good(p, c, st, s, cache), Grows
    PROVE  Good(p, c, st, s, cache')
<1>1. \A t \in Types : cache[t] # NoSchema => cache'[t] = cache[t]
  BY DEF Grows, Done
<1>2. ASSUME s # NoSchema
      PROVE  s = cache'[c.value.typ]
  <2>1. c.value.typ \in Types
    BY <1>2, SchemaAssumption DEF Good, Calls
  <2> QED BY <1>1, <1>2, <2>1 DEF Good
<1>3. ASSUME NEW k \in 1 .. Len(st)
      PROVE  FrameInv(st[k], cache')
  <2>1. st[k] \in Frames /\ FrameInv(st[k], cache)
    BY DEF Good
  <2> QED BY <2>1, FrameStays DEF Frames
<1> QED BY <1>2, <1>3 DEF Good

(* A step that leaves the cache alone.                                       *)
LEMMA Same ==
    ASSUME cache' = cache, CacheInv
    PROVE  Grows /\ CacheInv'
BY DEF Grows, Done, CacheInv, IsSchema

(* A goroutine that builds is in a build.                                    *)
LEMMA Innermost ==
    ASSUME IInv, NEW g \in Goroutines, Building(g)
    PROVE  /\ stack[g] \in Seq(Frames) /\ stack[g] # <<>>
           /\ Len(stack[g]) \in Nat \ {0}
           /\ Top(g) = stack[g][Len(stack[g])]
           /\ Top(g) \in Frames
           /\ Top(g).typ \in Types
           /\ FrameInv(Top(g), cache)
           /\ call[g] \in Calls
           /\ call[g].value.typ \in Types
<1>1. Good(pc[g], call[g], stack[g], schema[g], cache) /\ pc[g] = "build"
  BY DEF IInv, GoroutineInv, Building
<1>2. stack[g] \in Seq(Frames) /\ stack[g] # <<>> /\ call[g] \in Calls
  BY <1>1 DEF Good
<1>3. Len(stack[g]) \in Nat \ {0} /\ Top(g) = stack[g][Len(stack[g])]
  BY <1>2 DEF Top, Last
<1>4. Len(stack[g]) \in 1 .. Len(stack[g])
  BY <1>3
<1>5. Top(g) \in Frames
  BY <1>2, <1>3, <1>4
<1>6. FrameInv(Top(g), cache)
  BY <1>1, <1>3, <1>4 DEF Good
<1>7. call[g].value.typ \in Types
  BY <1>2, SchemaAssumption DEF Calls
<1> QED BY <1>2, <1>3, <1>5, <1>6, <1>7 DEF Frames

(* What there is to show of a step of one goroutine.                         *)
LEMMA OneStep ==
    ASSUME IInv, NEW g \in Goroutines, Shape', Grows, CacheInv',
           Good(pc'[g], call'[g], stack'[g], schema'[g], cache'),
           \A h \in Goroutines \ {g} : /\ pc'[h] = pc[h]
                                       /\ call'[h] = call[h]
                                       /\ stack'[h] = stack[h]
                                       /\ schema'[h] = schema[h]
    PROVE  IInv'
<1>1. ASSUME NEW h \in Goroutines
      PROVE  Good(pc'[h], call'[h], stack'[h], schema'[h], cache')
  <2>1. CASE h = g
    BY <2>1
  <2>2. CASE h # g
    <3>1. Good(pc[h], call[h], stack[h], schema[h], cache)
      BY DEF IInv, GoroutineInv
    <3>2. Good(pc[h], call[h], stack[h], schema[h], cache')
      BY <3>1, GoodStays
    <3> QED BY <3>2, <2>2
  <2> QED BY <2>1, <2>2
<1> QED BY <1>1 DEF IInv, GoroutineInv

(* The invariant holds at first.                                             *)
LEMMA InitInv == Init => IInv
<1> SUFFICES ASSUME Init
             PROVE  IInv
  OBVIOUS
<1>1. Shape
  BY DEF Init, Shape
<1>2. CacheInv
  BY DEF Init, CacheInv, Done
<1>3. <<>> \in Seq(Frames) /\ Len(<<>>) = 0
  OBVIOUS
<1>4. GoroutineInv
  BY <1>3 DEF Init, GoroutineInv, Good
<1> QED BY <1>1, <1>2, <1>4 DEF IInv

(* A call that finds its schema keeps the invariant.                        *)
LEMMA LoadHitInv == ASSUME IInv, NEW g \in Goroutines, LoadHit(g) PROVE IInv'
<1> USE DEF LoadHit, Goto
<1>1. Good(pc[g], call[g], stack[g], schema[g], cache)
  BY DEF IInv, GoroutineInv
<1>2. Shape' /\ Grows /\ CacheInv'
  BY Same DEF IInv, Shape
<1>3. Good("read", call[g], stack[g], cache[call[g].value.typ], cache)
  BY <1>1 DEF Good
<1>4. Good(pc'[g], call'[g], stack'[g], schema'[g], cache')
  BY <1>3 DEF IInv, Shape
<1>5. \A h \in Goroutines \ {g} : pc'[h] = pc[h] /\ schema'[h] = schema[h]
  BY DEF IInv, Shape
<1> QED BY <1>2, <1>4, <1>5, OneStep

(* A call that begins to build its schema keeps it.                         *)
LEMMA LoadMissInv == ASSUME IInv, NEW g \in Goroutines, LoadMiss(g) PROVE IInv'
<1> USE DEF LoadMiss, Goto
<1> DEFINE f == Frame(call[g].value.typ)
<1>1. Good(pc[g], call[g], stack[g], schema[g], cache) /\ pc[g] = "load"
  BY DEF IInv, GoroutineInv
<1>2. Shape' /\ Grows /\ CacheInv'
  BY Same DEF IInv, Shape
<1>3. f \in Frames /\ f.typ = call[g].value.typ /\ FrameInv(f, cache)
  <2>1. call[g].value.typ \in Types
    BY <1>1, SchemaAssumption DEF Good, Calls
  <2> QED BY <2>1, FrameBegins
<1>4. <<f>> \in Seq(Frames) /\ Len(<<f>>) = 1 /\ <<f>>[1] = f /\ <<f>> # <<>>
  BY <1>3
<1> HIDE DEF f
<1>5. Good("build", call[g], <<f>>, schema[g], cache)
  BY <1>1, <1>3, <1>4 DEF Good
<1>6. Good(pc'[g], call'[g], stack'[g], schema'[g], cache')
  BY <1>5 DEF IInv, Shape, f
<1>7. \A h \in Goroutines \ {g} : pc'[h] = pc[h] /\ stack'[h] = stack[h]
  BY DEF IInv, Shape
<1> QED BY <1>2, <1>6, <1>7, OneStep

(* A call keeps it.                                                         *)
LEMMA CallStepInv ==
    ASSUME IInv, NEW g \in Goroutines, NEW fn \in {"Compile", "GetByPtr"},
           NEW v \in Values, NEW p \in Paths, Call(g, fn, v, p)
    PROVE  IInv'
<1> USE DEF Call, Goto
<1> DEFINE c == [fn |-> fn, value |-> v, path |-> p]
<1>1. Good(pc[g], call[g], stack[g], schema[g], cache) /\ pc[g] = "idle"
  BY DEF IInv, GoroutineInv
<1>2. Shape' /\ Grows /\ CacheInv'
  BY Same DEF IInv, Shape
<1>3. c \in Calls
  BY DEF Calls
<1> HIDE DEF c
<1>4. stack[g] = <<>> /\ Len(stack[g]) = 0
  BY <1>1 DEF Good
<1>5. Good("load", c, stack[g], schema[g], cache)
  BY <1>1, <1>3, <1>4 DEF Good
<1>6. Good(pc'[g], call'[g], stack'[g], schema'[g], cache')
  BY <1>5 DEF IInv, Shape, c
<1>7. \A h \in Goroutines \ {g} : pc'[h] = pc[h] /\ call'[h] = call[h]
  BY DEF IInv, Shape
<1> QED BY <1>2, <1>6, <1>7, OneStep

(* Reading keeps it.                                                        *)
LEMMA ReadInv == ASSUME IInv, NEW g \in Goroutines, Read(g) PROVE IInv'
<1> USE DEF Read, Goto
<1>1. Good(pc[g], call[g], stack[g], schema[g], cache) /\ pc[g] = "read"
  BY DEF IInv, GoroutineInv
<1>2. Shape' /\ Grows /\ CacheInv'
  BY Same DEF IInv, Shape
<1>3. Good("done", call[g], stack[g], schema[g], cache)
  BY <1>1 DEF Good
<1>4. Good(pc'[g], call'[g], stack'[g], schema'[g], cache')
  BY <1>3 DEF IInv, Shape
<1>5. \A h \in Goroutines \ {g} : pc'[h] = pc[h]
  BY DEF IInv, Shape
<1> QED BY <1>2, <1>4, <1>5, OneStep

(* Returning keeps it.                                                      *)
LEMMA ReturnInv == ASSUME IInv, NEW g \in Goroutines, Return(g) PROVE IInv'
<1> USE DEF Return, Goto
<1>1. Good(pc[g], call[g], stack[g], schema[g], cache) /\ pc[g] = "done"
  BY DEF IInv, GoroutineInv
<1>2. Shape' /\ Grows /\ CacheInv'
  BY Same DEF IInv, Shape
<1>3. stack[g] = <<>> /\ Len(stack[g]) = 0
  BY <1>1 DEF Good
<1>4. Good("idle", NoCall, stack[g], NoSchema, cache)
  BY <1>1, <1>3 DEF Good
<1>5. Good(pc'[g], call'[g], stack'[g], schema'[g], cache')
  BY <1>4 DEF IInv, Shape
<1>6. \A h \in Goroutines \ {g} : pc'[h] = pc[h] /\ call'[h] = call[h] /\ schema'[h] = schema[h]
  BY DEF IInv, Shape
<1> QED BY <1>2, <1>5, <1>6, OneStep

(* Finding the schema of a nested field keeps it.                           *)
LEMMA LookupHitInv == ASSUME IInv, NEW g \in Goroutines, LookupHit(g) PROVE IInv'
<1> DEFINE st == stack[g]
           n == Len(st)
           w == WithSub(Top(g), cache[NextField(Top(g)).of])
           new == Append(SubSeq(st, 1, n - 1), w)
<1>1. Good(pc[g], call[g], st, schema[g], cache) /\ pc[g] = "build"
  BY DEF IInv, GoroutineInv, LookupHit, Building
<1>2. Shape' /\ Grows /\ CacheInv'
  BY Same DEF IInv, Shape, LookupHit
<1>3. /\ st \in Seq(Frames) /\ st # <<>> /\ n \in Nat \ {0}
      /\ Top(g) = st[n] /\ Top(g) \in Frames /\ FrameInv(Top(g), cache)
      /\ Top(g).typ \in Types
  BY Innermost DEF LookupHit
<1>4. Top(g).todo # {} /\ NextField(Top(g)).of \in Types
  <2>1. Top(g).todo # {}
    BY DEF LookupHit
  <2> QED BY <2>1, <1>3, NextNested, Nested DEF FrameInv, NextField
<1>5. w \in Frames /\ w.typ = Top(g).typ /\ FrameInv(w, cache)
  <2>1. cache[NextField(Top(g)).of] # NoSchema /\ cache[NextField(Top(g)).of] \in Schemas
    BY <1>4, CachedSchemas DEF IInv, LookupHit, Done
  <2> QED BY <1>3, <1>4, <2>1, FrameGoesOn
<1>6. new \in Seq(Frames) /\ Len(new) = n /\ new[n] = w /\ \A k \in 1 .. n - 1 : new[k] = st[k]
  BY <1>3, <1>5, L!LastReplaced
<1>7. stack' = [stack EXCEPT ![g] = new]
  BY DEF LookupHit, Front, Top, Last
<1> HIDE DEF st, n, w, new
<1>8. Good("build", call[g], new, schema[g], cache)
  <2>1. ASSUME NEW k \in 1 .. n
        PROVE  /\ FrameInv(new[k], cache)
               /\ new[k].typ = IF k = 1 THEN call[g].value.typ ELSE NextField(new[k - 1]).of
               /\ k < n => new[k].todo # {}
    <3>1. /\ FrameInv(st[k], cache)
          /\ st[k].typ = IF k = 1 THEN call[g].value.typ ELSE NextField(st[k - 1]).of
          /\ k < n => st[k].todo # {}
      BY <1>1 DEF Good, n
    <3>2. k # 1 => k - 1 \in 1 .. n - 1
      BY <1>3
    <3>3. CASE k = n
      BY <3>1, <3>2, <3>3, <1>3, <1>5, <1>6
    <3>4. CASE k # n
      <4>1. k \in 1 .. n - 1
        BY <3>4, <1>3
      <4> QED BY <3>1, <3>2, <4>1, <1>6
    <3> QED BY <3>3, <3>4
  <2>2. new # <<>>
    BY <1>3, <1>6
  <2> QED BY <1>1, <1>6, <2>1, <2>2 DEF Good
<1>9. Good(pc'[g], call'[g], stack'[g], schema'[g], cache')
  BY <1>1, <1>7, <1>8 DEF IInv, Shape, LookupHit
<1>10. \A h \in Goroutines \ {g} : stack'[h] = stack[h]
  BY <1>7 DEF IInv, Shape
<1> QED BY <1>2, <1>9, <1>10, OneStep DEF LookupHit

(* Beginning to build the schema of a nested field keeps it.                *)
LEMMA LookupMissInv == ASSUME IInv, NEW g \in Goroutines, LookupMiss(g) PROVE IInv'
<1> DEFINE st == stack[g]
           n == Len(st)
           f == Frame(NextField(Top(g)).of)
           new == Append(st, f)
<1>1. Good(pc[g], call[g], st, schema[g], cache) /\ pc[g] = "build"
  BY DEF IInv, GoroutineInv, LookupMiss, Building
<1>2. Shape' /\ Grows /\ CacheInv'
  BY Same DEF IInv, Shape, LookupMiss
<1>3. /\ st \in Seq(Frames) /\ st # <<>> /\ n \in Nat \ {0}
      /\ Top(g) = st[n] /\ Top(g) \in Frames /\ FrameInv(Top(g), cache)
      /\ Top(g).typ \in Types
  BY Innermost DEF LookupMiss
<1>4. Top(g).todo # {} /\ NextField(Top(g)).of \in Types
  <2>1. Top(g).todo # {}
    BY DEF LookupMiss
  <2> QED BY <2>1, <1>3, NextNested, Nested DEF FrameInv, NextField
<1>5. f \in Frames /\ f.typ = NextField(Top(g)).of /\ FrameInv(f, cache)
  BY <1>4, FrameBegins
<1> HIDE DEF f
<1>6. new \in Seq(Frames) /\ Len(new) = n + 1 /\ new[n + 1] = f /\ \A k \in 1 .. n : new[k] = st[k]
  BY <1>3, <1>5
<1>7. stack' = [stack EXCEPT ![g] = new]
  BY DEF LookupMiss, f
<1> HIDE DEF st, n, new
<1>8. Good("build", call[g], new, schema[g], cache)
  <2>1. ASSUME NEW k \in 1 .. n + 1
        PROVE  /\ FrameInv(new[k], cache)
               /\ new[k].typ = IF k = 1 THEN call[g].value.typ ELSE NextField(new[k - 1]).of
               /\ k < n + 1 => new[k].todo # {}
    <3>1. CASE k = n + 1
      BY <3>1, <1>3, <1>5, <1>6
    <3>2. CASE k # n + 1
      <4>1. k \in 1 .. n /\ (k # 1 => k - 1 \in 1 .. n)
        BY <3>2, <1>3
      <4>2. /\ FrameInv(st[k], cache)
            /\ st[k].typ = IF k = 1 THEN call[g].value.typ ELSE NextField(st[k - 1]).of
            /\ k < n => st[k].todo # {}
        BY <1>1, <4>1 DEF Good, n
      <4>3. k = n => st[k].todo # {}
        BY <1>3, <1>4
      <4> QED BY <4>1, <4>2, <4>3, <1>3, <1>6
    <3> QED BY <3>1, <3>2
  <2>2. new # <<>>
    BY <1>3, <1>6
  <2> QED BY <1>1, <1>6, <2>1, <2>2 DEF Good
<1>9. Good(pc'[g], call'[g], stack'[g], schema'[g], cache')
  BY <1>1, <1>7, <1>8 DEF IInv, Shape, LookupMiss
<1>10. \A h \in Goroutines \ {g} : stack'[h] = stack[h]
  BY <1>7 DEF IInv, Shape
<1> QED BY <1>2, <1>9, <1>10, OneStep DEF LookupMiss

(* Storing the schema of a nested field keeps it.                           *)
LEMMA StoreNestedInv == ASSUME IInv, NEW g \in Goroutines, StoreNested(g) PROVE IInv'
<1> DEFINE st == stack[g]
           n == Len(st)
           s == SchemaFrom(Top(g))
           below == SubSeq(st, 1, n - 1)
           b == st[n - 1]
           w == WithSub(b, s)
           new == Append(SubSeq(below, 1, n - 1 - 1), w)
<1>1. Good(pc[g], call[g], st, schema[g], cache) /\ pc[g] = "build"
  BY DEF IInv, GoroutineInv, StoreNested, Building
<1>2. /\ st \in Seq(Frames) /\ st # <<>> /\ n \in Nat \ {0}
      /\ Top(g) = st[n] /\ Top(g) \in Frames /\ FrameInv(Top(g), cache)
      /\ Top(g).typ \in Types
  BY Innermost DEF StoreNested
<1>3. cache' = [cache EXCEPT ![Top(g).typ] = s] /\ Top(g).todo = {} /\ n > 1
  BY DEF StoreNested, SchemaFrom
<1>4. /\ Grows /\ CacheInv' /\ cache' = [t \in Types |-> cache'[t]]
      /\ cache'[Top(g).typ] = s /\ s \in Schemas /\ s # NoSchema
  BY <1>2, <1>3, Stored DEF IInv, Shape
<1>5. n - 1 \in 1 .. n /\ n - 1 \in Nat /\ n \in 1 .. n
  BY <1>2, <1>3
<1>6. /\ b \in Frames /\ FrameInv(b, cache) /\ b.todo # {}
      /\ NextField(b).of = Top(g).typ
  <2>1. b \in Frames
    BY <1>2, <1>5
  <2>2. FrameInv(b, cache) /\ b.todo # {}
    BY <1>1, <1>5 DEF Good
  <2>3. st[n].typ = IF n = 1 THEN call[g].value.typ ELSE NextField(st[n - 1]).of
    BY <1>1, <1>5 DEF Good
  <2> QED BY <2>1, <2>2, <2>3, <1>2, <1>3
<1>7. FrameInv(b, cache')
  BY <1>4, <1>6, FrameStays DEF Frames
<1>8. w \in Frames /\ w.typ = b.typ /\ FrameInv(w, cache')
  BY <1>4, <1>6, <1>7, FrameGoesOn
<1>9. below \in Seq(Frames) /\ Len(below) = n - 1 /\ \A k \in 1 .. n - 1 : below[k] = st[k]
  BY <1>2, L!Shorter
<1>10. below # <<>>
  <2> HIDE DEF below, n
  <2>1. Len(below) # 0
    BY <1>5, <1>9, <1>3
  <2> QED BY <2>1
<1>11. new \in Seq(Frames) /\ Len(new) = n - 1 /\ new[n - 1] = w
       /\ \A k \in 1 .. n - 1 - 1 : new[k] = below[k]
  <2> HIDE DEF below, w
  <2> QED BY <1>8, <1>9, <1>10, L!LastReplaced
<1>12. stack' = [stack EXCEPT ![g] = new]
  <2>1. Last(below) = b
    BY <1>5, <1>9 DEF Last
  <2> QED BY <2>1, <1>9 DEF StoreNested, Front
<1> HIDE DEF st, n, s, below, b, w, new
<1>13. Good("build", call[g], st, schema[g], cache')
  BY <1>1, <1>4, GoodStays
<1>14. Good("build", call[g], new, schema[g], cache')
  <2>1. ASSUME NEW k \in 1 .. n - 1
        PROVE  /\ FrameInv(new[k], cache')
               /\ new[k].typ = IF k = 1 THEN call[g].value.typ ELSE NextField(new[k - 1]).of
               /\ k < n - 1 => new[k].todo # {}
    <3>1. k \in 1 .. n /\ k < n
      BY <1>5
    <3>2. /\ FrameInv(st[k], cache')
          /\ st[k].typ = IF k = 1 THEN call[g].value.typ ELSE NextField(st[k - 1]).of
          /\ st[k].todo # {}
      BY <1>13, <3>1 DEF Good, n
    <3>3. k # 1 => k - 1 \in 1 .. n - 1 - 1 /\ k - 1 \in 1 .. n - 1
      BY <1>5
    <3>4. k # 1 => new[k - 1] = st[k - 1]
      BY <3>3, <1>9, <1>11
    <3>5. CASE k = n - 1
      BY <3>2, <3>4, <3>5, <1>8, <1>11 DEF b
    <3>6. CASE k # n - 1
      <4>1. k \in 1 .. n - 1 - 1
        BY <3>6, <1>5
      <4> QED BY <4>1, <3>2, <3>4, <1>9, <1>11
    <3> QED BY <3>5, <3>6
  <2>2. new # <<>>
    BY <1>3, <1>5, <1>11
  <2> QED BY <1>11, <1>13, <2>1, <2>2 DEF Good
<1>15. Shape'
  BY <1>4, <1>12 DEF IInv, Shape, StoreNested
<1>16. Good(pc'[g], call'[g], stack'[g], schema'[g], cache')
  BY <1>1, <1>12, <1>14 DEF IInv, Shape, StoreNested
<1>17. \A h \in Goroutines \ {g} : stack'[h] = stack[h]
  BY <1>12 DEF IInv, Shape
<1> QED BY <1>4, <1>15, <1>16, <1>17, OneStep DEF StoreNested

(* Storing the schema of the call, or taking another's, keeps it.           *)
LEMMA StoreOwnInv == ASSUME IInv, NEW g \in Goroutines, StoreOwn(g) PROVE IInv'
<1> DEFINE t == call[g].value.typ
           s == SchemaFrom(Top(g))
<1>1. Good(pc[g], call[g], stack[g], schema[g], cache) /\ Building(g)
  BY DEF IInv, GoroutineInv, StoreOwn, Goto, Building
<1>2. /\ Top(g) = stack[g][1] /\ Top(g).typ \in Types /\ FrameInv(Top(g), cache)
      /\ Top(g).todo = {}
  BY <1>1, Innermost DEF StoreOwn
<1>3. Top(g).typ = t
  BY <1>1, <1>2, Innermost DEF Good, StoreOwn
<1>4. t \in Done => s = cache[t]
  BY <1>2, <1>3, Finished DEF IInv
<1>5. cache' = [cache EXCEPT ![Top(g).typ] = s] /\ schema' = [schema EXCEPT ![g] = s]
  <2>1. s.typ = t
    BY <1>3 DEF SchemaFrom
  <2>2. cache[t] # NoSchema => s = cache[t]
    BY <1>2, <1>3, <1>4 DEF Done
  <2> HIDE DEF s
  <2> QED BY <1>3, <2>1, <2>2 DEF StoreOwn, s
<1>6. /\ Grows /\ CacheInv' /\ cache' = [u \in Types |-> cache'[u]]
      /\ cache'[t] = s /\ s # NoSchema
  BY <1>2, <1>3, <1>5, Stored DEF IInv, Shape
<1> HIDE DEF s
<1>7. <<>> \in Seq(Frames) /\ Len(<<>>) = 0
  OBVIOUS
<1>8. Good("read", call[g], <<>>, s, cache')
  BY <1>1, <1>6, <1>7 DEF Good, Building
<1>9. Shape'
  BY <1>5, <1>6 DEF IInv, Shape, StoreOwn, Goto
<1>10. Good(pc'[g], call'[g], stack'[g], schema'[g], cache')
  BY <1>5, <1>8 DEF IInv, Shape, StoreOwn, Goto
<1>11. \A h \in Goroutines \ {g} : /\ pc'[h] = pc[h] /\ stack'[h] = stack[h]
                                   /\ call'[h] = call[h] /\ schema'[h] = schema[h]
  BY <1>5 DEF IInv, Shape, StoreOwn, Goto
<1> QED BY <1>6, <1>9, <1>10, <1>11, OneStep

(* The invariant holds in every reachable state.                            *)
THEOREM Invariance == Safety => []IInv
<1>1. IInv /\ [Next]_vars => IInv'
  <2> SUFFICES ASSUME IInv, [Next]_vars
               PROVE  IInv'
    OBVIOUS
  <2>1. CASE UNCHANGED vars
    <3>1. Done' = Done
      BY <2>1 DEF Done, vars
    <3> QED BY <2>1, <3>1 DEF vars, IInv, Shape, CacheInv, IsSchema, GoroutineInv
  <2>2. ASSUME NEW g \in Goroutines, Step(g)
        PROVE  IInv'
    BY <2>2, LoadHitInv, LoadMissInv, LookupHitInv, LookupMissInv, StoreNestedInv,
       StoreOwnInv, ReadInv, ReturnInv DEF Step
  <2>3. ASSUME NEW g \in Goroutines, NEW fn \in {"Compile", "GetByPtr"}, NEW v \in Values,
               NEW p \in Paths, Call(g, fn, v, p)
        PROVE  IInv'
    BY <2>3, CallStepInv
  <2> QED BY <2>1, <2>2, <2>3 DEF Next
<1> QED BY <1>1, InitInv, PTL DEF Safety

(* A goroutine is inside buildSchema exactly while it builds, outermost for *)
(* the type of its call and further in for the field the build below is at, *)
(* and it reads with the schema of the type of its call.                    *)
THEOREM TypeCorrect == Safety => []TypeOK
<1>1. IInv => TypeOK
  <2> SUFFICES ASSUME IInv, NEW g \in Goroutines
               PROVE  /\ pc[g] \in {"idle", "load", "build", "read", "done"}
                      /\ (pc[g] = "build") = (stack[g] # <<>>)
                      /\ (pc[g] \in {"read", "done"}) = (schema[g] # NoSchema)
                      /\ schema[g] # NoSchema => schema[g].typ = call[g].value.typ
                      /\ \A k \in 1 .. Len(stack[g]) :
                           stack[g][k].typ = IF k = 1 THEN call[g].value.typ
                                             ELSE NextField(stack[g][k - 1]).of
    BY DEF TypeOK
  <2>1. Good(pc[g], call[g], stack[g], schema[g], cache)
    BY DEF IInv, GoroutineInv
  <2>2. ASSUME schema[g] # NoSchema
        PROVE  schema[g].typ = call[g].value.typ
    <3> DEFINE t == call[g].value.typ
    <3>1. t \in Types
      BY <2>1, <2>2, SchemaAssumption DEF Good, Calls
    <3>2. t \in Done /\ schema[g] = cache[t]
      BY <2>1, <2>2, <3>1 DEF Good, Done
    <3> HIDE DEF t
    <3>3. cache[t] = SchemaUpTo[Cardinality(Done)][t]
      BY <3>2, CacheFinite DEF IInv, CacheInv, IsSchema
    <3>4. SchemaUpTo[Cardinality(Done)][t].typ = t
      BY <3>1, CacheFinite, SchemaTyp
    <3> QED BY <3>2, <3>3, <3>4 DEF t
  <2> QED BY <2>1, <2>2 DEF Good
<1> QED BY <1>1, Invariance, PTL

(* A schema in the cache is the schema of its type at every depth, so no    *)
(* goroutine loads one whose nested types are still being gone through,     *)
(* however the loads and stores of Compile, GetByPtr and lookupOrBuild fall. *)
THEOREM WholeSchemas == Safety => []SchemasComplete
<1>1. IInv => SchemasComplete
  BY CacheFinite DEF IInv, CacheInv, IsSchema, SchemasComplete, SchemaOf, Done
<1> QED BY <1>1, Invariance, PTL
-----------------------------------------------------------------------------
(* Where the walk of getAt begins.                                           *)
Start(s) == [state |-> "struct", schema |-> s, at |-> <<>>, of |-> "any"]

(* The walk of getAt is the sequence of its steps: the recursion has a       *)
(* solution, by induction on the length of the path.                         *)
LEMMA DownIs ==
    ASSUME NEW s, NEW nils, NEW path, Len(path) \in Nat
    PROVE  \E walk :
             /\ walk[0] = Start(s)
             /\ \A k \in 0 .. Len(path) - 1 : walk[k + 1] = Into(walk[k], path[k + 1], nils)
             /\ Down(s, nils, path) = walk[Len(path)]
<1> DEFINE N == Len(path)
           Fits(g, n) == /\ g = [k \in 0 .. n |-> g[k]]
                         /\ g[0] = Start(s)
                         /\ \A k \in 0 .. n - 1 : g[k + 1] = Into(g[k], path[k + 1], nils)
<1>1. \A n \in Nat : \E g : Fits(g, n)
  <2> DEFINE S == {n \in Nat : \E g : Fits(g, n)}
  <2>1. 0 \in S
    <3>1. Fits([k \in 0 .. 0 |-> Start(s)], 0)
      OBVIOUS
    <3> QED BY <3>1
  <2>2. ASSUME NEW n \in Nat, n \in S
        PROVE  n + 1 \in S
    <3>1. PICK g : Fits(g, n)
      BY <2>2
    <3> DEFINE h == [k \in 0 .. n + 1 |-> IF k <= n THEN g[k] ELSE Into(g[n], path[n + 1], nils)]
    <3>2. h = [k \in 0 .. n + 1 |-> h[k]] /\ h[0] = Start(s)
      BY <3>1
    <3>3. ASSUME NEW k \in 0 .. n + 1 - 1
          PROVE  h[k + 1] = Into(h[k], path[k + 1], nils)
      <4>1. CASE k < n
        <5>1. k \in 0 .. n - 1 /\ k + 1 \in 0 .. n
          BY <4>1
        <5>2. h[k] = g[k] /\ h[k + 1] = g[k + 1]
          BY <5>1
        <5>3. g[k + 1] = Into(g[k], path[k + 1], nils)
          BY <5>1, <3>1
        <5> HIDE DEF h
        <5> QED BY <5>2, <5>3
      <4>2. CASE k = n
        BY <4>2, <3>1
      <4> QED BY <4>1, <4>2
    <3> HIDE DEF h
    <3>4. Fits(h, n + 1)
      BY <3>2, <3>3
    <3> HIDE DEF Fits
    <3>5. \E x : Fits(x, n + 1)
      BY <3>4
    <3> QED BY <3>5
  <2> HIDE DEF S
  <2>3. \A n \in Nat : n \in S
    BY <2>1, <2>2, L!Induction
  <2> QED BY <2>3 DEF S
<1>2. PICK g : Fits(g, N)
  BY <1>1
<1> DEFINE Eq(w) == w = [k \in 0 .. Len(path) |->
                           IF k = 0 THEN [state |-> "struct", schema |-> s, at |-> <<>>, of |-> "any"]
                           ELSE Into(w[k - 1], path[k], nils)]
<1>3. Eq(g)
  <2>1. \A k \in 0 .. N : g[k] = IF k = 0 THEN [state |-> "struct", schema |-> s, at |-> <<>>, of |-> "any"]
                                 ELSE Into(g[k - 1], path[k], nils)
    <3> TAKE k \in 0 .. N
    <3>1. CASE k = 0
      BY <3>1, <1>2 DEF Start
    <3>2. CASE k # 0
      <4>1. k - 1 \in 0 .. N - 1 /\ k - 1 + 1 = k
        BY <3>2
      <4> QED BY <4>1, <3>2, <1>2
    <3> QED BY <3>1, <3>2
  <2> QED BY <2>1, <1>2
<1>4. \A w : Eq(w) => /\ w[0] = Start(s)
                      /\ \A k \in 0 .. N - 1 : w[k + 1] = Into(w[k], path[k + 1], nils)
  <2> TAKE w
  <2> HAVE Eq(w)
  <2>1. w[0] = Start(s)
    BY DEF Start
  <2>2. ASSUME NEW k \in 0 .. N - 1
        PROVE  w[k + 1] = Into(w[k], path[k + 1], nils)
    <3> DEFINE m == k + 1
    <3>1. m \in 0 .. N /\ m # 0 /\ m - 1 = k
      OBVIOUS
    <3> HIDE DEF m
    <3>2. w[m] = Into(w[m - 1], path[m], nils)
      BY <3>1
    <3> QED BY <3>1, <3>2 DEF m
  <2> QED BY <2>1, <2>2
<1> DEFINE walk == CHOOSE w : Eq(w)
<1> HIDE DEF Eq
<1>5. Eq(walk)
  BY <1>3
<1>6. Down(s, nils, path) = walk[Len(path)]
  BY DEF Down, Eq
<1> HIDE DEF walk
<1> QED BY <1>4, <1>5, <1>6

(* A schema that is whole, whatever its type.                                *)
Whole(s) == s.typ \in Types /\ IsSchema(s, s.typ, Cardinality(Types))

(* The schema in a whole schema is whole.                                    *)
LEMMA SubWhole ==
    ASSUME NEW s, Whole(s), NEW k \in NestedIn(s.typ)
    PROVE  LET sub == s.subs[Fields[s.typ][k].name]
           IN  Whole(sub) /\ sub.typ = Fields[s.typ][k].of
<1> DEFINE t == s.typ
           u == Fields[t][k].of
           name == Fields[t][k].name
           sub == s.subs[name]
<1>0. Cardinality(Types) \in Nat /\ t \in Types /\ u \in Types
  BY CacheFinite, Nested DEF Whole
<1>1. FieldCalled(t, name) = Fields[t][k] /\ name \in Names(t)
  BY <1>0, FieldCalledIs DEF NestedIn, Names
<1>2. ASSUME NEW n \in Nat, n >= Cardinality(Types)
      PROVE  sub = SchemaUpTo[n][u]
  <2>1. n + 1 \in Nat /\ n + 1 >= Cardinality(Types)
    BY <1>0, <1>2
  <2>2. s = SchemaUpTo[n + 1][t]
    BY <2>1 DEF Whole, IsSchema
  <2>3. SchemaUpTo[n + 1][t] = Level(SchemaUpTo[n], t)
    BY <1>0, SchemaUpToDef
  <2> QED BY <2>2, <2>3, <1>1 DEF Level
<1>3. sub.typ = u
  BY <1>0, <1>2, SchemaTyp
<1> QED BY <1>0, <1>2, <1>3 DEF Whole, IsSchema

(* A record of the walk, and a field that it can go to.                      *)
IsWalk(w) == w = [state |-> w.state, schema |-> w.schema, at |-> w.at, of |-> w.of]

Passable(f, at, nils) == ~ (Points(f) /\ at \in nils)

(* A step of the walk to a field it can go to.                               *)
LEMMA IntoField ==
    ASSUME NEW w, NEW n, NEW nils, NEW f, NEW at, at = Append(w.at, n),
           IsWalk(w), w.state = "struct", Whole(w.schema),
           f \in FieldsOf(w.schema.typ), f.name = n, Passable(f, at, nils)
    PROVE  /\ IsWalk(Into(w, n, nils))
           /\ Into(w, n, nils).at = at
           /\ Nests(f) => /\ Into(w, n, nils).state = "struct"
                          /\ Whole(Into(w, n, nils).schema)
                          /\ Into(w, n, nils).schema.typ = f.of
           /\ ~ Nests(f) => /\ Into(w, n, nils).state = "value"
                            /\ Into(w, n, nils).of = f.of
<1> DEFINE t == w.schema.typ
<1>1. t \in Types
  BY DEF Whole
<1>2. PICK k \in DOMAIN Fields[t] : f = Fields[t][k]
  BY DEF FieldsOf
<1>3. FieldCalled(t, n) = f
  BY <1>1, <1>2, FieldCalledIs
<1>4. n \in {h.name : h \in FieldsOf(t)}
  OBVIOUS
<1>5. Into(w, n, nils) = IF Nests(f) THEN [w EXCEPT !.schema = w.schema.subs[n], !.at = at]
                         ELSE [w EXCEPT !.state = "value", !.at = at, !.of = f.of]
  BY <1>3, <1>4 DEF Into, Passable
<1>6. CASE Nests(f)
  <2>1. k \in NestedIn(t)
    BY <1>2, <1>6 DEF NestedIn
  <2>2. Whole(w.schema.subs[n]) /\ w.schema.subs[n].typ = f.of
    BY <2>1, <1>2, SubWhole
  <2>3. Into(w, n, nils) = [state |-> "struct", schema |-> w.schema.subs[n], at |-> at, of |-> w.of]
    BY <1>5, <1>6 DEF IsWalk
  <2> QED BY <2>2, <2>3, <1>6 DEF IsWalk
<1>7. CASE ~ Nests(f)
  <2>1. Into(w, n, nils) = [state |-> "value", schema |-> w.schema, at |-> at, of |-> f.of]
    BY <1>5, <1>7 DEF IsWalk
  <2> QED BY <2>1, <1>7 DEF IsWalk
<1> QED BY <1>6, <1>7

(* A step of the walk goes to such a field, or nowhere.                      *)
LEMMA IntoMissing ==
    ASSUME NEW w, IsWalk(w), NEW n, NEW nils, w.state = "struct" => Whole(w.schema)
    PROVE  LET v == Into(w, n, nils)
           IN  \/ /\ w.state = "struct"
                  /\ \E f \in FieldsOf(w.schema.typ) :
                        f.name = n /\ Passable(f, Append(w.at, n), nils)
               \/ IsWalk(v) /\ v.state = "missing"
<1> DEFINE t == w.schema.typ
           at == Append(w.at, n)
<1>1. CASE \/ w.state # "struct"
           \/ n \notin {h.name : h \in FieldsOf(t)}
           \/ Points(FieldCalled(t, n)) /\ at \in nils
  <2>1. Into(w, n, nils) = [w EXCEPT !.state = "missing"]
    BY <1>1 DEF Into
  <2>2. [w EXCEPT !.state = "missing"] = [state |-> "missing", schema |-> w.schema, at |-> w.at, of |-> w.of]
    BY DEF IsWalk
  <2> QED BY <2>1, <2>2 DEF IsWalk
<1>2. CASE /\ w.state = "struct"
           /\ n \in {h.name : h \in FieldsOf(t)}
           /\ ~ (Points(FieldCalled(t, n)) /\ at \in nils)
  <2>1. PICK h \in FieldsOf(t) : h.name = n
    BY <1>2
  <2>2. FieldCalled(t, n) \in FieldsOf(t) /\ FieldCalled(t, n).name = n
    BY <2>1 DEF FieldCalled
  <2> QED BY <1>2, <2>2 DEF Passable
<1> QED BY <1>1, <1>2

(* The walk of getAt reads a field exactly if the types say that it can.      *)
LEMMA GetAtRight ==
    ASSUME NEW v \in Values, NEW p \in Paths, NEW s, Whole(s), s.typ = v.typ
    PROVE  LET w == Down(s, v.nils, p)
           IN  /\ w.state = "value" => w.at = p
               /\ \A as : Readable(v, p, as) <=> w.state = "value" /\ as \in {"any", w.of}
<1> DEFINE N == Len(p)
           nils == v.nils
           Upto(k) == SubSeq(p, 1, k)
<1>1. p \in Seq(STRING) /\ N \in Nat
  BY SchemaAssumption
<1>2. PICK walk : /\ walk[0] = Start(s)
                  /\ \A k \in 0 .. N - 1 : walk[k + 1] = Into(walk[k], p[k + 1], nils)
                  /\ Down(s, nils, p) = walk[N]
  BY <1>1, DownIs
<1>3. Upto(0) = <<>> /\ Upto(N) = p /\ \A k \in 0 .. N - 1 : Upto(k + 1) = Append(Upto(k), p[k + 1])
  BY <1>1
<1> HIDE DEF Upto
<1> DEFINE WalkInv(w, k) ==
             /\ IsWalk(w)
             /\ w.state \in {"struct", "value", "missing"}
             /\ w.state = "struct" => Whole(w.schema)
             /\ w.state # "missing" => w.at = Upto(k)
(* A step of the walk, with the field it goes to. *)
<1>4. ASSUME NEW k \in 0 .. N - 1, WalkInv(walk[k], k), walk[k + 1].state # "missing"
      PROVE  /\ walk[k].state = "struct"
             /\ \E f \in FieldsOf(walk[k].schema.typ) :
                  /\ f.name = p[k + 1]
                  /\ Passable(f, Upto(k + 1), nils)
                  /\ Nests(f) => walk[k + 1].state = "struct" /\ walk[k + 1].schema.typ = f.of
                  /\ ~ Nests(f) => walk[k + 1].state = "value" /\ walk[k + 1].of = f.of
  <2>1. walk[k + 1] = Into(walk[k], p[k + 1], nils)
    BY <1>2
  <2>2. /\ walk[k].state = "struct"
        /\ \E f \in FieldsOf(walk[k].schema.typ) :
              f.name = p[k + 1] /\ Passable(f, Append(walk[k].at, p[k + 1]), nils)
    BY <1>4, <2>1, IntoMissing
  <2>3. PICK f \in FieldsOf(walk[k].schema.typ) :
              f.name = p[k + 1] /\ Passable(f, Append(walk[k].at, p[k + 1]), nils)
    BY <2>2
  <2>4. Append(walk[k].at, p[k + 1]) = Upto(k + 1)
    BY <1>3, <1>4, <2>2
  <2>5. /\ Nests(f) => walk[k + 1].state = "struct" /\ walk[k + 1].schema.typ = f.of
        /\ ~ Nests(f) => walk[k + 1].state = "value" /\ walk[k + 1].of = f.of
    <3>1. Passable(f, Upto(k + 1), nils) /\ Upto(k + 1) = Append(walk[k].at, p[k + 1])
      BY <2>3, <2>4
    <3>2. IsWalk(walk[k]) /\ walk[k].state = "struct" /\ Whole(walk[k].schema)
      BY <1>4, <2>2
    <3> QED BY <2>1, <2>3, <3>1, <3>2, IntoField
  <2> QED BY <2>2, <2>3, <2>4, <2>5
<1>5. \A k \in 0 .. N : WalkInv(walk[k], k)
  <2> DEFINE S == {k \in Nat : k <= N => WalkInv(walk[k], k)}
  <2>1. 0 \in S
    BY <1>2, <1>3 DEF Start, IsWalk
  <2>2. ASSUME NEW k \in Nat, k \in S
        PROVE  k + 1 \in S
    <3> SUFFICES ASSUME k + 1 <= N
                 PROVE  WalkInv(walk[k + 1], k + 1)
      OBVIOUS
    <3>1. k \in 0 .. N - 1 /\ k <= N
      BY <1>1
    <3>2. WalkInv(walk[k], k) /\ walk[k + 1] = Into(walk[k], p[k + 1], nils)
      BY <2>2, <3>1, <1>2
    <3>3. CASE walk[k].state = "struct" /\ \E f \in FieldsOf(walk[k].schema.typ) :
                 f.name = p[k + 1] /\ Passable(f, Append(walk[k].at, p[k + 1]), nils)
      <4>1. PICK f \in FieldsOf(walk[k].schema.typ) :
                 f.name = p[k + 1] /\ Passable(f, Append(walk[k].at, p[k + 1]), nils)
        BY <3>3
      <4>2. Append(walk[k].at, p[k + 1]) = Upto(k + 1)
        BY <1>3, <3>1, <3>2, <3>3
      <4> QED BY <3>2, <3>3, <4>1, <4>2, IntoField
    <3>4. CASE IsWalk(walk[k + 1]) /\ walk[k + 1].state = "missing"
      BY <3>4
    <3> QED BY <3>2, <3>3, <3>4, IntoMissing
  <2> HIDE DEF S
  <2>3. \A k \in Nat : k \in S
    BY <2>1, <2>2, L!Induction
  <2> QED BY <1>1, <2>3 DEF S
<1> DEFINE w == walk[N]
(* What is read is readable. *)
<1>6. ASSUME w.state = "value"
      PROVE  /\ w.at = p
             /\ \A as \in {"any", w.of} : Readable(v, p, as)
  <2>1. w.at = p
    BY <1>1, <1>3, <1>5, <1>6
  <2>2. N # 0
    BY <1>2, <1>6 DEF Start
  <2>3. \A k \in 0 .. N - 1 : walk[k].state = "struct"
    <3> DEFINE S == {j \in Nat : j < N => walk[N - 1 - j].state = "struct"}
    <3>1. 0 \in S
      <4>1. N - 1 \in 0 .. N - 1 /\ N - 1 \in 0 .. N /\ N - 1 + 1 = N
        BY <1>1, <2>2
      <4>2. walk[N - 1].state = "struct"
        BY <4>1, <1>4, <1>5, <1>6
      <4> QED BY <4>2
    <3>2. ASSUME NEW j \in Nat, j \in S
          PROVE  j + 1 \in S
      <4> SUFFICES ASSUME j + 1 < N
                   PROVE  walk[N - 1 - (j + 1)].state = "struct"
        OBVIOUS
      <4> DEFINE k == N - 1 - (j + 1)
      <4>1. k \in 0 .. N - 1 /\ k \in 0 .. N /\ k + 1 = N - 1 - j
        BY <1>1
      <4>2. walk[k + 1].state = "struct"
        BY <3>2, <4>1, <1>1
      <4> HIDE DEF k
      <4>3. walk[k].state = "struct"
        BY <4>1, <4>2, <1>4, <1>5
      <4> QED BY <4>3 DEF k
    <3> HIDE DEF S
    <3>3. \A j \in Nat : j \in S
      BY <3>1, <3>2, L!Induction
    <3> TAKE k \in 0 .. N - 1
    <3>4. N - 1 - k \in Nat /\ N - 1 - k < N /\ N - 1 - (N - 1 - k) = k
      BY <1>1
    <3> QED BY <3>3, <3>4 DEF S
  <2> DEFINE ts == [k \in 1 .. N |-> walk[k - 1].schema.typ]
  <2>4. ts \in [1 .. N -> Types]
    <3>1. ASSUME NEW k \in 1 .. N
          PROVE  walk[k - 1].schema.typ \in Types
      <4>1. k - 1 \in 0 .. N - 1 /\ k - 1 \in 0 .. N
        BY <1>1
      <4> QED BY <4>1, <2>3, <1>5 DEF Whole
    <3> QED BY <3>1
  <2>5. ts[1] = v.typ
    BY <1>1, <1>2, <2>2 DEF Start
  <2>6. ASSUME NEW as \in {"any", w.of}, NEW k \in 1 .. N
        PROVE  \E f \in FieldsOf(ts[k]) :
                 /\ f.name = p[k]
                 /\ k < N => Nests(f) /\ f.of = ts[k + 1]
                 /\ k = N => ~Nests(f) /\ as \in {"any", f.of}
                 /\ Points(f) => Upto(k) \notin nils
    <3> DEFINE j == k - 1
    <3>1. j \in 0 .. N - 1 /\ j \in 0 .. N /\ j + 1 = k
      BY <1>1
    <3>2. k < N => k \in 0 .. N - 1 /\ k + 1 \in 1 .. N /\ k + 1 - 1 = k
      BY <1>1
    <3>3. ts[k] = walk[j].schema.typ
      OBVIOUS
    <3>4. k < N => ts[k + 1] = walk[k].schema.typ
      BY <3>2
    <3> HIDE DEF j, ts
    <3>5. k < N => walk[j + 1].state = "struct"
      BY <3>1, <3>2, <2>3
    <3>6. k = N => walk[j + 1].state = "value"
      BY <3>1, <1>6
    <3>7. walk[j + 1].state # "missing"
      BY <3>5, <3>6, <3>1
    <3>8. PICK f \in FieldsOf(walk[j].schema.typ) :
                  /\ f.name = p[j + 1]
                  /\ Passable(f, Upto(j + 1), nils)
                  /\ Nests(f) => walk[j + 1].state = "struct" /\ walk[j + 1].schema.typ = f.of
                  /\ ~ Nests(f) => walk[j + 1].state = "value" /\ walk[j + 1].of = f.of
      BY <3>1, <3>7, <1>4, <1>5
    <3> QED BY <2>6, <3>1, <3>3, <3>4, <3>5, <3>6, <3>8 DEF Passable
  <2>7. p # <<>>
    BY <2>2
  <2> QED BY <2>1, <2>4, <2>5, <2>6, <2>7 DEF Readable, Upto
(* What is readable is read. *)
<1>7. ASSUME NEW as, Readable(v, p, as)
      PROVE  w.state = "value" /\ as \in {"any", w.of}
  <2>1. N # 0
    BY <1>1, <1>7 DEF Readable
  <2>2. PICK ts \in [1 .. N -> Types] :
         /\ ts[1] = v.typ
         /\ \A k \in 1 .. N : \E f \in FieldsOf(ts[k]) :
              /\ f.name = p[k]
              /\ k < N => Nests(f) /\ f.of = ts[k + 1]
              /\ k = N => ~Nests(f) /\ as \in {"any", f.of}
              /\ Points(f) => Upto(k) \notin nils
    BY <1>7 DEF Readable, Upto
  <2>3. ASSUME NEW k \in 0 .. N - 1, walk[k].state = "struct", walk[k].schema.typ = ts[k + 1]
        PROVE  /\ k + 1 < N => walk[k + 1].state = "struct" /\ walk[k + 1].schema.typ = ts[k + 2]
               /\ k + 1 = N => walk[k + 1].state = "value" /\ as \in {"any", walk[k + 1].of}
    <3>1. k + 1 \in 1 .. N /\ k \in 0 .. N /\ k + 1 + 1 = k + 2
      BY <1>1
    <3>2. PICK f \in FieldsOf(walk[k].schema.typ) :
              /\ f.name = p[k + 1]
              /\ k + 1 < N => Nests(f) /\ f.of = ts[k + 2]
              /\ k + 1 = N => ~Nests(f) /\ as \in {"any", f.of}
              /\ Points(f) => Upto(k + 1) \notin nils
      BY <2>2, <2>3, <3>1
    <3>3. WalkInv(walk[k], k)
      BY <3>1, <1>5
    <3>4. Append(walk[k].at, p[k + 1]) = Upto(k + 1)
      BY <1>3, <2>3, <3>3
    <3>5. /\ Passable(f, Upto(k + 1), nils)
          /\ IsWalk(walk[k]) /\ Whole(walk[k].schema)
      BY <2>3, <3>2, <3>3 DEF Passable
    <3>6. walk[k + 1] = Into(walk[k], p[k + 1], nils)
      BY <1>2
    <3>7. /\ Nests(f) => walk[k + 1].state = "struct" /\ walk[k + 1].schema.typ = f.of
          /\ ~ Nests(f) => walk[k + 1].state = "value" /\ walk[k + 1].of = f.of
      BY <2>3, <3>2, <3>4, <3>5, <3>6, IntoField
    <3> QED BY <3>2, <3>7
  <2>4. \A k \in 0 .. N - 1 : walk[k].state = "struct" /\ walk[k].schema.typ = ts[k + 1]
    <3> DEFINE S == {k \in Nat : k < N => walk[k].state = "struct" /\ walk[k].schema.typ = ts[k + 1]}
    <3>1. 0 \in S
      BY <1>2, <2>2 DEF Start
    <3>2. ASSUME NEW k \in Nat, k \in S
          PROVE  k + 1 \in S
      <4> SUFFICES ASSUME k + 1 < N
                   PROVE  walk[k + 1].state = "struct" /\ walk[k + 1].schema.typ = ts[k + 1 + 1]
        OBVIOUS
      <4>1. k \in 0 .. N - 1 /\ k < N /\ k + 1 + 1 = k + 2
        BY <1>1
      <4> QED BY <3>2, <4>1, <2>3
    <3> HIDE DEF S
    <3>3. \A k \in Nat : k \in S
      BY <3>1, <3>2, L!Induction
    <3> QED BY <1>1, <3>3 DEF S
  <2>5. N - 1 \in 0 .. N - 1 /\ N - 1 + 1 = N
    BY <1>1, <2>1
  <2> QED BY <2>3, <2>4, <2>5
<1> HIDE DEF w
<1>8. Down(s, v.nils, p) = w
  BY <1>2 DEF w
<1> QED BY <1>6, <1>7, <1>8

(* So does the read, with the type that the caller asserts.                  *)
LEMMA AssertedRight ==
    ASSUME NEW v \in Values, NEW p \in Paths, NEW s, Whole(s), s.typ = v.typ, NEW as,
           NEW r, r = Asserted(GetAt(s, v.nils, p), as)
    PROVE  /\ r.as = as
           /\ r.ok \in BOOLEAN
           /\ r.ok <=> Readable(v, p, as)
           /\ r.ok => r.at = p
<1> DEFINE w == Down(s, v.nils, p)
<1>1. /\ w.state = "value" => w.at = p
      /\ Readable(v, p, as) <=> w.state = "value" /\ as \in {"any", w.of}
  BY GetAtRight
<1>2. GetAt(s, v.nils, p) = IF w.state = "value" THEN Value(w.at, w.of) ELSE Missing
  BY DEF GetAt
<1> HIDE DEF w
<1>3. CASE w.state = "value" /\ as \in {"any", w.of}
  <2>1. Asserted(Value(w.at, w.of), as) = Value(w.at, as)
    BY <1>3 DEF Asserted, Value
  <2>2. r = Value(w.at, as)
    BY <1>2, <1>3, <2>1
  <2>3. r.as = as /\ r.ok = TRUE /\ r.at = w.at
    BY <2>2 DEF Value
  <2> QED BY <1>1, <1>3, <2>3
<1>4. CASE w.state = "value" /\ as \notin {"any", w.of}
  <2>1. Asserted(Value(w.at, w.of), as) = [ok |-> FALSE, at |-> <<>>, as |-> as]
    BY <1>4 DEF Asserted, Value, Missing
  <2>2. r = [ok |-> FALSE, at |-> <<>>, as |-> as]
    BY <1>2, <1>4, <2>1
  <2>3. r.as = as /\ r.ok = FALSE
    BY <2>2
  <2> QED BY <1>1, <1>4, <2>3
<1>5. CASE w.state # "value"
  <2>1. Asserted(Missing, as) = [ok |-> FALSE, at |-> <<>>, as |-> as]
    BY DEF Asserted, Missing
  <2>2. r = [ok |-> FALSE, at |-> <<>>, as |-> as]
    BY <1>2, <1>5, <2>1
  <2>3. r.as = as /\ r.ok = FALSE
    BY <2>2
  <2> QED BY <1>1, <1>5, <2>3
<1> QED BY <1>3, <1>4, <1>5

(* A schema in the cache is whole.                                           *)
LEMMA WholeInCache ==
    ASSUME CacheInv, NEW t \in Done
    PROVE  Whole(cache[t]) /\ cache[t].typ = t
<1> DEFINE c == Cardinality(Done)
<1>1. c \in Nat /\ Cardinality(Types) \in Nat /\ c <= Cardinality(Types) /\ t \in Types
  BY CacheFinite DEF Done
<1> HIDE DEF c
<1>2. IsSchema(cache[t], t, c)
  BY DEF CacheInv, c
<1>3. cache[t].typ = t
  BY <1>1, <1>2, SchemaTyp DEF IsSchema
<1>4. IsSchema(cache[t], t, Cardinality(Types))
  BY <1>1, <1>2 DEF IsSchema
<1> QED BY <1>1, <1>3, <1>4 DEF Whole

(* What a goroutine reads is right.                                          *)
LEMMA ReadRight ==
    ASSUME IInv, ReadsRight, NEW g \in Goroutines, Read(g)
    PROVE  ReadsRight'
<1> USE DEF Read, Goto
<1> DEFINE v == call[g].value
           p == call[g].path
<1>1. Good(pc[g], call[g], stack[g], schema[g], cache) /\ pc[g] = "read"
  BY DEF IInv, GoroutineInv
<1>2. v \in Values /\ p \in Paths /\ v.typ \in Types
  BY <1>1, SchemaAssumption DEF Good, Calls
<1>3. schema[g] = cache[v.typ] /\ v.typ \in Done
  BY <1>1, <1>2 DEF Good, Done
<1>4. Whole(schema[g]) /\ schema[g].typ = v.typ
  BY <1>3, WholeInCache DEF IInv
<1>5. PICK t : result' = [result EXCEPT ![g] = Asserted(GetAt(schema[g], v.nils, p), t)]
  OBVIOUS
<1>6. result'[g] = Asserted(GetAt(schema[g], v.nils, p), t)
  BY <1>5 DEF IInv, Shape
<1> HIDE DEF v, p
<1>7. result'[g].ok <=> Readable(v, p, result'[g].as) /\ (result'[g].ok => result'[g].at = p)
  BY <1>2, <1>4, <1>6, AssertedRight
<1>8. \A h \in Goroutines \ {g} : result'[h] = result[h] /\ pc'[h] = pc[h]
  BY <1>5 DEF IInv, Shape
<1>9. ASSUME NEW h \in Goroutines, pc'[h] = "done"
      PROVE  /\ result'[h].ok <=> Readable(call'[h].value, call'[h].path, result'[h].as)
             /\ result'[h].ok => result'[h].at = call'[h].path
  BY <1>7, <1>8, <1>9 DEF ReadsRight, v, p
<1> QED BY <1>9 DEF ReadsRight

(* The other steps begin or end a call, or leave what is read alone.         *)
LEMMA OthersRead ==
    ASSUME IInv, ReadsRight, NEW g \in Goroutines,
           \/ pc'[g] # "done"
           \/ pc'[g] = pc[g] /\ result'[g] = result[g] /\ call'[g] = call[g],
           \A h \in Goroutines \ {g} : pc'[h] = pc[h] /\ result'[h] = result[h] /\ call'[h] = call[h]
    PROVE  ReadsRight'
BY DEF ReadsRight

(* Every read returns the field its path names, if the caller's type fits,  *)
(* or nothing, whoever built the schema it used.                            *)
THEOREM ReadsAreRight == Safety => []ReadsRight
<1>1. Init => ReadsRight
  BY DEF Init, ReadsRight
<1>2. IInv /\ ReadsRight /\ [Next]_vars => ReadsRight'
  <2> SUFFICES ASSUME IInv, ReadsRight, [Next]_vars
               PROVE  ReadsRight'
    OBVIOUS
  <2> USE DEF IInv, Shape
  <2>1. CASE UNCHANGED vars
    BY <2>1 DEF vars, ReadsRight
  <2>2. ASSUME NEW g \in Goroutines, LoadHit(g) \/ LoadMiss(g)
        PROVE  ReadsRight'
    BY <2>2, OthersRead DEF LoadHit, LoadMiss, Goto
  <2>3. ASSUME NEW g \in Goroutines, LookupHit(g) \/ LookupMiss(g) \/ StoreNested(g)
        PROVE  ReadsRight'
    BY <2>3, OthersRead DEF LookupHit, LookupMiss, StoreNested
  <2>4. ASSUME NEW g \in Goroutines, StoreOwn(g) \/ Return(g)
        PROVE  ReadsRight'
    <3>1. CASE StoreOwn(g)
      BY <3>1, OthersRead DEF StoreOwn, Goto
    <3>2. CASE Return(g)
      <4>1. pc'[g] = "idle"
        BY <3>2 DEF Return, Goto
      <4>2. \A h \in Goroutines \ {g} : pc'[h] = pc[h] /\ result'[h] = result[h] /\ call'[h] = call[h]
        BY <3>2 DEF Return, Goto
      <4> QED BY <4>1, <4>2 DEF ReadsRight
    <3> QED BY <2>4, <3>1, <3>2
  <2>5. ASSUME NEW g \in Goroutines, Read(g)
        PROVE  ReadsRight'
    BY <2>5, ReadRight
  <2>6. ASSUME NEW g \in Goroutines, NEW fn \in {"Compile", "GetByPtr"}, NEW v \in Values,
               NEW p \in Paths, Call(g, fn, v, p)
        PROVE  ReadsRight'
    <3>1. /\ pc'[g] = "load"
          /\ \A h \in Goroutines \ {g} : pc'[h] = pc[h] /\ result'[h] = result[h] /\ call'[h] = call[h]
      BY <2>6 DEF Call, Goto
    <3> QED BY <3>1 DEF ReadsRight
  <2> QED BY <2>1, <2>2, <2>3, <2>4, <2>5, <2>6 DEF Next, Step
<1> QED BY <1>1, <1>2, Invariance, PTL DEF Safety
=============================================================================
