---------------------------- MODULE SchemaCache ----------------------------
(***************************************************************************)
(* Package structfast (structfast.go, dyn.go): reading a field of a Go      *)
(* struct by a path, with the schema of its type from a cache that all       *)
(* goroutines share.  A schema is built with the schemas of the structs in   *)
(* it, which come from the cache, or are built and stored on the way.        *)
(*                                                                          *)
(* Each Load, Store and LoadOrStore of the cache is a step.                 *)
(***************************************************************************)
EXTENDS Integers, FiniteSets, SequencesExt

CONSTANTS
    Goroutines,
    Types,        \* the types of the values that are read, structs and others
    Scalars,      \* the types of the fields that are no structs
    Fields,       \* Fields[t]: the exported fields of t, in order
    Values,       \* pointers to structs: their types, and the paths of their
                  \*   fields that hold nil
    Paths,        \* the paths that are read, as sequences of names
    NoSchema,
    NoCall

FieldKinds == {"scalar", "ptrScalar", "struct", "ptrStruct"}
Nests(f) == f.kind \in {"struct", "ptrStruct"}
Points(f) == f.kind \in {"ptrScalar", "ptrStruct"}

(* No two fields of a struct have one name.                                  *)
ASSUME SchemaAssumption ==
    /\ IsFiniteSet(Types)
    /\ \A t \in Types :
         /\ \A k \in DOMAIN Fields[t] :
              /\ k \in Nat
              /\ Fields[t][k].kind \in FieldKinds
              /\ Fields[t][k].of \in (IF Nests(Fields[t][k]) THEN Types ELSE Scalars)
         /\ \A j, k \in DOMAIN Fields[t] : Fields[t][j].name = Fields[t][k].name => j = k
    /\ \A v \in Values : v.typ \in Types
    /\ \A p \in Paths : p \in Seq(STRING)

VARIABLES
    cache,        \* cache[t]: the schema of t, or NoSchema
    pc,           \* pc[g]: "idle", "load", "build", "read", "done"
    call,         \* call[g]: the function called, its value and its path
    stack,        \* stack[g]: the buildSchema calls g is in
    schema,       \* schema[g]: the schema g reads with
    result        \* result[g]: what the call returns, and the type it asked for

vars == <<cache, pc, call, stack, schema, result>>

Missing == [ok |-> FALSE, at |-> <<>>, as |-> "any"]
Value(p, t) == [ok |-> TRUE, at |-> p, as |-> t]

FieldsOf(t) == {Fields[t][k] : k \in DOMAIN Fields[t]}
FieldCalled(t, n) == CHOOSE f \in FieldsOf(t) : f.name = n
NestedIn(t) == {k \in DOMAIN Fields[t] : Nests(Fields[t][k])}

(* buildSchema(t) begins, with the nested fields it has to go through, in     *)
(* their order.                                                              *)
Frame(t) == [typ |-> t, todo |-> NestedIn(t), subs |-> [n \in {} |-> NoSchema]]
NextField(frame) == Fields[frame.typ][Min(frame.todo)]

SchemaFrom(frame) == [typ |-> frame.typ, subs |-> frame.subs]

Init ==
    /\ cache = [t \in Types |-> NoSchema]
    /\ pc = [g \in Goroutines |-> "idle"]
    /\ call = [g \in Goroutines |-> NoCall]
    /\ stack = [g \in Goroutines |-> <<>>]
    /\ schema = [g \in Goroutines |-> NoSchema]
    /\ result = [g \in Goroutines |-> Missing]

Goto(g, from, to) == pc[g] = from /\ pc' = [pc EXCEPT ![g] = to]

(* Get, GetAny and GetByPtrTyped call Compile; GetByPtr has its own code.     *)
Call(g, fn, v, p) ==
    /\ Goto(g, "idle", "load")
    /\ call' = [call EXCEPT ![g] = [fn |-> fn, value |-> v, path |-> p]]
    /\ UNCHANGED <<cache, stack, schema, result>>

LoadHit(g) ==
    /\ Goto(g, "load", "read")
    /\ cache[call[g].value.typ] # NoSchema
    /\ schema' = [schema EXCEPT ![g] = cache[call[g].value.typ]]
    /\ UNCHANGED <<cache, call, stack, result>>

LoadMiss(g) ==
    /\ Goto(g, "load", "build")
    /\ cache[call[g].value.typ] = NoSchema
    /\ stack' = [stack EXCEPT ![g] = <<Frame(call[g].value.typ)>>]
    /\ UNCHANGED <<cache, call, schema, result>>

Top(g) == Last(stack[g])
Building(g) == pc[g] = "build"

(* The frame after its next nested field got the schema s.                   *)
WithSub(frame, s) ==
    LET name == NextField(frame).name
    IN  [frame EXCEPT !.todo = @ \ {Min(@)},
                      !.subs = [n \in DOMAIN @ \cup {name} |-> IF n = name THEN s ELSE @[n]]]

(* A lookupOrBuild that loses what it found.                                  *)
LookupHitLosing(g) ==
    /\ Building(g) /\ Top(g).todo # {}
    /\ cache[NextField(Top(g)).of] # NoSchema
    /\ UNCHANGED vars

(* lookupOrBuild finds the schema of the next nested field.                  *)
LookupHit(g) ==
    /\ Building(g) /\ Top(g).todo # {}
    /\ LET t == NextField(Top(g)).of
       IN  /\ cache[t] # NoSchema
           /\ stack' = [stack EXCEPT ![g] = Append(Front(@), WithSub(Last(@), cache[t]))]
    /\ UNCHANGED <<cache, pc, call, schema, result>>

(* A lookupOrBuild that stores the schema before its fields are in it.        *)
LookupMissPublishing(g) ==
    /\ Building(g) /\ Top(g).todo # {}
    /\ LET t == NextField(Top(g)).of
       IN  /\ cache[t] = NoSchema
           /\ stack' = [stack EXCEPT ![g] = Append(@, Frame(t))]
           /\ cache' = [cache EXCEPT ![t] = SchemaFrom(Frame(t))]
    /\ UNCHANGED <<pc, call, schema, result>>

(* lookupOrBuild builds the schema of the next nested field.                 *)
LookupMiss(g) ==
    /\ Building(g) /\ Top(g).todo # {}
    /\ LET t == NextField(Top(g)).of
       IN  /\ cache[t] = NoSchema
           /\ stack' = [stack EXCEPT ![g] = Append(@, Frame(t))]
    /\ UNCHANGED <<cache, pc, call, schema, result>>

(* cache.Store of lookupOrBuild: whatever is there is replaced.              *)
StoreNested(g) ==
    /\ Building(g) /\ Top(g).todo = {} /\ Len(stack[g]) > 1
    /\ LET s == SchemaFrom(Top(g))
           below == Front(stack[g])
       IN  /\ cache' = [cache EXCEPT ![s.typ] = s]
           /\ stack' = [stack EXCEPT ![g] = Append(Front(below), WithSub(Last(below), s))]
    /\ UNCHANGED <<pc, call, schema, result>>

(* A Compile that takes the previous entry for the one that is there now.    *)
StoreOwnSwapping(g) ==
    /\ Goto(g, "build", "read")
    /\ Top(g).todo = {} /\ Len(stack[g]) = 1
    /\ LET own == SchemaFrom(Top(g))
       IN  /\ cache' = [cache EXCEPT ![own.typ] = own]
           /\ schema' = [schema EXCEPT ![g] =
                            IF call[g].fn = "Compile" THEN cache[own.typ] ELSE own]
    /\ stack' = [stack EXCEPT ![g] = <<>>]
    /\ UNCHANGED <<call, result>>

(* cache.LoadOrStore of Compile, and cache.Store of GetByPtr.                *)
StoreOwn(g) ==
    /\ Goto(g, "build", "read")
    /\ Top(g).todo = {} /\ Len(stack[g]) = 1
    /\ LET own == SchemaFrom(Top(g))
           there == cache[own.typ]
           s == IF call[g].fn = "Compile" /\ there # NoSchema THEN there ELSE own
       IN  /\ cache' = [cache EXCEPT ![own.typ] = s]
           /\ schema' = [schema EXCEPT ![g] = s]
    /\ stack' = [stack EXCEPT ![g] = <<>>]
    /\ UNCHANGED <<call, result>>


(* A step of the walk of getAt, over a struct whose pointers at the paths in  *)
(* nils are nil: to the field n, if the walk is at a struct that has one, and *)
(* not through a nil pointer.                                                *)
Into(w, n, nils) ==
    LET at == Append(w.at, n)
        f == FieldCalled(w.schema.typ, n)
    IN  IF \/ w.state # "struct"
           \/ n \notin {h.name : h \in FieldsOf(w.schema.typ)}
           \/ Points(f) /\ at \in nils
        THEN [w EXCEPT !.state = "missing"]
        ELSE IF Nests(f)
        THEN [w EXCEPT !.schema = w.schema.subs[n], !.at = at]
        ELSE [w EXCEPT !.state = "value", !.at = at, !.of = f.of]

Down(s, nils, path) ==
    LET walk[k \in 0 .. Len(path)] ==
          IF k = 0 THEN [state |-> "struct", schema |-> s, at |-> <<>>, of |-> "any"]
          ELSE Into(walk[k - 1], path[k], nils)
    IN  walk[Len(path)]

(* A getAt that does not look at a pointer before it follows it.             *)
GetAtUnchecked(s, nils, path) ==
    LET w == Down(s, {}, path) IN IF w.state = "value" THEN Value(w.at, w.of) ELSE Missing

(* s.getAt(ptr, path): a path that ends at a struct reads nothing.            *)
GetAt(s, nils, path) ==
    LET w == Down(s, nils, path) IN IF w.state = "value" THEN Value(w.at, w.of) ELSE Missing

(* The assertion of a value that was read to the type t.                      *)
Asserted(r, t) ==
    IF t \in {"any", r.as} THEN [r EXCEPT !.as = t] ELSE [Missing EXCEPT !.as = t]

(* GetAny and GetByPtr return any value; Get one of the type the caller asks  *)
(* for, and GetByPtrTyped one of the type of the struct itself.              *)
Read(g) ==
    /\ Goto(g, "read", "done")
    /\ \E t \in IF call[g].fn = "Compile" THEN {"any"} \cup Scalars \cup {call[g].value.typ}
                                          ELSE {"any"} :
         result' = [result EXCEPT ![g] =
                      Asserted(GetAt(schema[g], call[g].value.nils, call[g].path), t)]
    /\ UNCHANGED <<cache, call, stack, schema>>

Return(g) ==
    /\ Goto(g, "done", "idle")
    /\ call' = [call EXCEPT ![g] = NoCall]
    /\ schema' = [schema EXCEPT ![g] = NoSchema]
    /\ result' = [result EXCEPT ![g] = Missing]
    /\ UNCHANGED <<cache, stack>>

Step(g) ==
    \/ LoadHit(g) \/ LoadMiss(g)
    \/ LookupHit(g) \/ LookupMiss(g) \/ StoreNested(g) \/ StoreOwn(g)
    \/ Read(g) \/ Return(g)

Next ==
    \E g \in Goroutines :
        \/ \E fn \in {"Compile", "GetByPtr"}, v \in Values, p \in Paths : Call(g, fn, v, p)
        \/ Step(g)

(* A goroutine in a call is scheduled until it returns.                      *)
Fairness == \A g \in Goroutines : WF_vars(Step(g))

Safety == Init /\ [][Next]_vars
Spec == Safety /\ Fairness
-----------------------------------------------------------------------------
(* The schema of every type, worked out without a cache: of a type, with the *)
(* schemas of the structs in it.                                             *)
SchemaUpTo[n \in Nat] ==
    [t \in Types |->
       [typ |-> t,
        subs |-> IF n = 0 THEN <<>>
                 ELSE [name \in {Fields[t][k].name : k \in NestedIn(t)} |->
                         SchemaUpTo[n - 1][FieldCalled(t, name).of]]]]

SchemaOf == SchemaUpTo[Cardinality(Types)]

ASSUME NoSchemaAssumption == \A t \in Types : SchemaOf[t] # NoSchema

(* What a path reads of a value, by its type alone: there is a struct for    *)
(* every step of it, no pointer on the way is nil, and it ends at a field    *)
(* that is no struct, and of the type that was asked for.                    *)
Readable(v, p, as) ==
    /\ p # <<>>
    /\ \E ts \in [1..Len(p) -> Types] :
         /\ ts[1] = v.typ
         /\ \A k \in 1..Len(p) : \E f \in FieldsOf(ts[k]) :
              /\ f.name = p[k]
              /\ k < Len(p) => Nests(f) /\ f.of = ts[k + 1]
              /\ k = Len(p) => ~Nests(f) /\ as \in {"any", f.of}
              /\ Points(f) => SubSeq(p, 1, k) \notin v.nils

(* The state has the shape the code gives it: a goroutine is inside          *)
(* buildSchema exactly while it builds, outermost for the type of its call,  *)
(* each further build for the field the one below is at, and it has the      *)
(* schema of that type from then until it returns.                           *)
TypeOK ==
    /\ \A g \in Goroutines :
         /\ pc[g] \in {"idle", "load", "build", "read", "done"}
         /\ (pc[g] = "build") = (stack[g] # <<>>)
         /\ (pc[g] \in {"read", "done"}) = (schema[g] # NoSchema)
         /\ schema[g] # NoSchema => schema[g].typ = call[g].value.typ
         /\ \A k \in 1..Len(stack[g]) :
              stack[g][k].typ = IF k = 1 THEN call[g].value.typ
                                ELSE NextField(stack[g][k - 1]).of

(* A schema another goroutine can load is whole, at every depth: no call     *)
(* sees a type whose nested types are still being gone through, although     *)
(* nothing locks the cache and each build fills it from the inside out.      *)
SchemasComplete ==
    \A t \in Types : cache[t] # NoSchema => cache[t] = SchemaOf[t]

(* Whoever built the schema a call reads with, and in whatever order, the    *)
(* call returns the field its path names, if that has the type the caller     *)
(* wants, or nothing: never a field of another struct, nothing through a nil  *)
(* pointer, and to GetByPtrTyped nothing at all, as no struct has a field of  *)
(* its own type.                                                             *)
ReadsRight ==
    \A g \in Goroutines : pc[g] = "done" =>
        /\ result[g].ok <=> Readable(call[g].value, call[g].path, result[g].as)
        /\ result[g].ok => result[g].at = call[g].path

(* Every call returns: building a schema ends, whatever the others store     *)
(* meanwhile.                                                                *)
CallsEnd == \A g \in Goroutines : pc[g] = "load" ~> pc[g] = "idle"

(* dyn.go: a call returns a value or (nil, false).  It cannot if the build   *)
(* of a type starts the build of the same type.                              *)
NoBuildWithinItself ==
    \A g \in Goroutines : \A j, k \in 1..Len(stack[g]) :
        j # k => stack[g][j].typ # stack[g][k].typ
=============================================================================
