------------------------------ MODULE TypePlans ------------------------------
(***************************************************************************)
(* The type-plan registry of package structfast (structfast/plan.go):       *)
(* getTypePlan, called by Register, Decode and every nested struct          *)
(* field, from any number of goroutines.                                    *)
(*                                                                          *)
(* The registry is a map that is never written once published: a writer     *)
(* copies it, adds its type and stores the new map in an atomic pointer.    *)
(* Readers load the pointer without the mutex; writers check again under    *)
(* it.  A map is modelled by its contents, nil and empty alike, since the   *)
(* code tells them apart only to avoid dereferencing nil.                   *)
(***************************************************************************)
EXTENDS Integers

CONSTANTS
    Goroutines,
    Types,        \* every reflect.Type a caller may pass
    Structs,      \* those with fields, for which NumField does not panic
    Elem,         \* Elem[t]: t.Elem() of a pointer type, any other t itself
    NoOne,        \* the mutex is free
    NoType,
    NoPlan,       \* a type the map does not hold
    Panic         \* the outcome of a call that panics

Plan == [of : Structs, build : Nat \ {0}]

ASSUME TypesAssumption ==
    /\ Structs \subseteq Types
    /\ Elem \in [Types -> Types]
    /\ NoOne \notin Goroutines
    /\ NoType \notin Types
    /\ NoPlan \notin Plan \cup {Panic}
    /\ Panic \notin Plan

VARIABLES
    cache,        \* *cachePtr: cache[t] is the plan the map holds for t
    holder,       \* the goroutine that holds mu
    builds,       \* builds[t]: the runs of buildTypePlan(t) that returned
    pc,           \* pc[g]: where g stands in getTypePlan
    arg,          \* arg[g]: t, once the pointer is stripped
    m,            \* m[g]: the map g loaded last
    result        \* result[g]: the plan g will return, or the panic

vars == <<cache, holder, builds, pc, arg, m, result>>

-----------------------------------------------------------------------------
EmptyMap == [t \in Types |-> NoPlan]

Init ==
    /\ cache = EmptyMap
    /\ holder = NoOne
    /\ builds = [t \in Types |-> 0]
    /\ pc = [g \in Goroutines |-> "idle"]
    /\ arg = [g \in Goroutines |-> NoType]
    /\ m = [g \in Goroutines |-> EmptyMap]
    /\ result = [g \in Goroutines |-> NoPlan]

Goto(g, from, to) ==
    /\ pc[g] = from
    /\ pc' = [pc EXCEPT ![g] = to]

(* getTypePlan(t) begins; one pointer is stripped.                           *)
Call(g) ==
    /\ Goto(g, "idle", "load")
    /\ \E t \in Types : arg' = [arg EXCEPT ![g] = Elem[t]]
    /\ UNCHANGED <<cache, holder, builds, m, result>>

(* The lock-free fast path: the published map holds the type.                *)
LoadHit(g) ==
    /\ Goto(g, "load", "return")
    /\ cache[arg[g]] # NoPlan
    /\ result' = [result EXCEPT ![g] = cache[arg[g]]]
    /\ UNCHANGED <<cache, holder, builds, arg, m>>

LoadMiss(g) ==
    /\ Goto(g, "load", "lock")
    /\ cache[arg[g]] = NoPlan
    /\ m' = [m EXCEPT ![g] = cache]
    /\ UNCHANGED <<cache, holder, builds, arg, result>>

(* mu.Lock() returns.                                                        *)
Lock(g) ==
    /\ Goto(g, "lock", "reload")
    /\ holder = NoOne
    /\ holder' = g
    /\ UNCHANGED <<cache, builds, arg, m, result>>

(* Under the lock the map is loaded again: somebody else added the type.     *)
ReloadHit(g) ==
    /\ Goto(g, "reload", "unlock")
    /\ cache[arg[g]] # NoPlan
    /\ m' = [m EXCEPT ![g] = cache]
    /\ result' = [result EXCEPT ![g] = cache[arg[g]]]
    /\ UNCHANGED <<cache, holder, builds, arg>>

(* A slow path that checks again but goes on with the map it loaded first.   *)
ReloadMissKeepingMap(g) ==
    /\ Goto(g, "reload", "build")
    /\ cache[arg[g]] = NoPlan
    /\ UNCHANGED <<cache, holder, builds, arg, m, result>>

(* A slow path without the second check.                                     *)
ReloadMissUnchecked(g) ==
    /\ Goto(g, "reload", "build")
    /\ m' = [m EXCEPT ![g] = cache]
    /\ UNCHANGED <<cache, holder, builds, arg, result>>

(* Still not there: the plan is built while the lock is held.                *)
ReloadMiss(g) ==
    /\ Goto(g, "reload", "build")
    /\ cache[arg[g]] = NoPlan
    /\ m' = [m EXCEPT ![g] = cache]
    /\ UNCHANGED <<cache, holder, builds, arg, result>>

(* A buildTypePlan that treats a type without fields as an empty struct.     *)
BuildAnything(g) ==
    /\ Goto(g, "build", "publish")
    /\ builds' = [builds EXCEPT ![arg[g]] = @ + 1]
    /\ result' = [result EXCEPT ![g] = [of |-> arg[g], build |-> builds'[arg[g]]]]
    /\ UNCHANGED <<cache, holder, arg, m>>

(* buildTypePlan: a new plan for a struct type.                              *)
Build(g) ==
    /\ Goto(g, "build", "publish")
    /\ arg[g] \in Structs
    /\ builds' = [builds EXCEPT ![arg[g]] = @ + 1]
    /\ result' = [result EXCEPT ![g] = [of |-> arg[g], build |-> builds'[arg[g]]]]
    /\ UNCHANGED <<cache, holder, arg, m>>

(* A panic that leaves the mutex locked: Unlock at the end, not deferred.    *)
BuildPanicsLocked(g) ==
    /\ Goto(g, "build", "return")
    /\ arg[g] \notin Structs
    /\ result' = [result EXCEPT ![g] = Panic]
    /\ UNCHANGED <<cache, holder, builds, arg, m>>

(* t.NumField() panics for any other kind; the deferred Unlock runs next.    *)
BuildPanics(g) ==
    /\ Goto(g, "build", "unlock")
    /\ arg[g] \notin Structs
    /\ result' = [result EXCEPT ![g] = Panic]
    /\ UNCHANGED <<cache, holder, builds, arg, m>>

(* newMap: the loaded map and the new plan; cachePtr.Store(&newMap).         *)
Publish(g) ==
    /\ Goto(g, "publish", "unlock")
    /\ cache' = [m[g] EXCEPT ![arg[g]] = result[g]]
    /\ UNCHANGED <<holder, builds, arg, m, result>>

(* The deferred mu.Unlock().                                                 *)
Unlock(g) ==
    /\ Goto(g, "unlock", "return")
    /\ holder' = NoOne
    /\ UNCHANGED <<cache, builds, arg, m, result>>

(* The caller has the plan, or recovers from the panic.                      *)
Return(g) ==
    /\ Goto(g, "return", "idle")
    /\ arg' = [arg EXCEPT ![g] = NoType]
    /\ m' = [m EXCEPT ![g] = EmptyMap]
    /\ result' = [result EXCEPT ![g] = NoPlan]
    /\ UNCHANGED <<cache, holder, builds>>

Running(g) ==
    \/ LoadHit(g) \/ LoadMiss(g)
    \/ ReloadHit(g) \/ ReloadMiss(g)
    \/ Build(g) \/ BuildPanics(g) \/ Publish(g)
    \/ Unlock(g) \/ Return(g)

Next == \E g \in Goroutines : Call(g) \/ Lock(g) \/ Running(g)

(* A runnable goroutine runs.  A goroutine that keeps finding the mutex free *)
(* gets it: sync.Mutex hands it to a waiter that has starved.                *)
Fairness == \A g \in Goroutines : WF_vars(Running(g)) /\ SF_vars(Lock(g))

Safety == Init /\ [][Next]_vars
Spec == Safety /\ Fairness

-----------------------------------------------------------------------------
(* Properties.                                                               *)

Label == {"idle", "load", "lock", "reload", "build", "publish", "unlock",
          "return"}

Map == [Types -> Plan \cup {NoPlan}]

(* Every variable has its type; in particular only plans of structs are in   *)
(* the map.                                                                  *)
TypeOK ==
    /\ cache \in Map
    /\ holder \in Goroutines \cup {NoOne}
    /\ builds \in [Types -> Nat]
    /\ pc \in [Goroutines -> Label]
    /\ arg \in [Goroutines -> Types \cup {NoType}]
    /\ m \in [Goroutines -> Map]
    /\ result \in [Goroutines -> Plan \cup {NoPlan, Panic}]

(* However many goroutines miss at once, reflection walks a type's fields    *)
(* one time: the double check under the mutex.                               *)
BuiltOnce == \A t \in Types : builds[t] <= 1

(* Copy-on-write loses nothing: a published plan stays in every later map,   *)
(* and is never replaced by another plan of its type.                        *)
RegistryGrows ==
    [][\A t \in Types : cache[t] # NoPlan => cache'[t] = cache[t]]_vars

(* Every call returns or panics, and a panic while the mutex is held does    *)
(* not keep the others from returning.                                       *)
CallsEnd == \A g \in Goroutines : pc[g] # "idle" ~> pc[g] = "idle"

(* The registry implements the lookup without cache and lock: each caller    *)
(* gets the one plan of its type.                                            *)
Outcome ==
    [t \in Types |-> IF t \in Structs THEN [of |-> t, build |-> 1] ELSE Panic]

Returned ==
    [g \in Goroutines |-> IF pc[g] = "return" THEN result[g] ELSE NoPlan]

Elems == {Elem[t] : t \in Types}

Abstract == INSTANCE PlanLookup WITH result <- Returned, Types <- Elems

ImplementsPlanLookup == Abstract!Spec
=============================================================================
