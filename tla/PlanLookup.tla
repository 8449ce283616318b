----------------------------- MODULE PlanLookup -----------------------------
(***************************************************************************)
(* What getTypePlan of package structfast promises, with no cache and no    *)
(* lock: the caller gets the one plan of the type, always the same pointer, *)
(* or a panic when reflection cannot enumerate the fields of the type.      *)
(* TypePlans is shown to implement this module.                             *)
(***************************************************************************)
EXTENDS Integers

CONSTANTS
    Goroutines,
    Types,        \* the types after one Elem of a pointer
    Outcome,      \* Outcome[t]: the plan of t, or the panic
    NoType,       \* no call in progress
    NoPlan        \* the call has no outcome yet

VARIABLES
    arg,          \* arg[g]: the type g asks the plan of
    result        \* result[g]: what its call came to

vars == <<arg, result>>

Init ==
    /\ arg = [g \in Goroutines |-> NoType]
    /\ result = [g \in Goroutines |-> NoPlan]

Ask(g) ==
    /\ arg[g] = NoType
    /\ \E t \in Types : arg' = [arg EXCEPT ![g] = t]
    /\ UNCHANGED result

Answer(g) ==
    /\ arg[g] # NoType
    /\ result[g] = NoPlan
    /\ result' = [result EXCEPT ![g] = Outcome[arg[g]]]
    /\ UNCHANGED arg

Finish(g) ==
    /\ result[g] # NoPlan
    /\ arg' = [arg EXCEPT ![g] = NoType]
    /\ result' = [result EXCEPT ![g] = NoPlan]

Next == \E g \in Goroutines : Ask(g) \/ Answer(g) \/ Finish(g)

Fairness == \A g \in Goroutines : WF_vars(Answer(g) \/ Finish(g))

Safety == Init /\ [][Next]_vars
Spec == Safety /\ Fairness
=============================================================================
