---------------------------- MODULE PathCompiler ----------------------------
(***************************************************************************)
(* What package pathplan promises its callers, with no cache, no pool and  *)
(* no interleaving in sight: a goroutine asks for a list of paths and gets *)
(* one plan per path, in the order of the list, each plan a function of    *)
(* its own path alone.  Compile is the request of one path, CompileMany    *)
(* the request of several.  PathPlan is shown to implement this module.    *)
(***************************************************************************)
EXTENDS Naturals, Sequences

CONSTANTS
    Goroutines,   \* the callers
    Requests,     \* the lists of paths a caller may ask for
    PlanOf        \* PlanOf[p]: the plan of path p

VARIABLES
    request,      \* request[g]: the list g asked for; <<>> when g asks nothing
    answers       \* answers[g]: the plans handed to g so far

vars == <<request, answers>>

Init ==
    /\ request = [g \in Goroutines |-> <<>>]
    /\ answers = [g \in Goroutines |-> <<>>]

Ask(g) ==
    /\ request[g] = <<>>
    /\ \E r \in Requests : request' = [request EXCEPT ![g] = r]
    /\ UNCHANGED answers

Answer(g) ==
    /\ Len(answers[g]) < Len(request[g])
    /\ answers' = [answers EXCEPT ![g] =
                     Append(@, PlanOf[request[g][Len(@) + 1]])]
    /\ UNCHANGED request

Finish(g) ==
    /\ request[g] # <<>>
    /\ Len(answers[g]) = Len(request[g])
    /\ request' = [request EXCEPT ![g] = <<>>]
    /\ answers' = [answers EXCEPT ![g] = <<>>]

Next == \E g \in Goroutines : Ask(g) \/ Answer(g) \/ Finish(g)

(* A call that was made returns: the callee owes Answer and Finish, the     *)
(* caller does not owe Ask.                                                 *)
Fairness == \A g \in Goroutines : WF_vars(Answer(g) \/ Finish(g))

Safety == Init /\ [][Next]_vars
Spec == Safety /\ Fairness
=============================================================================
