---------------------------- MODULE MCTypePlans ----------------------------
(* Two struct types, a pointer to one of them, and a type without fields.    *)
EXTENDS TypePlans

CONSTANTS User, Order, UserPtr, Int64, g1, g2, g3

MCElem == [t \in {User, Order, UserPtr, Int64} |->
             IF t = UserPtr THEN User ELSE t]
=============================================================================
