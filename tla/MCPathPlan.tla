----------------------------- MODULE MCPathPlan -----------------------------
(* A small instance of PathPlan: two goroutines, the paths "", "user" and    *)
(* "9.user", and lists that repeat a path, mix paths and hold the empty one. *)
EXTENDS PathPlan, TLC

CONSTANTS user, b1, b2, g1, g2

MCNames == {user}
User == [kind |-> "name", name |-> user]
Nine == [kind |-> "digits", value |-> 9]
MCPaths == {EmptyPath, <<User>>, <<Nine, User>>}
MCRequests == {<<EmptyPath>>, <<<<User>>>>, <<<<Nine, User>>, <<User>>>>}

(* The two cached paths share their first slot.                              *)
MCHash == [p \in MCPaths |-> IF p = <<User>> THEN 4 ELSE 2]
=============================================================================
