----------------------------- MODULE MCHotPaths -----------------------------
(* Three paths, one of them a simple key, whose probes overlap, and a ring    *)
(* the counter goes round twice before it wraps.                             *)
EXTENDS HotPaths, TLC

CONSTANTS g1, g2, data, userName, userAge

MCHash == (data :> 1) @@ (userName :> 2) @@ (userAge :> 7)
=============================================================================
