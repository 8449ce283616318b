----------------------------- MODULE PathSyntax -----------------------------
(***************************************************************************)
(* Path expressions as the packages pathplan and raw read them.  A path is  *)
(* the sequence of its tokens, the pieces between the dots.  A string with  *)
(* no dot has one token, so the empty string is <<EmptyToken>>.             *)
(***************************************************************************)
EXTENDS GoInt, Sequences

CONSTANTS
    Names,        \* tokens that are neither empty nor all digits
    NoName        \* the empty Key of a seg

EmptyToken == [kind |-> "empty"]

Token == {EmptyToken}
         \cup [kind : {"name"}, name : Names]
         \cup [kind : {"digits"}, value : Nat]

EmptyPath == <<EmptyToken>>

(* n*10 + c in an int: the number the digits write, wrapped to the width.    *)
AtoiDigits(n) == Wrapped(n)

Seg == [key : Names \cup {NoName}, idx : Int]

Segment(tok) ==
    [key |-> IF tok.kind = "name" THEN tok.name ELSE NoName,
     idx |-> IF tok.kind = "digits" THEN AtoiDigits(tok.value) ELSE 0]

(* The segments Compile gives a path.                                        *)
SegsOf(p) == IF p = EmptyPath THEN <<>> ELSE [i \in DOMAIN p |-> Segment(p[i])]
=============================================================================
