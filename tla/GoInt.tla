-------------------------------- MODULE GoInt --------------------------------
(***************************************************************************)
(* The width of the program's integers, which its parsers of digits meet.   *)
(***************************************************************************)
EXTENDS Integers

CONSTANT IntWrap    \* 2^64

IntMax == IntWrap \div 2 - 1

(* What an int holds after arithmetic that would give n.                     *)
Wrapped(n) == ((n + IntWrap \div 2) % IntWrap) - IntWrap \div 2
=============================================================================
