------------------------------- MODULE Numerals -------------------------------
(***************************************************************************)
(* From the text of a number to an int64 or a float64: Node.Int             *)
(* (zeronode/node.go) and the parsers of parser/ and fast/fast.go.          *)
(*                                                                          *)
(* A Go value is a pair of its dynamic type and what it holds.  A float64   *)
(* holds the number num * 10^exp, the nearest to what was written that it    *)
(* can hold (Float64).  What fast.ParseFloat gives is not rounded here.      *)
(***************************************************************************)
EXTENDS GoInt, ZeroNode

CONSTANTS
    FloatBits,    \* the bits of the mantissa of a float64, 53
    FloatLow,     \* 1074: the smallest one is 2^-FloatLow
    FloatTop      \* 1024: 2^FloatTop is beyond all of them

Nil == <<"nil">>
Fails == <<"fails">>

DecimalDigits == <<"0", "1", "2", "3", "4", "5", "6", "7", "8", "9">>
DigitOf(c) == CHOOSE d \in 0 .. 9 : DecimalDigits[d + 1] = c

Signed(b) == b # <<>> /\ b[1] = "-"
Negated(b, n) == IF Signed(b) THEN -n ELSE n
AfterSign(b) == IF Signed(b) THEN Tail(b) ELSE b

-----------------------------------------------------------------------------
(* Integers.                                                                 *)

IsIntegerLiteral(b) ==
    /\ ToSet(b) \cap {".", "e", "E", "+"} = {}
    /\ "-" \notin ToSet(AfterSign(b))

(* A ParseIntFast whose bound lets the digit that overflows pass.            *)
ParseIntFastOneOver(b) ==
    LET More(n, c) == IF n = -1 \/ n > IntMax \div 10 THEN -1
                      ELSE Wrapped(10 * n + DigitOf(c))
        n == FoldLeft(More, 0, AfterSign(b))
    IN  IF AfterSign(b) = <<>> \/ ~ (ToSet(AfterSign(b)) \subseteq Digits) \/ n = -1
          THEN Fails ELSE <<"int64", Negated(b, n)>>

(* ParseIntFast and ParseIntFastBytes: an integer that does not fit is        *)
(* refused, before the digit that would overflow is added.                   *)
ParseIntFast(b) ==
    LET More(n, c) == IF n = -1 \/ n > (IntMax - DigitOf(c)) \div 10 THEN -1
                      ELSE Wrapped(10 * n + DigitOf(c))
        n == FoldLeft(More, 0, AfterSign(b))
    IN  IF AfterSign(b) = <<>> \/ ~ (ToSet(AfterSign(b)) \subseteq Digits) \/ n = -1
          THEN Fails ELSE <<"int64", Negated(b, n)>>

(* Node.Int: an integer that does not fit wraps, and anything but a digit in  *)
(* the span of the node fails, white space behind the digits too.            *)
NodeInt(n) ==
    LET b == Raw(n)
    IN  IF n.typ # "n" \/ AfterSign(b) = <<>> \/ ~ (ToSet(AfterSign(b)) \subseteq Digits)
          THEN Fails
          ELSE <<"int64", Wrapped(Negated(b,
                  FoldLeft(LAMBDA v, c : Wrapped(10 * v + DigitOf(c)), 0, AfterSign(b))))>>

-----------------------------------------------------------------------------
(* Floats.                                                                   *)

(* num * 10^exp, with no factor 10 in num.                                   *)
Decimal(num, exp) ==
    LET reduce[n \in Int, e \in Int] ==
          IF n # 0 /\ n % 10 = 0 THEN reduce[n \div 10, e + 1]
          ELSE [num |-> n, exp |-> IF n = 0 THEN 0 ELSE e]
    IN  reduce[num, exp]

HalfEven(n, k) ==
    LET m == n \div k
        twice == 2 * (n % k)
    IN  IF twice > k \/ (twice = k /\ m % 2 = 1) THEN m + 1 ELSE m

(* The float64 nearest to a decimal: a mantissa of FloatBits bits and a power  *)
(* of two, the smallest that does; a tie goes to the even mantissa.  There is  *)
(* none from 2^FloatTop on.                                                  *)
Float64(d) ==
    LET digits == (IF d.num < 0 THEN -d.num ELSE d.num) * 10 ^ Max({d.exp, 0})
        n(q) == digits * 2 ^ Max({-q, 0})
        k(q) == 10 ^ Max({-d.exp, 0}) * 2 ^ Max({q, 0})
        fitting == {q \in -FloatLow .. FloatTop : n(q) \div k(q) < 2 ^ FloatBits}
        power == Min(fitting)
        mantissa == HalfEven(n(power), k(power))
        inFives == mantissa * 5 ^ Max({-power, 0}) * 2 ^ Max({power, 0})
    IN  IF \/ fitting = {}
           \/ power >= 0 /\ mantissa * 2 ^ power >= 2 ^ FloatTop
          THEN Fails
          ELSE <<"float64", Decimal(IF d.num < 0 THEN -inFives ELSE inFives, Min({power, 0}))>>

(* float64(n) of an int64.                                                   *)
AsFloat(n) == Float64(Decimal(n, 0))

(* A number, read character by character: digits, a dot and digits, an e, a    *)
(* sign and digits.  It is over at whatever does not go on like that.        *)
ReadDigit(p, c) ==
    CASE p.at = "int"  -> [p EXCEPT !.int = Append(@, c)]
      [] p.at = "frac" -> [p EXCEPT !.frac = Append(@, c)]
      [] p.at \in {"sign", "exp"} -> [p EXCEPT !.exp = Append(@, c), !.at = "exp"]
      [] OTHER -> p

ReadChar(p, c) ==
    CASE c \in Digits -> ReadDigit(p, c)
      [] c = "." /\ p.at = "int" -> [p EXCEPT !.at = "frac"]
      [] c \in {"e", "E"} /\ p.at \in {"int", "frac"} -> [p EXCEPT !.at = "sign"]
      [] c \in {"+", "-"} /\ p.at = "sign" -> [p EXCEPT !.at = "exp", !.down = (c = "-")]
      [] OTHER -> [p EXCEPT !.at = "over"]

NumberParts(b) ==
    FoldLeft(ReadChar,
             [at |-> "int", int |-> <<>>, frac |-> <<>>, exp |-> <<>>, down |-> FALSE],
             AfterSign(b))

Exactly(digits) == FoldLeft(LAMBDA v, c : 10 * v + DigitOf(c), 0, digits)
InUint64(digits) == Exactly(digits) % IntWrap

(* The number the pieces write, when its digits before and behind the dot were *)
(* read as int and frac.                                                     *)
FloatOf(b, int, frac) ==
    LET p == NumberParts(b)
        exp == IF p.down THEN - Exactly(p.exp) ELSE Exactly(p.exp)
    IN  Decimal(Negated(b, int * 10 ^ Len(p.frac) + frac),
                exp - Len(p.frac))

(* fast.ParseFloat: whatever follows the number is not looked at, and the     *)
(* digits before and behind the dot wrap in a uint64.                        *)
ParseFloatFast(b) ==
    LET p == NumberParts(b)
    IN  IF b = <<>> THEN Fails
        ELSE <<"float64", FloatOf(b, InUint64(p.int), InUint64(p.frac))>>

(* strconv.ParseFloat: all of the text, to the nearest float64, and an error  *)
(* beyond them.                                                              *)
ParseFloat64(b) ==
    LET p == NumberParts(b)
    IN  IF \/ p.at = "over" \/ p.int \o p.frac = <<>>
           \/ p.at \in {"sign", "exp"} /\ p.exp = <<>>
          THEN Fails ELSE Float64(FloatOf(b, Exactly(p.int), Exactly(p.frac)))
===============================================================================
