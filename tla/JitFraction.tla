---------------------------- MODULE JitFraction -----------------------------
(***************************************************************************)
(* The numbers of the layouts: fractions <<n, d>> with d > 0, reduced.     *)
(***************************************************************************)
EXTENDS Integers, Sequences

RECURSIVE GCD(_, _)
GCD(a, b) == IF b = 0 THEN a ELSE GCD(b, a % b)

Abs(n) == IF n < 0 THEN -n ELSE n

Frac(n, d) == IF n = 0 THEN <<0, 1>> ELSE <<n \div GCD(Abs(n), d), d \div GCD(Abs(n), d)>>

Whole(n) == <<n, 1>>

Zero == <<0, 1>>

(* Common factors are taken out before anything is multiplied. *)
Plus(x, y) ==
    LET g == GCD(x[2], y[2]) IN Frac(x[1] * (y[2] \div g) + y[1] * (x[2] \div g), x[2] * (y[2] \div g))

Minus(x, y) == Plus(x, <<-y[1], y[2]>>)

Times(x, y) ==
    LET a == Frac(x[1], y[2]) b == Frac(y[1], x[2]) IN <<a[1] * b[1], a[2] * b[2]>>

(* y is positive. *)
Over(x, y) == Times(x, <<y[2], y[1]>>)

Half(x) == Over(x, Whole(2))

AtMost(x, y) == LET g == GCD(x[2], y[2]) IN x[1] * (y[2] \div g) <= y[1] * (x[2] \div g)

Less(x, y) == ~AtMost(y, x)

Larger(x, y) == IF AtMost(x, y) THEN y ELSE x

Smaller(x, y) == IF AtMost(x, y) THEN x ELSE y

RECURSIVE SumOf(_)
SumOf(xs) == IF xs = <<>> THEN Zero ELSE Plus(xs[1], SumOf(Tail(xs)))
=============================================================================
