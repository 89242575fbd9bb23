------------------------------ MODULE Service ------------------------------
(***************************************************************************)
(* The arithmetic of backends/runtime/vnusservice.h and vnusservice.cc.    *)
(* The integers are those of C: a quotient is rounded towards zero.        *)
(***************************************************************************)
EXTENDS Integers

Abs(a) == IF a < 0 THEN - a ELSE a
Quot(a, b) == IF (a < 0) = (b < 0) THEN Abs(a) \div Abs(b) ELSE - (Abs(a) \div Abs(b))
Rem(a, b) == a - b * Quot(a, b)

Sign(b) == IF b < 0 THEN -1 ELSE 1

ceildiv(a, b) ==
    LET c == Sign(b) * a
    IN  IF c > 0 THEN Quot(c + Abs(b) - 1, Abs(b)) ELSE Quot(c, Abs(b))

\* The i with l <= i * s < u: the first of them, and how many.
iterations(l, u, s) == [n |-> ceildiv(u, s) - ceildiv(l, s), shift |-> ceildiv(l, s)]

\* The loop of euclid; r, s and t are the values of this round and the last.
RECURSIVE EuclidLoop(_, _, _)
EuclidLoop(r, s, t) ==
    IF r[1] = 0 THEN [r |-> r[2], s |-> s[2], t |-> t[2]]
    ELSE LET q == Quot(r[2], r[1])
             step(x) == <<x[2] - q * x[1], x[1]>>
         IN  EuclidLoop(step(r), step(s), step(t))

\* g = x0 * alpha - y0 * beta, and the steps from one such pair to the next.
euclid(alpha, beta) ==
    LET last == EuclidLoop(<<beta, alpha>>, <<0, 1>>, <<-1, 0>>)
        sign == Sign(last.r)
    IN  [x0 |-> sign * last.s, y0 |-> sign * last.t, g |-> sign * last.r,
         dx |-> sign * Quot(beta, last.r), dy |-> sign * Quot(alpha, last.r)]
=============================================================================
