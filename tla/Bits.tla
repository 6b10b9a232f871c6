-------------------------------- MODULE Bits --------------------------------
\* Words of a few bits as natural numbers: what the C operators << >> & | ^ ~
\* and the casts between signed and unsigned types of a given width do.
EXTENDS Integers

Bit(x, i) == (x \div 2^i) % 2
Field(x, hi, lo) == (x \div 2^lo) % 2^(hi - lo + 1)

\* The number whose bit i is b(i), for i < n.
Compose(n, b(_)) == LET v[i \in 0 .. n] == IF i = 0 THEN 0 ELSE v[i - 1] + b(i - 1) * 2^(i - 1) IN v[n]

BAnd(n, x, y) == Compose(n, LAMBDA i : Bit(x, i) * Bit(y, i))
BOr(n, x, y) == x + y - BAnd(n, x, y)
BXor(n, x, y) == x + y - 2 * BAnd(n, x, y)
BNot(n, x) == 2^n - 1 - x

\* (intN_t)x, for x in 0 .. 2^n - 1 or wider, and back.
Signed(n, x) == LET y == x % 2^n IN IF y >= 2^(n - 1) THEN y - 2^n ELSE y

\* Division of C: towards zero; the remainder has the sign of the dividend.
Magnitude(x) == IF x < 0 THEN - x ELSE x
CDiv(a, b) == LET q == Magnitude(a) \div Magnitude(b) IN IF (a < 0) = (b < 0) THEN q ELSE - q
CRem(a, b) == a - b * CDiv(a, b)

Truth(b) == IF b THEN 1 ELSE 0
=============================================================================
