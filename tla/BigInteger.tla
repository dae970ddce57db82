----------------------------- MODULE BigInteger -----------------------------
(***************************************************************************)
(* BigInteger of oidc-token-manager.js (jsbn), with which the library      *)
(* verifies the RSA signatures of tokens.  A number is an array of digits, *)
(* lowest first, the count t of those in use, and a sign s that stands for *)
(* infinitely many further digits: 0, or -1 as in two's complement.        *)
(* Digits above t stay in the array and count for nothing.                 *)
(*                                                                         *)
(* Digits have DB bits (26, 28 or 30 in the code).  Floating-point numbers *)
(* have FP + 1 significant bits (53 in the code) and are rounded to them   *)
(* where a quotient digit is estimated; elsewhere they are whole numbers   *)
(* that fit.                                                               *)
(***************************************************************************)
EXTENDS Integers, Sequences, SequencesExt, Bitwise

CONSTANTS
    DB, FP,
    H,          \* low bits of a digit that Montgomery and am2, am3 split off
    K,          \* bits of a character or byte
    SmallExponent,  \* exponents below it (256) are reduced the classic way, and so
    ClassicBits,    \* are exponents of fewer bits than this (8)
    Windows,    \* [below, size]: the window for exponents of fewer bits
    LastWindow, \* and the one for all others
    LowPrimes,  \* the table of the first primes
    LpLim,      \* below it a product of them takes another factor
    IntBits     \* bits of an integer (32)

DV == 2 ^ DB
DM == DV - 1
F1 == FP - DB
F2 == 2 * DB - FP

Least(S)    == CHOOSE n \in S : \A m \in S : n <= m
Zeros(n)    == IF n <= 0 THEN <<>> ELSE SubSeq([i \in 1 .. n |-> 0], 1, n)
UpTo(n)     == [i \in 1 .. n |-> i]
Below(n)    == [i \in 1 .. n |-> i - 1]
Num(d, s)   == [d |-> d, t |-> Len(d), s |-> s]
Zero        == Num(<<>>, 0)
One         == Num(<<1>>, 0)
Used(x)     == SubSeq(x.d, 1, x.t)
Top(x)      == x.d[x.t]

\* What a number stands for.
Val(x) == FoldLeft(LAMBDA v, i : v + (x.d[i] * DV ^ (i - 1)), 0, UpTo(x.t)) + x.s * DV ^ x.t

\* fromInt, and beyond it: the number for n.
RECURSIVE Of(_)
Of(n) == IF n \in {0, -1} THEN Num(<<>>, n)
         ELSE LET high == Of(n \div DV) IN Num(<<n % DV>> \o high.d, high.s)

Clamp(x) ==
    LET c == IF x.s < 0 THEN DM ELSE 0
    IN  [x EXCEPT !.t = Least({n \in 0 .. x.t : \A k \in n + 1 .. x.t : x.d[k] = c})]

\* Digits d and a sign written over the array of r.
Written(r, d, s) ==
    Clamp([d |-> d \o SubSeq(r.d, Len(d) + 1, Len(r.d)), t |-> Len(d), s |-> s])

-----------------------------------------------------------------------------
(* Sums, shifts and bits.                                                  *)

\* What x adds at digit i: beyond its digits its sign, once.
Place(x, i) == IF i <= x.t THEN x.d[i] ELSE IF i = x.t + 1 THEN x.s ELSE 0

\* Mutant: the sign of the shorter number is not carried on.
CombineShort(x, sign, a, r) ==
    LET n     == IF x.t > a.t THEN x.t ELSE a.t
        c[i \in 0 .. n] == IF i = 0 THEN 0
                           ELSE (c[i-1] + (IF i <= x.t THEN x.d[i] ELSE 0)
                                        + sign * (IF i <= a.t THEN a.d[i] ELSE 0)) \div DV
        d     == [i \in 1 .. n |-> (c[i-1] + (IF i <= x.t THEN x.d[i] ELSE 0)
                                           + sign * (IF i <= a.t THEN a.d[i] ELSE 0)) % DV]
        last  == c[n] + x.s + sign * a.s
        more  == IF last > 0 THEN <<last>> ELSE IF last < -1 THEN <<DV + last>> ELSE <<>>
    IN  Written(r, d \o more, IF last < 0 THEN -1 ELSE 0)

\* addTo and subTo: digits with their carries, written over r.
Combine(x, sign, a, r) ==
    LET n     == IF x.t > a.t THEN x.t ELSE a.t
        at(i) == Place(x, i) + sign * Place(a, i)
        c[i \in 0 .. n] == IF i = 0 THEN 0 ELSE (c[i-1] + at(i)) \div DV
        d     == [i \in 1 .. n |-> (c[i-1] + at(i)) % DV]
        last  == c[n] + at(n + 1)
        more  == IF last > 0 THEN <<last>> ELSE IF last < -1 THEN <<DV + last>> ELSE <<>>
    IN  Written(r, d \o more, IF last < 0 THEN -1 ELSE 0)

Add(x, a)      == Combine(x, 1, a, Zero)
Subtract(x, a) == Combine(x, -1, a, Zero)
Negate(x)      == Subtract(Zero, x)
Abs(x)         == IF x.s < 0 THEN Negate(x) ELSE x

CompareTo(x, a) ==
    LET differ == {i \in 1 .. x.t : x.d[i] # a.d[i]}
        most   == CHOOSE i \in differ : \A k \in differ : k <= i
    IN  IF x.s # a.s THEN x.s - a.s
        ELSE IF x.t # a.t THEN IF x.s < 0 THEN a.t - x.t ELSE x.t - a.t
        ELSE IF differ = {} THEN 0 ELSE x.d[most] - a.d[most]

SigNum(x) == IF x.s < 0 THEN -1 ELSE IF x.t <= 0 \/ (x.t = 1 /\ x.d[1] <= 0) THEN 0 ELSE 1
IsEven(x) == IF x.t > 0 THEN x.d[1] % 2 = 0 ELSE x.s = 0

\* Shifts by whole digits.
DLShift(x, n) == [d |-> Zeros(n) \o Used(x), t |-> x.t + n, s |-> x.s]
DRShift(x, n) == Num(SubSeq(x.d, n + 1, x.t), x.s)

LShift(x, n) ==
    LET bs      == n % DB
        sign    == IF x.s < 0 THEN DV - 2 ^ bs ELSE 0
        up(i)   == IF i > x.t THEN sign ELSE (x.d[i] % 2 ^ (DB - bs)) * 2 ^ bs
        over(i) == IF i = 0 THEN 0 ELSE x.d[i] \div 2 ^ (DB - bs)
    IN  Clamp(Num(Zeros(n \div DB) \o [i \in 1 .. x.t + 1 |-> up(i) + over(i - 1)], x.s))

\* Mutant: zeros and not the sign come in from above.
RShiftUnsigned(x, n) ==
    LET ds    == n \div DB
        bs    == n % DB
        up(i) == IF i = x.t THEN 0 ELSE x.d[i+1] % 2 ^ bs
    IN  IF ds >= x.t THEN Num(<<>>, x.s)
        ELSE Clamp(Num([i \in 1 .. x.t - ds |->
                          x.d[ds + i] \div 2 ^ bs + up(ds + i) * 2 ^ (DB - bs)], x.s))

RShift(x, n) ==
    LET ds    == n \div DB
        bs    == n % DB
        up(i) == IF i = x.t THEN (IF x.s < 0 THEN 2 ^ bs - 1 ELSE 0) ELSE x.d[i+1] % 2 ^ bs
    IN  IF ds >= x.t THEN Num(<<>>, x.s)
        ELSE Clamp(Num([i \in 1 .. x.t - ds |->
                          x.d[ds + i] \div 2 ^ bs + up(ds + i) * 2 ^ (DB - bs)], x.s))

\* bitwiseTo.
Bitwise2(x, op(_, _), a) ==
    LET n        == IF x.t > a.t THEN x.t ELSE a.t
        at(y, i) == IF i <= y.t THEN y.d[i] ELSE IF y.s < 0 THEN DM ELSE 0
        sign     == op(-x.s, -a.s)
    IN  Clamp(Num([i \in 1 .. n |-> op(at(x, i), at(a, i))], -sign))

OpAnd(m, n)    == m & n
OpOr(m, n)     == m | n
OpXor(m, n)    == m ^^ n
\* Mutant: the operands are swapped.
OpNotAnd(m, n) == n - (m & n)
OpAndNot(m, n) == m - (m & n)
Complement(x)         == Num([i \in 1 .. x.t |-> DM - x.d[i]], -1 - x.s)

NBits(n)     == Least({b \in 1 .. DB + 1 : n < 2 ^ b})
BitLength(x) == IF x.t = 0 THEN 0
                ELSE DB * (x.t - 1) + NBits(IF x.s < 0 THEN DM - Top(x) ELSE Top(x))
TestBit(x, n) == IF n \div DB >= x.t THEN x.s # 0
                 ELSE (x.d[n \div DB + 1] \div 2 ^ (n % DB)) % 2 = 1
LowestSetBit(x) ==
    LET set == {i \in 1 .. x.t : x.d[i] # 0}
        bit(n) == Least({b \in 0 .. DB - 1 : (n \div 2 ^ b) % 2 = 1})
    IN  IF set # {} THEN (Least(set) - 1) * DB + bit(x.d[Least(set)])
        ELSE IF x.s < 0 THEN x.t * DB ELSE -1
BitCount(x) ==
    LET ones(n) == FoldLeft(LAMBDA v, b : v + ((n \div 2 ^ b) % 2), 0, Below(DB))
    IN  FoldLeft(LAMBDA v, i : v + ones(IF x.s < 0 THEN DM - x.d[i] ELSE x.d[i]), 0, UpTo(x.t))
ChangeBit(x, op(_, _), n) == Bitwise2(x, op, LShift(One, n))

-----------------------------------------------------------------------------
(* Products.                                                               *)

Digit(v) == [low |-> v % DV, carry |-> v \div DV]

\* One digit of am1, am2 and am3: f times the digit d, the digit w and the carry c.
Am1(d, f, w, c) == Digit(f * d + w + c)
Am2NoCarryUp(d, f, w, c) ==
    LET m == (f \div 2 ^ H) * (d % 2 ^ H) + (d \div 2 ^ H) * (f % 2 ^ H)
        l == (f % 2 ^ H) * (d % 2 ^ H) + (m % 2 ^ H) * 2 ^ H + w + (c % DV)
    IN  [low   |-> l % DV,
         carry |-> (l % 2 ^ (DB + 2)) \div DV + m \div 2 ^ H + (f \div 2 ^ H) * (d \div 2 ^ H)]
Am2(d, f, w, c) ==
    LET m == (f \div 2 ^ H) * (d % 2 ^ H) + (d \div 2 ^ H) * (f % 2 ^ H)
        l == (f % 2 ^ H) * (d % 2 ^ H) + (m % 2 ^ H) * 2 ^ H + w + (c % DV)
    IN  [low   |-> l % DV,
         carry |-> (l % 2 ^ (DB + 2)) \div DV + m \div 2 ^ H
                   + (f \div 2 ^ H) * (d \div 2 ^ H) + c \div DV]
Am3(d, f, w, c) ==
    LET m == (f \div 2 ^ H) * (d % 2 ^ H) + (d \div 2 ^ H) * (f % 2 ^ H)
        l == (f % 2 ^ H) * (d % 2 ^ H) + (m % 2 ^ H) * 2 ^ H + w + c
        signed == IF l < 2 ^ (DB + 3) THEN l ELSE l - 2 ^ (DB + 4)
    IN  [low   |-> l % DV,
         carry |-> signed \div DV + m \div 2 ^ H + (f \div 2 ^ H) * (d \div 2 ^ H)]

\* am, which is am3 in a browser that calls itself Netscape: digits i .. i+n-1
\* of x times f added to w from digit j on.
AmRow(x, i, f, w, j, c, n) ==
    FoldLeft(LAMBDA a, k : LET v == Am3(x.d[i + k], f, a.w[j + k], a.c)
                           IN  [w |-> [a.w EXCEPT ![j + k] = v.low], c |-> v.carry],
             [w |-> w, c |-> c], UpTo(n))

\* The carry of a row put in digit k, or added to it.
PutCarry(row, k)  == [row.w EXCEPT ![k + 1] = row.c]
PlusCarry(row, k) == [row.w EXCEPT ![k + 1] = @ + row.c]

Multiply(x0, a) ==
    LET x == Abs(x0)
        y == Abs(a)
        d == FoldLeft(LAMBDA w, i : PutCarry(AmRow(x, 0, y.d[i + 1], w, i, 0, x.t), i + x.t),
                      Zeros(x.t + y.t), Below(y.t))
        r == Clamp(Num(d, 0))
    IN  IF x0.s # a.s THEN Negate(r) ELSE r

\* Mutant: the carry of a digit's own square is lost.
SquareNoCarry(x0) ==
    LET x == Abs(x0)
        row(w, i) ==
            LET own == AmRow(x, i, x.d[i + 1], w, 2 * i, 0, 1)
                all == PlusCarry(AmRow(x, i + 1, 2 * x.d[i + 1], own.w, 2 * i + 1, 0,
                                       x.t - i - 1), i + x.t)
            IN  IF all[i + x.t + 1] < DV THEN all
                ELSE [all EXCEPT ![i + x.t + 1] = @ - DV, ![i + x.t + 2] = 1]
        rows == FoldLeft(row, Zeros(2 * x.t), Below(x.t - 1))
    IN  IF x.t = 0 THEN Zero
        ELSE Clamp(Num(PlusCarry(AmRow(x, x.t - 1, Top(x), rows, 2 * x.t - 2, 0, 1),
                                 2 * x.t - 1), 0))

Square(x0) ==
    LET x == Abs(x0)
        row(w, i) ==
            LET own == AmRow(x, i, x.d[i + 1], w, 2 * i, 0, 1)
                all == PlusCarry(AmRow(x, i + 1, 2 * x.d[i + 1], own.w, 2 * i + 1, own.c,
                                       x.t - i - 1), i + x.t)
            IN  IF all[i + x.t + 1] < DV THEN all
                ELSE [all EXCEPT ![i + x.t + 1] = @ - DV, ![i + x.t + 2] = 1]
        rows == FoldLeft(row, Zeros(2 * x.t), Below(x.t - 1))
    IN  IF x.t = 0 THEN Zero
        ELSE Clamp(Num(PlusCarry(AmRow(x, x.t - 1, Top(x), rows, 2 * x.t - 2, 0, 1),
                                 2 * x.t - 1), 0))

\* dMultiply and dAddOffset: times the number n, plus n at digit k.
DMultiply(x, n) ==
    LET row == AmRow(x, 0, n - 1, Used(x), 0, 0, x.t) IN Clamp(Num(Append(row.w, row.c), x.s))
RECURSIVE Settle(_, _)
Settle(d, k) == IF d[k] < DV THEN d
                ELSE LET e == IF k = Len(d) THEN Append(d, 0) ELSE d
                     IN  Settle([e EXCEPT ![k] = @ - DV, ![k + 1] = @ + 1], k + 1)
DAddOffset(x, n, k) ==
    LET d == Used(x) \o Zeros(k + 1 - x.t)
    IN  IF n = 0 THEN x ELSE Num(Settle([d EXCEPT ![k + 1] = @ + n], k + 1), x.s)

-----------------------------------------------------------------------------
(* Quotients and remainders.                                               *)

\* An estimate was too large: the divisor is put back until the digit is right.
\* y here is what is left of the divisor to a power of DV.
RECURSIVE PutBack(_, _, _, _)
PutBack(r, y, i, qd) ==
    LET back == Combine(r, -1, y, r)
    IN  IF back.d[i + 1] < qd - 1 THEN PutBack(back, y, i, qd - 1) ELSE back

\* n / d as a floating-point number: the nearest one, of two the even one.
Double(n, d) ==
    LET excess == Least({k \in 0 .. 2 * DB + 1 : n \div d < 2 ^ (FP + 1 + k)})
        unit   == 2 ^ excess
        m      == n \div (d * unit)
        rest   == n - m * d * unit
    IN  unit * (IF 2 * rest > d * unit \/ (2 * rest = d * unit /\ m % 2 = 1) THEN m + 1 ELSE m)

\* The digit that the two leading digits of the remainder make likely: products
\* with rounded quotients d1 and d2, in units of 2^-Scale, of which all of them
\* are multiples.
Scale == DB + FP
Estimate(high, low, yt) ==
    LET d1 == Double(2 ^ (FP + Scale), yt)
        d2 == Double(2 ^ (F1 + Scale), yt)
    IN  Double(Double(high * d1, 1) + Double((low + 2 ^ F2) * d2, 1), 1) \div 2 ^ Scale

\* Mutant: an estimate that is wrong is kept.
QuotientDigitHasty(r, y, y0, yt, j) ==
    LET i   == j + y.t
        qd  == IF r.d[i + 1] = y0 THEN DM ELSE Estimate(r.d[i + 1], r.d[i], yt)
    IN  [r EXCEPT !.d = PlusCarry(AmRow(y, 0, qd, r.d, j, 0, y.t), i)]

\* The loop of divRemTo for digit j: r holds the remainder and, above it, the
\* digits of the quotient found so far.  An estimate that is too large is
\* noticed; one that is too small is not.
QuotientDigit(r, y, y0, yt, j) ==
    LET i   == j + y.t
        qd  == IF r.d[i + 1] = y0 THEN DM ELSE Estimate(r.d[i + 1], r.d[i], yt)
        try == [r EXCEPT !.d = PlusCarry(AmRow(y, 0, qd, r.d, j, 0, y.t), i)]
    IN  IF try.d[i + 1] < qd THEN PutBack(try, DLShift(y, j), i, qd) ELSE try

DivRem(x, m) ==
    LET pm   == Abs(m)
        nsh  == DB - NBits(Top(pm))
        y    == IF nsh > 0 THEN LShift(pm, nsh) ELSE pm
        ys   == y.t
        y0   == Top(y)
        yt   == y0 * 2 ^ F1 + (IF ys > 1 THEN y.d[ys - 1] \div 2 ^ F2 ELSE 0)
        r0   == IF nsh > 0 THEN LShift(Abs(x), nsh) ELSE Abs(x)
        js   == r0.t - ys
        high == DLShift(y, js)
        r1   == IF CompareTo(r0, high) < 0 THEN r0
                ELSE LET one == [d |-> Append(Used(r0), 1) \o SubSeq(r0.d, r0.t + 2, Len(r0.d)),
                                 t |-> r0.t + 1, s |-> 0]
                     IN  Combine(one, -1, high, one)
        neg  == Combine(DLShift(One, ys), -1, y, Zero)
        y2   == Num(Used(neg) \o Zeros(ys - neg.t), neg.s)
        r2   == FoldLeft(LAMBDA r, k : QuotientDigit(r, y2, y0, yt, js - k), r1, UpTo(js))
        q    == DRShift(r2, ys)
        rem  == RShift(Clamp([r2 EXCEPT !.t = ys]), nsh)
    IN  IF Abs(x).t < pm.t THEN [q |-> Zero, r |-> x]
        ELSE [q |-> IF x.s # m.s THEN Negate(q) ELSE q, r |-> IF x.s < 0 THEN Negate(rem) ELSE rem]

Mod(x, a) ==
    LET r == DivRem(Abs(x), a).r
    IN  IF x.s < 0 /\ CompareTo(r, Zero) > 0 THEN Subtract(a, r) ELSE r

ModInt(x, n) ==
    IF n <= 0 THEN 0
    ELSE IF x.t > 0 /\ DV % n = 0 THEN x.d[1] % n
    ELSE FoldRight(LAMBDA d, r : ((DV % n) * r + d) % n, Used(x), IF x.s < 0 THEN n - 1 ELSE 0)

-----------------------------------------------------------------------------
(* Reduction modulo m: Classic, Montgomery, Barrett, and none.             *)

\* JavaScript's remainder has the sign of the dividend.
JsMod(n, m) == IF n < 0 THEN -((-n) % m) ELSE n % m

\* invDigit: -1/m modulo DV, by doubling the number of right bits.
InvDigit(m) ==
    LET x      == m.d[1]
        more(y, bits) == (y * (2 - (x % 2 ^ bits) * y)) % 2 ^ bits
        half   == FoldLeft(more, x % 4, SelectSeq(<<4, 8, 16>>, LAMBDA b : b < DB))
        y      == JsMod(half * (2 - JsMod(x * half, DV)), DV)
    IN  IF m.t < 1 \/ x % 2 = 0 THEN 0 ELSE IF y > 0 THEN DV - y ELSE -y

Classic(m)    == [kind |-> "classic", m |-> m]
Montgomery(m) == [kind |-> "montgomery", m |-> m, mp |-> InvDigit(m)]
Barrett(m)    == [kind |-> "barrett", m |-> m, mu |-> DivRem(DLShift(One, 2 * m.t), m).q]
NullExp       == [kind |-> "none"]

\* Mutant: the last subtraction is left out.
MontReduceOnce(z, x) ==
    LET m    == z.m
        d0   == Used(x) \o Zeros(2 * m.t + 1 - x.t)
        u(n) == LET j == n % 2 ^ H
                IN  (j * (z.mp % 2 ^ H)
                     + ((j * (z.mp \div 2 ^ H) + (n \div 2 ^ H) * (z.mp % 2 ^ H))
                        % 2 ^ (DB - H)) * 2 ^ H) % DV
        add(d, i) == Settle(PlusCarry(AmRow(m, 0, u(d[i + 1]), d, i, 0, m.t), i + m.t), i + m.t + 1)
    IN  DRShift(Clamp(Num(FoldLeft(add, d0, Below(m.t)), x.s)), m.t)

\* montReduce: digits of x are cleared from below by adding multiples of m.
MontReduce(z, x) ==
    LET m    == z.m
        d0   == Used(x) \o Zeros(2 * m.t + 1 - x.t)
        u(n) == LET j == n % 2 ^ H
                IN  (j * (z.mp % 2 ^ H)
                     + ((j * (z.mp \div 2 ^ H) + (n \div 2 ^ H) * (z.mp % 2 ^ H))
                        % 2 ^ (DB - H)) * 2 ^ H) % DV
        add(d, i) == Settle(PlusCarry(AmRow(m, 0, u(d[i + 1]), d, i, 0, m.t), i + m.t), i + m.t + 1)
        r    == DRShift(Clamp(Num(FoldLeft(add, d0, Below(m.t)), x.s)), m.t)
    IN  IF CompareTo(r, m) >= 0 THEN Subtract(r, m) ELSE r

\* x * a without its lower n - 1 digits, then without one more.
MultiplyUpper(x, a, n) ==
    LET k == n - 1
        from == IF k > x.t THEN k - x.t ELSE 0
        row(w, i) == PutCarry(AmRow(x, k - i, a.d[i + 1], w, 0, 0, x.t + i - k), x.t + i - k)
        d == FoldLeft(row, Zeros(x.t + a.t - k), [i \in 1 .. a.t - from |-> from + i - 1])
    IN  DRShift(Clamp(Num(d, 0)), 1)

\* The lower n digits of x * a.
MultiplyLower(x, a, n) ==
    LET len  == IF x.t + a.t < n THEN x.t + a.t ELSE n
        row(w, i) == IF i < len - x.t THEN PutCarry(AmRow(x, 0, a.d[i + 1], w, i, 0, x.t), i + x.t)
                     ELSE AmRow(x, 0, a.d[i + 1], w, i, 0, n - i).w
        rows == IF a.t < n THEN a.t ELSE n
    IN  Clamp(Num(FoldLeft(row, Zeros(len), Below(rows)), 0))

RECURSIVE Raise(_, _, _)
Raise(x, r, k) == IF CompareTo(x, r) < 0 THEN Raise(DAddOffset(x, 1, k), r, k) ELSE x
RECURSIVE Lower(_, _)
Lower(x, m) == IF CompareTo(x, m) >= 0 THEN Lower(Subtract(x, m), m) ELSE x

BarrettReduce(z, x) ==
    LET k   == z.m.t
        q   == MultiplyUpper(z.mu, DRShift(x, k - 1), k + 1)
        r   == MultiplyLower(z.m, q, k + 1)
        low == IF x.t > k + 1 THEN Clamp([x EXCEPT !.t = k + 1]) ELSE x
    IN  Lower(Subtract(Raise(low, r, k + 1), r), z.m)

Reduce(z, x) ==
    CASE z.kind = "classic"    -> DivRem(x, z.m).r
      [] z.kind = "montgomery" -> MontReduce(z, x)
      [] z.kind = "barrett"    -> BarrettReduce(z, x)
      [] z.kind = "none"       -> x

Convert(z, x) ==
    LET r == DivRem(DLShift(Abs(x), z.m.t), z.m).r
    IN  CASE z.kind = "classic" ->
               (IF x.s < 0 \/ CompareTo(x, z.m) >= 0 THEN Mod(x, z.m) ELSE x)
          [] z.kind = "montgomery" ->
               (IF x.s < 0 /\ CompareTo(r, Zero) > 0 THEN Subtract(z.m, r) ELSE r)
          [] z.kind = "barrett" ->
               (IF x.s < 0 \/ x.t > 2 * z.m.t THEN Mod(x, z.m)
                ELSE IF CompareTo(x, z.m) < 0 THEN x ELSE BarrettReduce(z, x))
          [] z.kind = "none" -> x

Revert(z, x)   == IF z.kind = "montgomery" THEN MontReduce(z, x) ELSE x
MulTo(z, x, y) == Reduce(z, Multiply(x, y))
SqrTo(z, x)    == Reduce(z, Square(x))

-----------------------------------------------------------------------------
(* Powers.                                                                 *)

\* exp, for a number e: bit by bit from the top.
Exp(x, e, z) ==
    LET g    == Convert(z, x)
        bits == NBits(e) - 1
        next(r, i) == LET sq == SqrTo(z, r)
                      IN  IF (e \div 2 ^ (bits - i)) % 2 = 1 THEN MulTo(z, sq, g) ELSE sq
    IN  IF e < 1 THEN One ELSE Revert(z, FoldLeft(next, g, UpTo(bits)))

Pow(x, e) == Exp(x, e, NullExp)
ModPowInt(x, e, m) ==
    Exp(x, e, IF e < SmallExponent \/ IsEven(m) THEN Classic(m) ELSE Montgomery(m))

\* modPow: k bits of the exponent at a time, shifted down to an odd number.
WindowSize(bits) ==
    LET wider == {i \in DOMAIN Windows : bits < Windows[i].below}
    IN  IF wider = {} THEN LastWindow ELSE Windows[Least(wider)].size

Squared(z, r, n) == FoldLeft(LAMBDA v, i : SqrTo(z, v), r, UpTo(n))
RECURSIVE Strip(_, _)
Strip(w, n) == IF w % 2 = 0 THEN Strip(w \div 2, n - 1) ELSE [w |-> w, n |-> n]
RECURSIVE SkipZeros(_, _, _)
SkipZeros(z, e, p) ==
    IF p.j < 0 \/ TestBit(e, p.j * DB + p.i) THEN p
    ELSE SkipZeros(z, e, [r |-> SqrTo(z, p.r),
                          i |-> IF p.i = 0 THEN DB - 1 ELSE p.i - 1,
                          j |-> IF p.i = 0 THEN p.j - 1 ELSE p.j])

\* Mutant: one bit too few is taken from the next digit.
WindowShort(e, k, p) ==
    LET d == e.d[p.j + 1]
    IN  IF p.i >= k - 1 THEN (d \div 2 ^ (p.i - k + 1)) % 2 ^ k
        ELSE (d % 2 ^ (p.i + 1)) * 2 ^ (k - 1 - p.i)
             + (IF p.j > 0 THEN e.d[p.j] \div 2 ^ (DB + p.i - k + 2) ELSE 0)

\* The k bits from bit i of digit j down, which may go on in the next digit.
WindowAt(e, k, p) ==
    LET d == e.d[p.j + 1]
    IN  IF p.i >= k - 1 THEN (d \div 2 ^ (p.i - k + 1)) % 2 ^ k
        ELSE (d % 2 ^ (p.i + 1)) * 2 ^ (k - 1 - p.i)
             + (IF p.j > 0 THEN e.d[p.j] \div 2 ^ (DB + p.i - k + 1) ELSE 0)

\* One window after another; at the first one the result so far is 1.
RECURSIVE Slide(_, _, _, _, _, _)
Slide(z, e, k, g, p, first) ==
    LET s     == Strip(WindowAt(e, k, p), k)
        back  == p.i - s.n < 0
        after == [r |-> IF first THEN g[s.w] ELSE MulTo(z, Squared(z, p.r, s.n), g[s.w]),
                  i |-> IF back THEN p.i - s.n + DB ELSE p.i - s.n,
                  j |-> IF back THEN p.j - 1 ELSE p.j]
    IN  IF p.j < 0 THEN p.r ELSE Slide(z, e, k, g, SkipZeros(z, e, after), FALSE)

ModPow(x, e, m) ==
    LET bits == BitLength(e)
        k    == WindowSize(bits)
        z    == IF bits < ClassicBits THEN Classic(m)
                ELSE IF IsEven(m) THEN Barrett(m) ELSE Montgomery(m)
        g1   == Convert(z, x)
        g2   == SqrTo(z, g1)
        g[n \in 1 .. 2 ^ k - 1] == IF n = 1 THEN g1 ELSE MulTo(z, g2, g[n - 2])
    IN  IF bits <= 0 THEN One
        ELSE Revert(z, Slide(z, e, k, g, [r |-> One, j |-> e.t - 1, i |-> NBits(Top(e)) - 1], TRUE))

-----------------------------------------------------------------------------
(* Divisors and primes.                                                    *)

Unshift(x) == LET i == LowestSetBit(x) IN IF i > 0 THEN RShift(x, i) ELSE x

RECURSIVE BinaryGcd(_, _)
BinaryGcd(x0, y0) ==
    LET x == Unshift(x0)
        y == Unshift(y0)
    IN  IF SigNum(x0) <= 0 THEN y0
        ELSE IF CompareTo(x, y) >= 0 THEN BinaryGcd(RShift(Subtract(x, y), 1), y)
        ELSE BinaryGcd(x, RShift(Subtract(y, x), 1))

Gcd(x0, a0) ==
    LET big   == IF CompareTo(Abs(x0), Abs(a0)) < 0 THEN Abs(a0) ELSE Abs(x0)
        small == IF CompareTo(Abs(x0), Abs(a0)) < 0 THEN Abs(x0) ELSE Abs(a0)
        i     == LowestSetBit(big)
        g     == IF i < LowestSetBit(small) THEN i ELSE LowestSetBit(small)
    IN  IF LowestSetBit(small) < 0 THEN big
        ELSE LShift(BinaryGcd(RShift(big, g), RShift(small, g)), g)

\* The loop of modInverse.  For the x and m given, u = a*m + b*x and
\* v = c*m + d*x hold of the rows of s; a and c are kept for even m only.
RECURSIVE Halve(_, _, _)
Halve(x, m, row) ==      \* row: [n, a, b], halved until n is odd
    LET ac  == IsEven(m)
        fix == IF ac THEN ~IsEven(row.a) \/ ~IsEven(row.b) ELSE ~IsEven(row.b)
        a   == IF ~ac THEN row.a ELSE RShift(IF fix THEN Add(row.a, x) ELSE row.a, 1)
        b   == RShift(IF fix THEN Subtract(row.b, m) ELSE row.b, 1)
    IN  IF ~IsEven(row.n) THEN row ELSE Halve(x, m, [n |-> RShift(row.n, 1), a |-> a, b |-> b])
Less(row, other, m) == [n |-> Subtract(row.n, other.n), b |-> Subtract(row.b, other.b),
                        a |-> IF IsEven(m) THEN Subtract(row.a, other.a) ELSE row.a]
RECURSIVE InverseLoop(_, _, _, _)
InverseLoop(x, m, u0, v0) ==
    LET u == Halve(x, m, u0)
        v == Halve(x, m, v0)
    IN  IF SigNum(u0.n) = 0 THEN v0
        ELSE IF CompareTo(u.n, v.n) >= 0 THEN InverseLoop(x, m, Less(u, v, m), v)
        ELSE InverseLoop(x, m, u, Less(v, u, m))

\* Mutant: a coefficient below 0 is returned as it is.
ModInverseNegative(x, m) ==
    LET v == InverseLoop(x, m, [n |-> m, a |-> One, b |-> Zero], [n |-> x, a |-> Zero, b |-> One])
    IN  IF (IsEven(x) /\ IsEven(m)) \/ SigNum(m) = 0 \/ CompareTo(v.n, One) # 0 THEN Zero
        ELSE IF CompareTo(v.b, m) >= 0 THEN Subtract(v.b, m) ELSE v.b

ModInverse(x, m) ==
    LET v == InverseLoop(x, m, [n |-> m, a |-> One, b |-> Zero], [n |-> x, a |-> Zero, b |-> One])
        d == IF SigNum(v.b) < 0 THEN Add(v.b, m) ELSE v.b
    IN  IF (IsEven(x) /\ IsEven(m)) \/ SigNum(m) = 0 \/ CompareTo(v.n, One) # 0 THEN Zero
        ELSE IF CompareTo(v.b, m) >= 0 THEN Subtract(v.b, m)
        ELSE IF SigNum(d) < 0 THEN Add(d, m) ELSE d

\* millerRabin, for the bases it happens to pick.
RECURSIVE SquareTest(_, _, _, _, _)
SquareTest(x, n1, y, j, k) ==
    LET sq == ModPowInt(y, 2, x)
    IN  IF CompareTo(y, n1) = 0 THEN TRUE
        ELSE IF j >= k \/ CompareTo(sq, One) = 0 THEN FALSE
        ELSE SquareTest(x, n1, sq, j + 1, k)

\* Mutant: one squaring too few.
MillerRabinShort(x, bases) ==
    LET n1   == Subtract(x, One)
        k    == LowestSetBit(n1)
        r    == RShift(n1, k)
        y(a) == ModPow(Of(a), r, x)
    IN  k > 0 /\ \A a \in bases :
            CompareTo(y(a), One) = 0 \/ SquareTest(x, n1, y(a), 1, k - 1)

MillerRabin(x, bases) ==
    LET n1   == Subtract(x, One)
        k    == LowestSetBit(n1)
        r    == RShift(n1, k)
        y(a) == ModPow(Of(a), r, x)
    IN  k > 0 /\ \A a \in bases : CompareTo(y(a), One) = 0 \/ SquareTest(x, n1, y(a), 1, k)

\* Division by the table of primes from the i-th on, several at a time.
RECURSIVE Group(_, _)
Group(m, j) == IF j <= Len(LowPrimes) /\ m < LpLim THEN Group(m * LowPrimes[j], j + 1)
               ELSE [m |-> m, next |-> j]
RECURSIVE LowFactor(_, _)
LowFactor(x, i) ==
    LET group == Group(LowPrimes[i], i + 1)
        r     == ModInt(x, group.m)
    IN  i <= Len(LowPrimes) /\ (\/ \E l \in i .. group.next - 1 : r % LowPrimes[l] = 0
                               \/ LowFactor(x, group.next))

IsProbablePrime(x0, bases) ==
    LET x == Abs(x0)
    IN  IF x.t = 1 /\ x.d[1] <= LowPrimes[Len(LowPrimes)] THEN x.d[1] \in ToSet(LowPrimes)
        ELSE /\ ~IsEven(x)
             /\ ~LowFactor(x, 2)
             /\ MillerRabin(x, bases)

-----------------------------------------------------------------------------
(* Texts and bytes: sequences of digits, highest first, and Minus.         *)

Minus == -1

\* The digits of chars, k bits each, from the last to the first: sh is the place
\* in the top digit of the number that the next one takes.
PushBits(a, c, k) ==
    LET next == IF a.sh + k >= DB THEN a.sh + k - DB ELSE a.sh + k
        room == 2 ^ (DB - a.sh)
        last == Len(a.d)
        d    == IF a.sh = 0 THEN Append(a.d, c)
                ELSE IF a.sh + k > DB
                     THEN Append([a.d EXCEPT ![last] = @ + (c % room) * 2 ^ a.sh], c \div room)
                     ELSE [a.d EXCEPT ![last] = @ + c * 2 ^ a.sh]
    IN  IF c < 0 THEN [a EXCEPT !.mi = @ \/ c = Minus] ELSE [d |-> d, sh |-> next, mi |-> FALSE]

FromBits(chars, k) ==
    LET a == FoldRight(LAMBDA c, b : PushBits(b, c, k), chars, [d |-> <<>>, sh |-> 0, mi |-> FALSE])
        r == Clamp(Num(a.d, 0))
    IN  IF a.mi THEN Negate(r) ELSE r

\* Bytes: with the top bit of the first one set the number is negative.
FromBytes(bytes) ==
    LET chars    == [i \in DOMAIN bytes |-> bytes[i] % 2 ^ K]
        a        == FoldRight(LAMBDA c, b : PushBits(b, c, K), chars,
                              [d |-> <<>>, sh |-> 0, mi |-> FALSE])
        negative == chars # <<>> /\ chars[1] >= 2 ^ (K - 1)
        filled   == IF negative /\ a.sh > 0
                    THEN [a.d EXCEPT ![Len(a.d)] = @ + (2 ^ (DB - a.sh) - 1) * 2 ^ a.sh]
                    ELSE a.d
    IN  Clamp(Num(filled, IF negative THEN -1 ELSE 0))

\* From bit p of digit i down, k bits at a time.
RECURSIVE Groups(_, _, _, _)
Groups(x, k, i, p) ==
    LET d    == x.d[i + 1]
        over == p + DB - k      \* where the chunk ends that goes on in the next digit
    IN  IF i < 0 THEN <<>>
        ELSE IF p < k THEN <<(d % 2 ^ p) * 2 ^ (k - p) + x.d[i] \div 2 ^ over>>
                           \o Groups(x, k, i - 1, over)
        ELSE <<(d \div 2 ^ (p - k)) % 2 ^ k>>
             \o (IF p = k THEN Groups(x, k, i - 1, DB) ELSE Groups(x, k, i, p - k))

FirstBits(x, k) == DB - ((x.t * DB) % k)

ToBits(x, k) ==
    LET p    == FirstBits(x, k)
        all  == (IF p < DB THEN <<Top(x) \div 2 ^ p>> ELSE <<>>) \o Groups(x, k, x.t - 1, p)
        lead == {i \in DOMAIN all : all[i] > 0}
    IN  IF x.t = 0 \/ lead = {} THEN <<0>> ELSE SubSeq(all, Least(lead), Len(all))

\* Mutant: a byte is left out whenever it equals the sign.
ToByteArrayTrimmed(x) ==
    LET p       == FirstBits(x, K)
        signed(d) == IF d >= 2 ^ (K - 1) THEN d - 2 ^ K ELSE d
        top     == Top(x) \div 2 ^ p
        first   == IF p < DB /\ top # (IF x.s < 0 THEN DM ELSE 0) \div 2 ^ p
                   THEN <<top + x.s * 2 ^ (DB - p)>> ELSE <<>>
        put(r, d) == IF d # x.s THEN Append(r, signed(d)) ELSE r
        all     == FoldLeft(put, first, Groups(x, K, x.t - 1, p))
    IN  IF x.t = 0 \/ all = <<>> THEN <<x.s>> ELSE all

ToByteArray(x) ==
    LET p       == FirstBits(x, K)
        signed(d) == IF d >= 2 ^ (K - 1) THEN d - 2 ^ K ELSE d
        top     == Top(x) \div 2 ^ p
        first   == IF p < DB /\ top # (IF x.s < 0 THEN DM ELSE 0) \div 2 ^ p
                   THEN <<top + x.s * 2 ^ (DB - p)>> ELSE <<>>
        put(r, d) == IF r = <<>> /\ (x.s < 0) # (signed(d) < 0) THEN <<x.s, signed(d)>>
                     ELSE IF r # <<>> \/ signed(d) # x.s THEN Append(r, signed(d)) ELSE r
        all     == FoldLeft(put, first, Groups(x, K, x.t - 1, p))
    IN  IF x.t = 0 \/ all = <<>> THEN <<x.s>> ELSE all

\* Any other radix goes through as many digits at once as fit one of the number.
ChunkSize(b) == CHOOSE n \in 1 .. DB : b ^ n <= DV /\ b ^ (n + 1) > DV

RECURSIVE Plain(_, _)
Plain(n, b) == IF n < b THEN <<n>> ELSE Plain(n \div b, b) \o <<n % b>>

SignedInt(n) == ((n + 2 ^ (IntBits - 1)) % 2 ^ IntBits) - 2 ^ (IntBits - 1)
IntValue(x) ==
    IF x.t = 0 THEN x.s
    ELSE IF x.t = 1 THEN IF x.s < 0 THEN x.d[1] - DV ELSE x.d[1]
    ELSE SignedInt((x.d[2] % 2 ^ (IntBits - DB)) * DV + x.d[1])

\* Mutant: zeros at the front of a group of digits are left out.
FullGroupShort(n, b, cs) == Plain(n, b)
\* A group of digits that is not the first.
FullGroup(n, b, cs) == Tail(Plain(b ^ cs + n, b))

\* byteValue and shortValue: the lowest n bits with their sign.
LowBits(x, n) == LET low == x.d[1] % 2 ^ n
                 IN  IF x.t = 0 THEN x.s ELSE IF low < 2 ^ (n - 1) THEN low ELSE low - 2 ^ n

RECURSIVE RadixDigits(_, _, _)
RadixDigits(x, b, cs) ==
    LET qr == DivRem(x, Of(b ^ cs))
    IN  IF SigNum(qr.q) <= 0 THEN Plain(IntValue(qr.r), b)
        ELSE RadixDigits(qr.q, b, cs) \o FullGroup(IntValue(qr.r), b, cs)

\* toString.
ToText(x, b) ==
    LET power == {k \in 1 .. 5 : 2 ^ k = b}
        abs   == Abs(x)
        text  == IF power # {} THEN ToBits(abs, Least(power))
                 ELSE IF SigNum(abs) = 0 THEN <<0>> ELSE RadixDigits(abs, b, ChunkSize(b))
    IN  IF x.s < 0 THEN <<Minus>> \o text ELSE text

FromRadix(chars, b) ==
    LET cs == ChunkSize(b)
        full(a) == [x |-> DAddOffset(DMultiply(a.x, b ^ cs), a.w, 0), j |-> 0, w |-> 0, mi |-> a.mi]
        push(a, c) ==
            IF c < 0 THEN [a EXCEPT !.mi = @ \/ (c = Minus /\ SigNum(a.x) = 0)]
            ELSE LET more == [a EXCEPT !.w = b * @ + c, !.j = @ + 1]
                 IN  IF more.j >= cs THEN full(more) ELSE more
        a == FoldLeft(push, [x |-> Zero, j |-> 0, w |-> 0, mi |-> FALSE], chars)
        r == IF a.j > 0 THEN DAddOffset(DMultiply(a.x, b ^ a.j), a.w, 0) ELSE a.x
    IN  IF a.mi THEN Negate(r) ELSE r

\* fromString.
FromText(chars, b) ==
    LET power == {k \in 1 .. 5 : 2 ^ k = b}
    IN  IF power # {} THEN FromBits(chars, Least(power)) ELSE FromRadix(chars, b)

\* fromNumber: the bytes are random; then the next number of a bits that may be
\* prime.  The search never ends if there is none.
RandomNumber(bits, bytes) ==
    FromBytes([bytes EXCEPT ![1] = IF bits % K > 0 THEN @ % 2 ^ (bits % K) ELSE 0])
\* Mutant: a number that has become too long is kept.
NextOddGrowing(x, a) == DAddOffset(x, 2, 0)
NextOdd(x, a) ==
    LET next == DAddOffset(x, 2, 0)
    IN  IF BitLength(next) > a THEN Subtract(next, LShift(One, a - 1)) ELSE next
RECURSIVE NextPrime(_, _, _)
NextPrime(x, a, bases) ==
    IF IsProbablePrime(x, bases) THEN x ELSE NextPrime(NextOdd(x, a), a, bases)
NewPrime(a, bytes, bases) ==
    LET x   == RandomNumber(a, bytes)
        top == IF TestBit(x, a - 1) THEN x ELSE Bitwise2(LShift(One, a - 1), OpOr, x)
        odd == IF IsEven(top) THEN DAddOffset(top, 1, 0) ELSE top
    IN  IF a < 2 THEN One ELSE NextPrime(odd, a, bases)
=============================================================================
