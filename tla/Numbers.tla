------------------------------ MODULE Numbers -------------------------------
(***************************************************************************)
(* BigInteger against the integers: what its algorithms on digits compute  *)
(* is what the names of its functions say.  A behaviour picks a topic and  *)
(* then one argument after the other, and starts again when all arguments  *)
(* are there: of that step the properties speak.                           *)
(*                                                                         *)
(* Numbers have few digits of few values, the ones at which carries,       *)
(* borrows, signs and estimates tip over: zero, one, half the base and one *)
(* below it, and the largest digit.                                        *)
(***************************************************************************)
EXTENDS Integers, Sequences, FiniteSets, SequencesExt

CONSTANTS Topics, DB, FP, H, K, SmallExponent, ClassicBits, Windows, LastWindow, LowPrimes,
          LpLim, IntBits,
          Digits, Ends,     \* digits that numbers are made of; Ends are fewer
          Exponents, Radices, MaxPrime, MaxBits

VARIABLES topic, args
vars == <<topic, args>>

B == INSTANCE BigInteger
R == INSTANCE Rsa

\* Numbers of up to n digits, and with both signs.
Naturals(D, n) == {FoldLeft(LAMBDA v, d : v * B!DV + d, 0, s) : s \in [1 .. n -> D]}
Both(S)        == S \cup {-n : n \in S}
Large == Naturals(Ends, 3)
Small == Naturals(Digits, 2)

\* The primes of so many bits.
PrimesOf(bits) == {n \in 2 ^ (bits - 1) .. 2 ^ bits - 1 : \A d \in 2 .. n - 1 : n % d # 0}

Inputs ==
    CASE topic = "sums"     -> <<Both(Large), Both(Large)>>
      [] topic = "bits"     -> <<Both(Large)>>
      [] topic = "bytes"    -> <<Both(Naturals(Digits, 3))>>
      [] topic = "division" -> <<Both(Naturals(Digits, 3)), Both(Small) \ {0}>>
      [] topic = "rows"     -> <<0 .. B!DM, 0 .. 2 * B!DV - 1, 0 .. B!DM, 0 .. 3 * B!DV - 1>>
      [] topic = "powers"   -> <<Small \ {0}, Both(Naturals(Ends, 2)), Exponents>>
      [] topic = "reducers" -> <<Small \ {0}, Both(Naturals(Ends, 2))>>
      [] topic = "divisors" -> <<Naturals(Digits, 3) \ {0}, Small \ {0}>>
      [] topic = "texts"    -> <<Both(Naturals(Digits, 3)), Radices>>
      [] topic = "primes"   -> <<0 .. MaxPrime, SUBSET ToSet(LowPrimes)>>
      [] topic = "keys"     -> <<1 .. MaxBits, [1 .. MaxBits \div K + 1 -> 0 .. 2 ^ K - 1]>>
      [] topic = "rsa"      -> <<{3, 5, 7}, PrimesOf(3) \cup PrimesOf(4), PrimesOf(4),
                                 IF Len(args) < 3 THEN {} ELSE 0 .. args[2] * args[3] - 1>>

Init == topic \in Topics /\ args = <<>>

Next ==
    /\ \/ /\ Len(args) < Len(Inputs)
          /\ \E a \in Inputs[Len(args) + 1] : args' = Append(args, a)
       \/ Len(args) = Len(Inputs) /\ args' = <<>>
    /\ UNCHANGED topic

Spec == Init /\ [][Next]_vars

-----------------------------------------------------------------------------
(* Properties.                                                             *)

Given(t, n) == topic = t /\ Len(args) = n
N(i)        == B!Of(args[i])
AbsOf(n)    == IF n < 0 THEN -n ELSE n
Bit(n, i)   == (n \div 2 ^ i) % 2 = 1
Bits        == 0 .. 3 * DB + 1
Divides(d, n)   == n % d = 0
PowerMod(x, e, m) == FoldLeft(LAMBDA r, i : (r * x) % m, 1 % m, [i \in 1 .. e |-> i])

\* x stands for n, in the one form that comparisons rely on: proper digits, and
\* none at the top that repeats the sign.
Is(x, n) == /\ B!Val(x) = n
            /\ B!Clamp(x).t = x.t
            /\ \A i \in 1 .. x.t : x.d[i] \in 0 .. B!DM

\* Sums, differences and comparisons are those of the integers, whatever the
\* signs and however far a carry or borrow runs past the shorter number.
SumsRight ==
    Given("sums", 2) =>
        /\ Is(B!Add(N(1), N(2)), args[1] + args[2])
        /\ Is(B!Subtract(N(1), N(2)), args[1] - args[2])
        /\ (B!CompareTo(N(1), N(2)) < 0) = (args[1] < args[2])
        /\ (B!CompareTo(N(1), N(2)) = 0) = (args[1] = args[2])

\* So are products, and squares, which are computed on their own.
ProductsRight ==
    Given("sums", 2) =>
        /\ Is(B!Multiply(N(1), N(2)), args[1] * args[2])
        /\ args[1] = args[2] => Is(B!Square(N(1)), args[1] * args[1])

\* Shifts, single bits and their counts agree with two's complement that goes on
\* for ever, negative numbers and bits beyond the last digit included.
BitsRight ==
    Given("bits", 1) =>
        LET n    == args[1]
            ones == {i \in Bits : Bit(n, i) # (n < 0)}
        IN  /\ \A i \in Bits :
                 /\ B!TestBit(N(1), i) = Bit(n, i)
                 /\ Is(B!LShift(N(1), i), n * 2 ^ i)
                 /\ Is(B!RShift(N(1), i), n \div 2 ^ i)
                 /\ Is(B!ChangeBit(N(1), B!OpXor, i), IF Bit(n, i) THEN n - 2 ^ i ELSE n + 2 ^ i)
            /\ Is(B!Complement(N(1)), -1 - n)
            /\ B!BitCount(N(1)) = Cardinality(ones)
            /\ \A i \in Bits : i < B!BitLength(N(1)) <=> \E j \in ones : i <= j
            /\ n # 0 => \A i \in Bits : i < B!LowestSetBit(N(1)) <=> Divides(2 ^ (i + 1), n)
            /\ B!IntValue(N(1)) = B!SignedInt(n)
            /\ \A k \in {K, DB} : /\ Divides(2 ^ k, B!LowBits(N(1), k) - n)
                                /\ B!LowBits(N(1), k) \in -(2 ^ (k - 1)) .. 2 ^ (k - 1) - 1

\* And, or, exclusive or and and-not work bit by bit on both numbers.
LogicRight ==
    Given("sums", 2) =>
        \A i \in Bits :
            LET p == Bit(args[1], i)
                q == Bit(args[2], i)
            IN  /\ B!TestBit(B!Bitwise2(N(1), B!OpAnd, N(2)), i) = (p /\ q)
                /\ B!TestBit(B!Bitwise2(N(1), B!OpOr, N(2)), i) = (p \/ q)
                /\ B!TestBit(B!Bitwise2(N(1), B!OpXor, N(2)), i) = (p # q)
                /\ B!TestBit(B!Bitwise2(N(1), B!OpAndNot, N(2)), i) = (p /\ ~q)

\* am1, am2 and am3 compute the same for the factors and carries their comment
\* allows ("c < 3*dvalue, x < 2*dvalue, this_i < dvalue"), the last two within
\* the bits that JavaScript shifts.
RowsAgree ==
    Given("rows", 4) =>
        LET row == B!Am1(args[1], args[2], args[3], args[4])
        IN  /\ B!Am2(args[1], args[2], args[3], args[4]) = row
            /\ B!Am3(args[1], args[2], args[3], args[4]) = row

\* Division: however wrong the estimated digits are, quotient and remainder are
\* those of the integers, cut towards zero; mod and modInt have the sign of m.
DivisionRight ==
    Given("division", 2) =>
        LET x     == args[1]
            m     == args[2]
            cut   == AbsOf(x) \div AbsOf(m)
            q     == IF (x < 0) # (m < 0) THEN -cut ELSE cut
            found == B!DivRem(N(1), N(2))
        IN  /\ Is(found.q, q)
            /\ Is(found.r, x - q * m)
            /\ m > 0 => /\ Is(B!Mod(N(1), N(2)), x % m)
                        /\ B!ModInt(N(1), m) = x % m

\* Classic, Barrett and, for odd numbers, Montgomery reduction give the same
\* products modulo m.
ReducersAgree ==
    Given("reducers", 2) =>
        LET m == args[1]
            Reducers == {B!Classic(N(1)), B!Barrett(N(1))}
                        \cup (IF Divides(2, m) THEN {} ELSE {B!Montgomery(N(1))})
        IN  \A z \in Reducers, y \in {0, 1, m - 1, B!DM} :
                LET product == B!MulTo(z, B!Convert(z, N(2)), B!Convert(z, B!Of(y)))
                IN  /\ Is(B!Revert(z, B!Convert(z, N(2))), args[2] % m)
                    /\ Is(B!Revert(z, product), ((args[2] % m) * y) % m)

\* Powers modulo m, by windows or bit by bit, are repeated multiplication.
PowersRight ==
    Given("powers", 3) =>
        LET power == PowerMod(args[2] % args[1], args[3], args[1])
        IN  /\ Is(B!ModPow(N(2), N(3), N(1)), power)
            /\ Is(B!ModPowInt(N(2), args[3], N(1)), power)

\* The greatest common divisor is one and the greatest; the inverse modulo m is
\* one and below m, or 0 when there is none.
DivisorsRight ==
    Given("divisors", 2) =>
        LET x == args[1]
            m == args[2]
            d == B!Val(B!Gcd(N(1), N(2)))
            i == B!Val(B!ModInverse(N(1), N(2)))
        IN  /\ Divides(d, x) /\ Divides(d, m)
            /\ \A e \in d + 1 .. m : ~(Divides(e, x) /\ Divides(e, m))
            /\ IF d = 1 THEN i \in 0 .. m - 1 /\ (x * i) % m = 1 % m ELSE i = 0

\* A number survives being written and read in any radix, is written without
\* zeros in front, and as the fewest bytes that show its sign.
TextsRight ==
    /\ Given("texts", 2) =>
          LET text == B!ToText(N(1), args[2])
              abs  == IF args[1] < 0 THEN Tail(text) ELSE text
          IN  /\ Is(B!FromText(text, args[2]), args[1])
              /\ abs[1] = 0 => Len(abs) = 1
              /\ \A k \in DOMAIN abs : abs[k] \in 0 .. args[2] - 1
    /\ Given("bytes", 1) =>
          LET n     == args[1]
              bytes == B!ToByteArray(N(1))
              Fits(k) == n \in -(2 ^ (K * k - 1)) .. 2 ^ (K * k - 1) - 1
          IN  /\ Is(B!FromBytes(bytes), n)
              /\ Fits(Len(bytes)) /\ (Len(bytes) = 1 \/ ~Fits(Len(bytes) - 1))

Prime(n) == n > 1 /\ \A d \in 2 .. n - 1 : d * d <= n => ~Divides(d, n)

\* No prime is refused, whatever bases the test picks, and no number is accepted
\* that has a factor in the table.
PrimesKept ==
    Given("primes", 2) =>
        LET n        == args[1]
            accepted == B!IsProbablePrime(N(1), args[2])
        IN  /\ Prime(n) => accepted
            /\ accepted => Prime(n) \/ \A p \in ToSet(LowPrimes) : ~Divides(p, n)

\* A random prime of so many bits has so many bits and is odd, also when the
\* search runs past the largest number of that length.
KeysFit ==
    Given("keys", 2) /\ args[1] >= 2 =>
        LET bytes == SubSeq(args[2], 1, args[1] \div K + 1)
            p     == B!NewPrime(args[1], bytes, ToSet(LowPrimes))
        IN  B!BitLength(p) = args[1] /\ ~B!IsEven(p) /\ Prime(B!Val(p))

\* A generated key undoes what it did, for every number below its modulus, in
\* either order: with the parts of p and q, without them, and after it was
\* written and read as texts.  The code does not see to it that p and q differ;
\* with p = q there is no coefficient.
KeysWork ==
    Given("rsa", 4) /\ args[2] # args[3] /\ (\A i \in {2, 3} : R!Suits(N(i), N(1), ToSet(LowPrimes))) =>
        \A key \in {R!Generate(N(2), N(3), args[1])} :
            LET t(x)  == B!ToText(x, 16)
                plain == [key EXCEPT !.p = R!Missing, !.q = R!Missing]
                read  == R!SetPrivateEx(t(key.n), t(B!Of(key.e)), t(key.d), t(key.p), t(key.q),
                                        t(key.dmp1), t(key.dmq1), t(key.coeff))
            IN  /\ read = key
                /\ R!SetPrivate(plain, t(key.n), t(B!Of(key.e)), t(key.d)) = plain
                /\ \A k \in {key, plain} : \A x \in {N(4)} :
                      /\ \A y \in {R!DoPublic(k, x)} : Is(R!DoPrivate(k, y), args[4])
                      /\ \A y \in {R!DoPrivate(k, x)} : Is(R!DoPublic(k, y), args[4])

\* All of them: the arithmetic that the library checks signatures with is that of
\* the integers.
NumbersRight ==
    [][ /\ SumsRight /\ ProductsRight /\ BitsRight /\ LogicRight
        /\ RowsAgree /\ DivisionRight /\ ReducersAgree /\ PowersRight
        /\ DivisorsRight /\ PrimesKept /\ TextsRight
        /\ KeysFit /\ KeysWork ]_vars
=============================================================================
