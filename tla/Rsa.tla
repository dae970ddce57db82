-------------------------------- MODULE Rsa ---------------------------------
(***************************************************************************)
(* RSAKey of oidc-token-manager.js (jsbn's rsa.js and rsa2.js): keys from  *)
(* primes or from hexadecimal texts, and the two operations.  Padding is   *)
(* left out: it needs SecureRandom and rstr_sha1, which the file lacks.    *)
(*                                                                         *)
(* A key is [n, e, d, p, q, dmp1, dmq1, coeff]; e is a plain number.  One  *)
(* with p and q of Missing has no parts of the Chinese remainder theorem.  *)
(***************************************************************************)
EXTENDS BigInteger

Missing == Zero

\* The private parts that a public key lacks stay as they were.
SetPublic(key, N, E) ==
    IF N = <<>> \/ E = <<>> THEN key
    ELSE [key EXCEPT !.n = FromText(N, 16), !.e = IntValue(FromText(E, 16))]

SetPrivate(key, N, E, D) ==
    IF N = <<>> \/ E = <<>> THEN key
    ELSE [SetPublic(key, N, E) EXCEPT !.d = FromText(D, 16)]

SetPrivateEx(N, E, D, P, Q, DP, DQ, C) ==
    [n |-> FromText(N, 16), e |-> IntValue(FromText(E, 16)), d |-> FromText(D, 16),
     p |-> FromText(P, 16), q |-> FromText(Q, 16),
     dmp1 |-> FromText(DP, 16), dmq1 |-> FromText(DQ, 16), coeff |-> FromText(C, 16)]

Minus1(x) == Subtract(x, One)

\* A candidate is drawn again unless it fits the exponent.
Suits(x, ee, bases) ==
    CompareTo(Gcd(Minus1(x), ee), One) = 0 /\ IsProbablePrime(x, bases)

\* The key of two candidates that suit, the larger one first.
\* Mutant: the exponent for p is reduced modulo p, not p - 1.
GenerateModP(p0, q0, e) ==
    LET p   == IF CompareTo(p0, q0) <= 0 THEN q0 ELSE p0
        q   == IF CompareTo(p0, q0) <= 0 THEN p0 ELSE q0
        d   == ModInverse(Of(e), Multiply(Minus1(p), Minus1(q)))
    IN  [n |-> Multiply(p, q), e |-> e, d |-> d, p |-> p, q |-> q,
         dmp1 |-> Mod(d, p), dmq1 |-> Mod(d, Minus1(q)),
         coeff |-> ModInverse(q, p)]

Generate(p0, q0, e) ==
    LET p   == IF CompareTo(p0, q0) <= 0 THEN q0 ELSE p0
        q   == IF CompareTo(p0, q0) <= 0 THEN p0 ELSE q0
        d   == ModInverse(Of(e), Multiply(Minus1(p), Minus1(q)))
    IN  [n |-> Multiply(p, q), e |-> e, d |-> d, p |-> p, q |-> q,
         dmp1 |-> Mod(d, Minus1(p)), dmq1 |-> Mod(d, Minus1(q)),
         coeff |-> ModInverse(q, p)]

DoPublic(key, x) == ModPowInt(x, key.e, key.n)

RECURSIVE RaiseTo(_, _, _)
RaiseTo(xp, xq, p) == IF CompareTo(xp, xq) < 0 THEN RaiseTo(Add(xp, p), xq, p) ELSE xp

\* Modulo p and q, put together again; or the long way.
DoPrivate(key, x) ==
    IF key.p = Missing \/ key.q = Missing THEN ModPow(x, key.d, key.n)
    ELSE LET xq == ModPow(Mod(x, key.q), key.dmq1, key.q)
             xp == RaiseTo(ModPow(Mod(x, key.p), key.dmp1, key.p), xq, key.p)
         IN  Add(Multiply(Mod(Multiply(Subtract(xp, xq), key.coeff), key.p), key.q), xq)
=============================================================================
