-------------------------------- MODULE Sha ---------------------------------
(***************************************************************************)
(* What the hashes of oidc-token-manager.js (CryptoJS) do with a block:    *)
(* SHA1, SHA256 and SHA512, the last on words that are pairs of halves     *)
(* since a number has no 64 bits to shift.                                 *)
(*                                                                         *)
(* JavaScript's numbers are exact here: sums are cut to W bits (32) where  *)
(* the code writes |0 and where a shift or a logical operator does it, and *)
(* nowhere else; what they give counts as unsigned.  Constants of rounds   *)
(* are arguments.                                                          *)
(***************************************************************************)
EXTENDS Integers, Sequences, SequencesExt, Bitwise

CONSTANTS
    W,          \* bits of a word (32)
    Quarter,    \* rounds of SHA1 with one function: 20
    Rounds,     \* of SHA256 and SHA512: 64 and 80
    Turns1,     \* SHA1's rotations: 1 in the schedule, 5 and 30 in the rounds
    Turns,      \* SHA256's and SHA512's: [gamma0, gamma1, sigma0, sigma1], three amounts
    TurnsLong   \* each, those of the gammas ending with a shift

Cut(x)   == x % 2 ^ W           \* x >>> 0
Signed(x)   == IF Cut(x) < 2 ^ (W - 1) THEN Cut(x) ELSE Cut(x) - 2 ^ W     \* x | 0
Inv(x)   == 2 ^ W - 1 - Cut(x)
AndW(x, y) == Cut(x) & Cut(y)
OrW(x, y)  == Cut(x) | Cut(y)
XorW(x, y) == Cut(x) ^^ Cut(y)
Xor3(x, y, z) == XorW(XorW(x, y), z)
Up(x, n)   == Cut(Cut(x) * 2 ^ n)
Down(x, n) == Cut(x) \div 2 ^ n
Rotl(x, n) == OrW(Up(x, n), Down(x, W - n))
Rotr(x, n) == Rotl(x, W - n)

Ch(x, y, z)  == XorW(AndW(x, y), AndW(Inv(x), z))
Maj(x, y, z) == Xor3(AndW(x, y), AndW(x, z), AndW(y, z))

Below(n) == [i \in 1 .. n |-> i - 1]
\* n steps from start on; each value is computed before the next step.
Iterate(step(_, _), start, n) ==
    FoldLeft(LAMBDA s, i : CHOOSE r \in {step(t, i) : t \in {s}} : TRUE, start, Below(n))

SignedAll(words) == [i \in DOMAIN words |-> Signed(words[i])]

\* W[i] of the code, for i in 0 .. n - 1, from the words of the block.
Schedule(block, next(_, _), n) ==
    Iterate(LAMBDA w, i : IF i < 16 THEN Append(w, block[i + 1]) ELSE Append(w, next(w, i)), <<>>, n)

-----------------------------------------------------------------------------
(* SHA1.                                                                   *)

Next1(w, i) == Rotl(XorW(Xor3(w[i - 2], w[i - 7], w[i - 13]), w[i - 15]), Turns1[1])

\* Mutant: the second function is used one round longer.
Function1Late(i, b, c, d) ==
    IF i < Quarter THEN OrW(AndW(b, c), AndW(Inv(b), d))
    ELSE IF i <= 2 * Quarter THEN Xor3(b, c, d)
    ELSE IF i < 3 * Quarter THEN OrW(OrW(AndW(b, c), AndW(b, d)), AndW(c, d))
    ELSE Xor3(b, c, d)

Function1(i, b, c, d) ==
    IF i < Quarter THEN OrW(AndW(b, c), AndW(Inv(b), d))
    ELSE IF i < 2 * Quarter THEN Xor3(b, c, d)
    ELSE IF i < 3 * Quarter THEN OrW(OrW(AndW(b, c), AndW(b, d)), AndW(c, d))
    ELSE Xor3(b, c, d)

\* constants: one for each function, added (two of them are negative).
Block1(hash, block, constants) ==
    LET n == 4 * Quarter
        w == Schedule(SignedAll(block), Next1, n)
        round(s, i) ==
            <<Rotl(s[1], Turns1[2]) + s[5] + w[i + 1]
                + (Function1(i, s[2], s[3], s[4]) + constants[i \div Quarter + 1]),
              s[1], Rotl(s[2], Turns1[3]), s[3], s[4]>>
        end == Iterate(round, hash, n)
    IN  [i \in 1 .. 5 |-> Signed(hash[i] + end[i])]

-----------------------------------------------------------------------------
(* SHA256.                                                                 *)

Gamma(x, turns) == Xor3(Rotr(x, turns[1]), Rotr(x, turns[2]), Down(x, turns[3]))
Sigma(x, turns) == Xor3(Rotr(x, turns[1]), Rotr(x, turns[2]), Rotr(x, turns[3]))

Next256(w, i) == Gamma(w[i - 14], Turns.gamma0) + w[i - 6] + Gamma(w[i - 1], Turns.gamma1) + w[i - 15]

\* Mutant: the old value of d is added after it was replaced.
Round256Shifted(s, k, w) ==
    LET t1 == s[8] + Sigma(s[5], Turns.sigma1) + Ch(s[5], s[6], s[7]) + k + w
        t2 == Sigma(s[1], Turns.sigma0) + Maj(s[1], s[2], s[3])
    IN  <<Signed(t1 + t2), s[1], s[2], s[3], Signed(s[3] + t1), s[5], s[6], s[7]>>

Round256(s, k, w) ==
    LET t1 == s[8] + Sigma(s[5], Turns.sigma1) + Ch(s[5], s[6], s[7]) + k + w
        t2 == Sigma(s[1], Turns.sigma0) + Maj(s[1], s[2], s[3])
    IN  <<Signed(t1 + t2), s[1], s[2], s[3], Signed(s[4] + t1), s[5], s[6], s[7]>>

Block256(hash, block, constants) ==
    LET w   == Schedule(SignedAll(block), Next256, Rounds)
        end == Iterate(LAMBDA s, i : Round256(s, constants[i + 1], w[i + 1]), hash, Rounds)
    IN  [i \in 1 .. 8 |-> Signed(hash[i] + end[i])]

-----------------------------------------------------------------------------
(* SHA512: a word is [h, l].                                               *)

\* Mutant: the carry is found without unsigned comparison.
PlusSigned(x, y) == LET l == x.l + y.l
                    IN  [h |-> x.h + y.h + (IF Signed(l) < Signed(y.l) THEN 1 ELSE 0), l |-> l]

\* A sum of halves, with the carry that the comparison of the lower half with one
\* of the summands finds.
Plus(x, y) == LET l == x.l + y.l
              IN  [h |-> x.h + y.h + (IF Cut(l) < Cut(y.l) THEN 1 ELSE 0), l |-> l]

\* The same with both halves cut.
PlusCut(x, y) == LET l == Signed(x.l + y.l)
                 IN  [h |-> Signed(x.h + y.h + (IF Cut(l) < Cut(y.l) THEN 1 ELSE 0)), l |-> l]

\* Rotations by fewer bits than a half has, and by more; shifts by fewer.
Turn(x, n) ==
    LET near == n < W
        m    == IF near THEN n ELSE n - W
        a    == IF near THEN x ELSE [h |-> x.l, l |-> x.h]
    IN  [h |-> OrW(Down(a.h, m), Up(a.l, W - m)), l |-> OrW(Down(a.l, m), Up(a.h, W - m))]
Shift(x, n) == [h |-> Down(x.h, n), l |-> OrW(Down(x.l, n), Up(x.h, W - n))]

Each(x, y, op(_, _)) == [h |-> op(x.h, y.h), l |-> op(x.l, y.l)]
XorPairs(x, y, z) == Each(Each(x, y, XorW), z, XorW)
GammaPair(x, t)   == XorPairs(Turn(x, t[1]), Turn(x, t[2]), Shift(x, t[3]))
SigmaPair(x, t)   == XorPairs(Turn(x, t[1]), Turn(x, t[2]), Turn(x, t[3]))

Next512(w, i) ==
    Plus(Plus(Plus(w[i - 6], GammaPair(w[i - 14], TurnsLong.gamma0)),
              GammaPair(w[i - 1], TurnsLong.gamma1)), w[i - 15])

Round512(s, k, w) ==
    LET ch  == [h |-> Ch(s[5].h, s[6].h, s[7].h), l |-> Ch(s[5].l, s[6].l, s[7].l)]
        maj == [h |-> Maj(s[1].h, s[2].h, s[3].h), l |-> Maj(s[1].l, s[2].l, s[3].l)]
        t1  == Plus(Plus(Plus(Plus(SigmaPair(s[5], TurnsLong.sigma1), s[8]), ch), k), w)
        t2  == Plus(maj, SigmaPair(s[1], TurnsLong.sigma0))
    IN  <<PlusCut(t2, t1), s[1], s[2], s[3], PlusCut(t1, s[4]), s[5], s[6], s[7]>>

\* The block has twice as many words as the schedule takes; the new hash is not cut.
Block512(hash, block, constants) ==
    LET pairs == [i \in 1 .. 16 |-> [h |-> Signed(block[2 * i - 1]), l |-> Signed(block[2 * i])]]
        w     == Schedule(pairs, Next512, Rounds)
        end   == Iterate(LAMBDA s, i : Round512(s, constants[i + 1], w[i + 1]), hash, Rounds)
    IN  [i \in 1 .. 8 |-> Plus(hash[i], end[i])]
=============================================================================
