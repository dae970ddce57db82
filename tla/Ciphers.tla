------------------------------ MODULE Ciphers -------------------------------
(***************************************************************************)
(* Sha, Base64 and Certificate against their standards.  As in Numbers, a behaviour     *)
(* picks a topic and one argument after the other; the arguments of a hash *)
(* are three numbers that its words and constants are made of.             *)
(***************************************************************************)
EXTENDS Integers, Sequences, FiniteSets, SequencesExt

CONSTANTS CipherTopics, W, Quarter, Rounds, Turns1, Turns, TurnsLong,
          Seeds, HexDigits, MaxHex, LineLength,
          Sizes     \* of fields of a certificate, in bytes

VARIABLES topic, args
vars == <<topic, args>>

S == INSTANCE Sha
T == INSTANCE Base64
Cert == INSTANCE Certificate

Inputs ==
    IF topic = "base64"
    THEN <<UNION {[1 .. n -> HexDigits] : n \in 0 .. MaxHex}, 1 .. MaxHex + 3>>
    ELSE IF topic = "certificate" THEN <<BOOLEAN, Sizes, Sizes, Sizes>>
    ELSE <<Seeds, Seeds, Seeds>>

Init == topic \in CipherTopics /\ args = <<>>

Next ==
    /\ \/ /\ Len(args) < Len(Inputs)
          /\ \E a \in Inputs[Len(args) + 1] : args' = Append(args, a)
       \/ Len(args) = Len(Inputs) /\ args' = <<>>
    /\ UNCHANGED topic

Spec == Init /\ [][Next]_vars

-----------------------------------------------------------------------------
(* The standards: a word of n bits is the set of the places of its ones.   *)

Word(x, n)    == {b \in 0 .. n - 1 : (x \div 2 ^ b) % 2 = 1}
Number(A, n)  == FoldLeft(LAMBDA v, b : IF b - 1 \in A THEN v + 2 ^ (b - 1) ELSE v, 0, [b \in 1 .. n |-> b])
Sym(A, B)     == (A \ B) \cup (B \ A)
RotR(A, k, n) == {(b - k) % n : b \in A}
ShR(A, k)     == {b - k : b \in {c \in A : c >= k}}
AddN(A, B, n) == Word((Number(A, n) + Number(B, n)) % 2 ^ n, n)
Choose1(A, B, C) == (A \cap B) \cup (C \ A)
Most(A, B, C) == (A \cap B) \cup (A \cap C) \cup (B \cap C)
Sum(seq, n)   == FoldLeft(LAMBDA A, B : AddN(A, B, n), {}, seq)
Grown(block, next(_), n) ==
    S!Iterate(LAMBDA w, i : Append(w, IF i < 16 THEN block[i + 1] ELSE next(w)), <<>>, n)
Back(w, k)    == w[Len(w) + 1 - k]

\* SHA-2 of words of n bits, turned by the amounts t.
Sha2(hash, block, constants, t, n) ==
    LET gamma(A, r) == Sym(Sym(RotR(A, r[1], n), RotR(A, r[2], n)), ShR(A, r[3]))
        sigma(A, r) == Sym(Sym(RotR(A, r[1], n), RotR(A, r[2], n)), RotR(A, r[3], n))
        next(w) == Sum(<<gamma(Back(w, 2), t.gamma1), Back(w, 7), gamma(Back(w, 15), t.gamma0),
                         Back(w, 16)>>, n)
        w == Grown(block, next, Rounds)
        round(s, i) ==
            LET t1 == Sum(<<s[8], sigma(s[5], t.sigma1), Choose1(s[5], s[6], s[7]), constants[i + 1], w[i + 1]>>, n)
                t2 == Sum(<<sigma(s[1], t.sigma0), Most(s[1], s[2], s[3])>>, n)
            IN  <<AddN(t1, t2, n), s[1], s[2], s[3], AddN(s[4], t1, n), s[5], s[6], s[7]>>
        end == S!Iterate(round, hash, Rounds)
    IN  [i \in 1 .. 8 |-> AddN(hash[i], end[i], n)]

Sha1(hash, block, constants, n) ==
    LET left(A, k) == RotR(A, -k, n)
        next(w) == left(Sym(Sym(Back(w, 3), Back(w, 8)), Sym(Back(w, 14), Back(w, 16))), Turns1[1])
        w == Grown(block, next, 4 * Quarter)
        f(q, b, c, d) == CASE q = 1 -> Choose1(b, c, d)
                           [] q = 3 -> Most(b, c, d)
                           [] OTHER -> Sym(Sym(b, c), d)
        round(s, i) ==
            LET q == i \div Quarter + 1
            IN  <<Sum(<<left(s[1], Turns1[2]), f(q, s[2], s[3], s[4]), s[5], constants[q], w[i + 1]>>, n),
                  s[1], left(s[2], Turns1[3]), s[3], s[4]>>
        end == S!Iterate(round, hash, 4 * Quarter)
    IN  [i \in 1 .. 5 |-> AddN(hash[i], end[i], n)]

-----------------------------------------------------------------------------
(* Properties.                                                             *)

Given(t, n) == topic = t /\ Len(args) = n

\* Words, hash and constants made of the arguments, of numbers below 2 ^ n.
Made(a, b, c, n, count) == [i \in 1 .. count |-> (a * i * i + b * (i % 3) + c) % 2 ^ n]
BlockWords(n, count) == Made(args[1], args[2], args[3], n, count)
HashWords(n, count)  == Made(args[2], args[3], args[1], n, count)
Constants(n, count)  == Made(args[3], args[1], args[2], n, count)
Words(numbers, n)    == [i \in DOMAIN numbers |-> Word(numbers[i] % 2 ^ n, n)]
Halves(numbers)      == [i \in DOMAIN numbers |-> [h |-> numbers[i] \div 2 ^ W, l |-> numbers[i] % 2 ^ W]]
Joined(pairs)        == [i \in DOMAIN pairs |-> pairs[i].h * 2 ^ W + (pairs[i].l % 2 ^ W)]

\* A block changes SHA-1's hash as the standard says, although the code cuts its
\* sums to words only where it must; constants may be negative.
Sha1Right ==
    Given("sha1", 3) =>
        LET constants == [q \in 1 .. 4 |-> IF q > 2 THEN -args[q - 1] ELSE args[q]]
        IN  Words(S!Block1(HashWords(W, 5), BlockWords(W, 16), constants), W) =
            Sha1(Words(HashWords(W, 5), W), Words(BlockWords(W, 16), W), Words(constants, W), W)

\* The same of SHA-256.
Sha256Right ==
    Given("sha256", 3) =>
        Words(S!Block256(HashWords(W, 8), BlockWords(W, 16), Constants(W, Rounds)), W) =
        Sha2(Words(HashWords(W, 8), W), Words(BlockWords(W, 16), W),
             Words(Constants(W, Rounds), W), Turns, W)

\* SHA-512 on pairs of halves is SHA-2 on words of twice the length: every carry
\* from a lower half is found, once, also over two blocks whose hash in between
\* is not cut.
Sha512Right ==
    Given("sha512", 3) =>
        LET n         == 2 * W
            hash      == HashWords(n, 8)
            block     == BlockWords(n, 16)
            constants == Constants(n, Rounds)
            words     == [i \in 1 .. 32 |-> IF i % 2 = 1 THEN block[(i + 1) \div 2] \div 2 ^ W
                                            ELSE block[i \div 2] % 2 ^ W]
            once      == S!Block512(Halves(hash), words, Halves(constants))
            twice     == S!Block512(once, words, Halves(constants))
            std(h)    == Sha2(h, Words(block, n), Words(constants, n), TurnsLong, n)
        IN  /\ Words(Joined(once), n) = std(Words(hash, n))
            /\ Words(Joined(twice), n) = std(std(Words(hash, n)))

\* Hexadecimal digits survive the way through Base64, its URL form and its form in
\* lines, with a foreign character anywhere: an odd last digit is cut off or gets
\* a zero.
Base64Right ==
    Given("base64", 2) =>
        LET h     == args[1]
            text  == T!Hex2B64(h)
            kept  == IF Len(h) % 2 = 0 THEN h
                     ELSE IF Len(h) % 3 = 0 THEN SubSeq(h, 1, Len(h) - 1) ELSE Append(h, 0)
            at    == IF args[2] > Len(text) + 1 THEN Len(text) + 1 ELSE args[2]
        IN  /\ Len(text) % 4 = 0
            /\ T!B64ToHex(text) = kept
            /\ T!B64ToHex(T!FromUrl(T!ToUrl(text))) = kept
            /\ Len(h) % 2 = 0 => T!FromUrl(T!ToUrl(text)) = text
            /\ T!B64ToHex(InsertAt(text, at, T!Foreign)) = kept
            /\ T!B64ToHex(T!Lines(text, LineLength)) = kept
            /\ \A i \in DOMAIN T!B64ToBA(text) :
                  T!B64ToBA(text)[i] = kept[2 * i - 1] * 16 + kept[2 * i]

\* DER: a tag, the length in one byte or behind a byte that counts its bytes, the
\* value.
Big(n) == IF n < 256 THEN <<n>> ELSE <<n \div 256, n % 256>>
Tlv(tag, value) ==
    <<tag>> \o (IF Len(value) < 128 THEN <<Len(value)>> ELSE <<128 + Len(Big(Len(value)))>> \o Big(Len(value)))
            \o value
Seq1(objects) == Tlv(48, FoldLeft(LAMBDA all, o : all \o o, <<>>, objects))
Filler(n)     == [i \in 1 .. n |-> i % 256]

\* Whatever the sizes of the fields in front, and whether the certificate has the
\* version field or not, the key that is found in it is its key; the walk over the
\* children ends where each object says it does.
KeyFound ==
    Given("certificate", 4) =>
        LET modulus  == Filler(args[2] + 1)
            exponent == <<1, 0, 1>>
            key      == Tlv(3, <<0>> \o Seq1(<<Tlv(2, modulus), Tlv(2, exponent)>>))
            fields   == <<Tlv(2, Filler(args[3])), Seq1(<<Tlv(6, Filler(9))>>), Seq1(<<Tlv(49, Filler(args[4]))>>),
                          Seq1(<<Tlv(23, Filler(13)), Tlv(23, Filler(13))>>), Seq1(<<Tlv(49, Filler(args[3]))>>),
                          Seq1(<<Seq1(<<Tlv(6, Filler(9)), Tlv(5, <<>>)>>), key>>)>>
            front    == IF args[1] THEN <<Cert!Version3>> ELSE <<>>
            shift    == Len(front)
            cert     == Seq1(<<Seq1(front \o fields), Seq1(<<Tlv(6, Filler(9))>>), Tlv(3, Filler(args[2]))>>)
            tbs      == Cert!StartPosOfV(cert, 0)
        IN  /\ Cert!PublicKeyHexArray(cert) = <<modulus, exponent>>
            /\ Len(Cert!PosArrayOfChildren(cert, 0)) = 3
            /\ Len(Cert!PosArrayOfChildren(cert, tbs)) = Len(fields) + shift
            /\ \A k \in 1 .. Len(fields) :
                  Cert!DecendantHexTLV(cert, 0, <<0, k - 1 + shift>>) = fields[k]
            /\ Cert!DecendantHexV(cert, 0, <<0, 3 + shift, 1>>) = Filler(13)

\* The hashes of blocks, Base64 and certificates, in one.
CiphersRight ==
    [][Sha1Right /\ Sha256Right /\ Sha512Right /\ Base64Right /\ KeyFound]_vars
=============================================================================
