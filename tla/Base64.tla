------------------------------- MODULE Base64 -------------------------------
(***************************************************************************)
(* Base64 in oidc-token-manager.js: between hexadecimal digits and the     *)
(* characters of keys, signatures and parts of a token.  A character is    *)
(* its place in the alphabet, Pad, or Foreign: any other character, as the *)
(* line breaks of a certificate.                                           *)
(***************************************************************************)
EXTENDS Integers, Sequences, SequencesExt

Pad     == 64
Foreign == 65

\* Three digits make two characters; what is left over fills up its last one.
Hex2B64(h) ==
    LET n     == Len(h)
        group(i) == LET c == (h[i] * 16 + h[i + 1]) * 16 + h[i + 2] IN <<c \div 64, c % 64>>
        whole == FoldLeft(LAMBDA r, k : r \o group(3 * k - 2), <<>>, [k \in 1 .. n \div 3 |-> k])
        rest  == IF n % 3 = 1 THEN <<h[n] * 4>>
                 ELSE IF n % 3 = 2
                 THEN LET c == h[n - 1] * 16 + h[n] IN <<c \div 4, (c % 4) * 16>>
                 ELSE <<>>
        text  == whole \o rest
    IN  text \o [k \in 1 .. (-Len(text)) % 4 |-> Pad]

\* One character: k characters of its group came before it, and slop are the bits
\* of the last one that are not written yet.
\* Mutant: a foreign character counts as a place of its group.
TakeForeign(a, v) ==
    IF v = Foreign THEN [a EXCEPT !.k = (@ + 1) % 4]
    ELSE IF a.k = 0 THEN [a EXCEPT !.ret = Append(@, v \div 4), !.slop = v % 4, !.k = 1]
    ELSE IF a.k = 1
    THEN [a EXCEPT !.ret = Append(@, a.slop * 4 + v \div 16), !.slop = v % 16, !.k = 2]
    ELSE IF a.k = 2 THEN [a EXCEPT !.ret = @ \o <<a.slop, v \div 4>>, !.slop = v % 4, !.k = 3]
    ELSE [a EXCEPT !.ret = @ \o <<a.slop * 4 + v \div 16, v % 16>>, !.k = 0]

Take(a, v) ==
    IF v = Foreign THEN a
    ELSE IF a.k = 0 THEN [a EXCEPT !.ret = Append(@, v \div 4), !.slop = v % 4, !.k = 1]
    ELSE IF a.k = 1
    THEN [a EXCEPT !.ret = Append(@, a.slop * 4 + v \div 16), !.slop = v % 16, !.k = 2]
    ELSE IF a.k = 2 THEN [a EXCEPT !.ret = @ \o <<a.slop, v \div 4>>, !.slop = v % 4, !.k = 3]
    ELSE [a EXCEPT !.ret = @ \o <<a.slop * 4 + v \div 16, v % 16>>, !.k = 0]

\* The characters before the first Pad.
Body(s) == SubSeq(s, 1, (CHOOSE n \in 0 .. Len(s) :
                            /\ \A i \in 1 .. n : s[i] # Pad
                            /\ n = Len(s) \/ s[n + 1] = Pad))

B64ToHex(s) ==
    LET a == FoldLeft(Take, [ret |-> <<>>, k |-> 0, slop |-> 0], Body(s))
    IN  IF a.k = 1 THEN Append(a.ret, a.slop * 4) ELSE a.ret

\* The bytes of a text; a single last digit is a byte of its own.
B64ToBA(s) ==
    LET h == B64ToHex(s)
    IN  [i \in 1 .. (Len(h) + 1) \div 2 |->
            IF 2 * i <= Len(h) THEN h[2 * i - 1] * 16 + h[2 * i] ELSE h[2 * i - 1]]

\* The URL form has no padding (and two other letters); from it the padding is
\* made up again by the length.
ToUrl(s) == SelectSeq(s, LAMBDA c : c # Pad)
FromUrl(s) == CASE Len(s) % 4 = 2 -> s \o <<Pad, Pad>>
                [] Len(s) % 4 = 3 -> Append(s, Pad)
                [] OTHER -> s

\* hextob64nl: a line break after every n characters; b64nltohex takes out all that
\* is not Base64.
Lines(s, n) ==
    FoldLeft(LAMBDA r, i : r \o (IF i % n = 1 /\ i > 1 THEN <<Foreign, s[i]>> ELSE <<s[i]>>), <<>>,
             [i \in DOMAIN s |-> i])
=============================================================================
