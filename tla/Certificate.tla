---------------------------- MODULE Certificate -----------------------------
(***************************************************************************)
(* ASN1HEX and X509 of oidc-token-manager.js, as far as they find the RSA  *)
(* key in the certificate the provider publishes.  The code walks a string *)
(* of hexadecimal digits; here it is the sequence of bytes, and positions  *)
(* count bytes from 0.  A position or byte that is not there is None.      *)
(***************************************************************************)
EXTENDS Integers, Sequences, SequencesExt

None == -9
At(s, pos)       == IF pos + 1 \in DOMAIN s THEN s[pos + 1] ELSE None
Slice(s, pos, n) == SubSeq(s, pos + 1, IF pos + n > Len(s) THEN Len(s) ELSE pos + n)
Value(bytes)     == FoldLeft(LAMBDA v, b : v * 256 + b, 0, bytes)

-----------------------------------------------------------------------------
(* One object: tag, length, value.                                         *)

\* The bytes of the length: 128 + i says that i follow.
ByteLengthOfL(s, pos) ==
    LET b == At(s, pos + 1)
    IN  IF b = None \/ b \div 16 # 8 THEN 1
        ELSE IF b % 16 = 0 THEN -1
        ELSE IF b % 16 < 10 THEN (b % 16) + 1 ELSE -2

HexOfL(s, pos) ==
    IF ByteLengthOfL(s, pos) < 1 THEN <<>> ELSE Slice(s, pos + 1, ByteLengthOfL(s, pos))

\* Mutant: of a long form the first byte counts as well.
IntOfLWhole(s, pos) ==
    LET l == HexOfL(s, pos) IN IF l = <<>> THEN -1 ELSE Value(l)

IntOfL(s, pos) ==
    LET l == HexOfL(s, pos)
    IN  IF l = <<>> THEN -1 ELSE IF l[1] \div 16 < 8 THEN Value(l) ELSE Value(Tail(l))

StartPosOfV(s, pos) ==
    LET n == ByteLengthOfL(s, pos) IN IF n < 0 THEN n ELSE pos + n + 1

HexOfV(s, pos)           == Slice(s, StartPosOfV(s, pos), IntOfL(s, pos))
HexOfTLV(s, pos)         == Slice(s, pos, 1) \o HexOfL(s, pos) \o HexOfV(s, pos)
PosOfNextSibling(s, pos) == StartPosOfV(s, pos) + IntOfL(s, pos)

-----------------------------------------------------------------------------
(* Objects in objects.                                                     *)

MostChildren == 200

RECURSIVE SiblingsFrom(_, _, _, _, _)
SiblingsFrom(s, p0, len, p, k) ==
    LET next == PosOfNextSibling(s, p)
    IN  IF next - p0 >= len \/ k >= MostChildren THEN <<>>
        ELSE <<next>> \o SiblingsFrom(s, p0, len, next, k + 1)

\* The first child is taken to be there.
PosArrayOfChildren(s, pos) ==
    LET p0 == StartPosOfV(s, pos)
    IN  <<p0>> \o SiblingsFrom(s, p0, IntOfL(s, pos), p0, 0)

NthChildIndex(s, pos, n) ==
    LET a == PosArrayOfChildren(s, pos) IN IF n < Len(a) THEN a[n + 1] ELSE None

DecendantIndex(s, pos, list) == FoldLeft(LAMBDA p, n : NthChildIndex(s, p, n), pos, list)
DecendantHexTLV(s, pos, list) == HexOfTLV(s, DecendantIndex(s, pos, list))
DecendantHexV(s, pos, list)   == HexOfV(s, DecendantIndex(s, pos, list))

-----------------------------------------------------------------------------
(* The key in a certificate.                                               *)

Version3 == <<160, 3, 2, 1, 2>>

\* Child 6 of a version 3 certificate, whose first child is the version, and
\* otherwise child 5.
SubjectPublicKeyInfoPos(s) ==
    LET a    == PosArrayOfChildren(s, StartPosOfV(s, 0))
        nth(n) == IF n < Len(a) THEN a[n + 1] ELSE None
    IN  IF Slice(s, a[1], 5) = Version3
        THEN IF Len(a) < 6 THEN -1 ELSE nth(6)
        ELSE IF Len(a) < 5 THEN -1 ELSE nth(5)

\* Within the bit string, behind the count of its unused bits.
SubjectPublicKeyPos(s) ==
    LET info == SubjectPublicKeyInfoPos(s)
        a    == PosArrayOfChildren(s, info)
        v    == StartPosOfV(s, a[2])
    IN  IF info = -1 \/ Len(a) # 2 THEN -1
        ELSE IF At(s, a[2]) # 3 \/ At(s, v) # 0 THEN -1
        ELSE v + 1

\* Modulus and exponent; nothing if the key is no pair.
PublicKeyHexArray(s) ==
    LET a == PosArrayOfChildren(s, SubjectPublicKeyPos(s))
    IN  IF Len(a) # 2 THEN <<>> ELSE <<HexOfV(s, a[1]), HexOfV(s, a[2])>>
=============================================================================
