------------------------------- MODULE Hasher -------------------------------
(***************************************************************************)
(* The hashers of oidc-token-manager.js (CryptoJS), with which the library *)
(* compares at_hash and verifies signatures: WordArray, the buffer of      *)
(* BufferedBlockAlgorithm, and the objects create, update, finalize, reset *)
(* and clone work on.  What a block does to the hash is left to module Sha:*)
(* a hash is here the sequence of the blocks it has taken in.              *)
(*                                                                         *)
(* A WordArray is the bytes of its words, highest first, and the count sig *)
(* of those that matter; bytes beyond them may be anything.  JavaScript    *)
(* objects that two others may hold are entries of a heap.                 *)
(***************************************************************************)
EXTENDS Integers, Sequences, SequencesExt, Bitwise

CONSTANTS
    Hashers,      \* variables of the calling code that hold a hasher
    Chunks,       \* word arrays given to update and finalize
    Algorithms,   \* their names, and of each [words: of a block, length: words that the
    Shape,        \* length field takes, copied: the digest is a copy of the hash]
    WordBytes, ByteBits,    \* 4 and 8
    BigWords,     \* arrays of more words (0xffff) are appended word by word
    MaxCalls      \* bound: calls in a behaviour

VARIABLES
    algo,
    hashers,      \* [data, bytes, hash], hash being a place in the heap
    heap,         \* what the hash objects hold
    given,        \* digests handed out: where, and what they were
    calls,
    fed,          \* ghost: the bytes appended since the last reset
    finals,       \* ghost: calls of finalize since the last reset
    tainted       \* ghost: the last bytes appended were followed by others in their word
vars == <<algo, hashers, heap, given, calls, fed, finals, tainted>>

Unused == [data |-> [b |-> <<>>, sig |-> 0], bytes |-> 0, hash |-> 0]

Ceil(n, k)  == (n + k - 1) \div k
BlockBytes  == Shape[algo].words * WordBytes
At(x, i)    == IF i <= Len(x.b) THEN x.b[i] ELSE 0

-----------------------------------------------------------------------------
(* WordArray.                                                              *)

Clamp(x) ==
    [x EXCEPT !.b = [i \in 1 .. Ceil(x.sig, WordBytes) * WordBytes |->
                        IF i <= x.sig THEN At(x, i) ELSE 0]]

\* Append, with x already clamped: byte by byte into a word already begun,
\* otherwise whole words, with what stands beyond y.sig in them.
Join(x, y) ==
    LET sig == x.sig + y.sig
    IN  [sig |-> sig,
         b |-> IF x.sig % WordBytes # 0
               THEN [i \in 1 .. Ceil(sig, WordBytes) * WordBytes |->
                        IF i \in x.sig + 1 .. sig THEN At(x, i) | At(y, i - x.sig)
                        ELSE At(x, i)]
               ELSE IF Len(y.b) > BigWords * WordBytes
               THEN x.b \o [i \in 1 .. Ceil(y.sig, WordBytes) * WordBytes |-> At(y, i)]
               ELSE x.b \o y.b]

\* Mutant: the bytes beyond the significant ones stay.
ConcatUnclamped(x, y) == Join(x, y)

Concat(x, y) == Join(Clamp(x), y)

\* The text of a word array: two digits of half a byte for each significant byte,
\* or one character for it.
Half == 2 ^ (ByteBits \div 2)
HexStringify(x) == [i \in 1 .. 2 * x.sig |->
                       IF i % 2 = 1 THEN At(x, (i + 1) \div 2) \div Half ELSE At(x, i \div 2) % Half]
Latin1Stringify(x) == [i \in 1 .. x.sig |-> At(x, i)]

\* And back: the array has whole words.
FromBytes(n, byte(_)) == [b |-> [i \in 1 .. Ceil(n, WordBytes) * WordBytes |->
                                    IF i <= n THEN byte(i) ELSE 0],
                          sig |-> n]
\* Mutant: the digits of a byte are taken in the other order.
HexParseSwapped(text) == FromBytes(Len(text) \div 2, LAMBDA i : text[2 * i] * Half + text[2 * i - 1])
HexParse(text) == FromBytes(Len(text) \div 2, LAMBDA i : text[2 * i - 1] * Half + text[2 * i])
Latin1Parse(text) == FromBytes(Len(text), LAMBDA i : text[i] % 2 ^ ByteBits)

-----------------------------------------------------------------------------
(* The buffer.  Hashes keep no block back (_minBufferSize is 0) and never  *)
(* flush: the padding fills the last block.                                *)

Append1(h, chunk) ==
    [h EXCEPT !.data = Concat(@, chunk), !.bytes = @ + chunk.sig]

BlocksReady(data) == data.sig \div BlockBytes

BlockAt(data, k) == [i \in 1 .. BlockBytes |-> At(data, (k - 1) * BlockBytes + i)]

\* Mutant: the words stay in the buffer when the block is not the last one.
RestKept(data) == [data EXCEPT !.sig = @ - BlocksReady(data) * BlockBytes]

Rest(data) ==
    LET n == BlocksReady(data) * BlockBytes
    IN  [b |-> SubSeq(data.b, n + 1, Len(data.b)), sig |-> data.sig - n]

\* _process: [h: the hasher, hash: its hash with the complete blocks taken in].
Process(h, hash) ==
    [h |-> [h EXCEPT !.data = Rest(@)],
     hash |-> hash \o [k \in 1 .. BlocksReady(h.data) |-> BlockAt(h.data, k)]]

-----------------------------------------------------------------------------
(* Padding, as _doFinalize writes it into the words of the buffer.         *)

Bytes(word) == [i \in 1 .. WordBytes |->
                   (word \div 2 ^ (ByteBits * (WordBytes - i))) % 2 ^ ByteBits]

\* The first word of the two the length goes to.
\* Mutant: a block with room for the mark but not for the length counts as enough.
LengthWordEarly(sig) ==
    (sig \div BlockBytes) * Shape[algo].words + Shape[algo].words - 2

LengthWord(sig) ==
    ((sig + Shape[algo].length * WordBytes) \div BlockBytes) * Shape[algo].words
        + Shape[algo].words - 2

Padded(h) ==
    LET data   == h.data
        bits   == h.bytes * ByteBits
        base   == 2 ^ (ByteBits * WordBytes)
        first  == LengthWord(data.sig) * WordBytes
        length == Bytes(bits \div base) \o Bytes(bits)
        size   == IF Len(data.b) > first + 2 * WordBytes THEN Len(data.b)
                  ELSE first + 2 * WordBytes
    IN  [h EXCEPT !.data =
            [sig |-> size,
             b |-> [i \in 1 .. size |->
                       IF i \in first + 1 .. first + 2 * WordBytes THEN length[i - first]
                       ELSE IF i = data.sig + 1 THEN At(data, i) | 2 ^ (ByteBits - 1)
                       ELSE At(data, i)]]]

-----------------------------------------------------------------------------
(* Calls.                                                                  *)

Step == calls < MaxCalls /\ calls' = calls + 1 /\ UNCHANGED algo

\* create, and reset: new data and a new hash object.
Reset(s) ==
    /\ Step
    /\ hashers' = [hashers EXCEPT ![s] = [Unused EXCEPT !.hash = Len(heap) + 1]]
    /\ heap' = Append(heap, <<>>)
    /\ fed' = [fed EXCEPT ![s] = <<>>]
    /\ finals' = [finals EXCEPT ![s] = 0]
    /\ tainted' = [tainted EXCEPT ![s] = FALSE]
    /\ UNCHANGED given

Significant(chunk) == SubSeq(chunk.b, 1, chunk.sig)

\* Bytes beyond sig that reach the buffer: a chunk's own, unless it was appended
\* byte by byte.
Taints(x, chunk) ==
    x.sig % WordBytes = 0 /\ \E i \in chunk.sig + 1 .. Len(chunk.b) : chunk.b[i] # 0

Fed(s, chunk) ==
    /\ fed' = [fed EXCEPT ![s] = @ \o Significant(chunk)]
    /\ tainted' = [tainted EXCEPT ![s] = Taints(hashers[s].data, chunk)]

Update(s, chunk) ==
    /\ Step
    /\ hashers[s].hash # 0
    /\ LET h   == hashers[s]
           out == Process(Append1(h, chunk), heap[h.hash])
       IN  /\ hashers' = [hashers EXCEPT ![s] = out.h]
           /\ heap' = [heap EXCEPT ![h.hash] = out.hash]
    /\ Fed(s, chunk)
    /\ UNCHANGED <<given, finals>>

\* The digest is the hash object itself, or for SHA-512 a copy of it.
Deliver(s, h, hash, clean, message) ==
    LET copied == Shape[algo].copied
        place  == IF copied THEN Len(heap) + 1 ELSE h.hash
    IN  /\ heap' = IF copied THEN Append([heap EXCEPT ![h.hash] = hash], hash)
                   ELSE [heap EXCEPT ![h.hash] = hash]
        /\ given' = given \cup {[by |-> s, place |-> place, value |-> hash,
                                 message |-> message, clean |-> clean]}

\* finalize, without a last chunk or with one.
Finalize(s) ==
    /\ Step
    /\ hashers[s].hash # 0
    /\ LET out == Process(Padded(hashers[s]), heap[hashers[s].hash])
       IN  /\ hashers' = [hashers EXCEPT ![s] = out.h]
           /\ Deliver(s, out.h, out.hash, finals[s] = 0 /\ ~tainted[s], fed[s])
    /\ finals' = [finals EXCEPT ![s] = @ + 1]
    /\ UNCHANGED <<fed, tainted>>

FinalizeWith(s, chunk) ==
    /\ Step
    /\ hashers[s].hash # 0
    /\ LET h   == Append1(hashers[s], chunk)
           out == Process(Padded(h), heap[h.hash])
       IN  /\ hashers' = [hashers EXCEPT ![s] = out.h]
           /\ Deliver(s, out.h, out.hash,
                      finals[s] = 0 /\ ~Taints(hashers[s].data, chunk),
                      fed[s] \o Significant(chunk))
    /\ finals' = [finals EXCEPT ![s] = @ + 1]
    /\ Fed(s, chunk)

\* Mutant: the copy keeps the hash object of the original.
CopyOfShared(h) == [h |-> h, heap |-> heap]

\* A copy has data and a hash object of its own.
CopyOf(h) == [h |-> [h EXCEPT !.hash = Len(heap) + 1], heap |-> Append(heap, heap[h.hash])]

Clone(s, t) ==
    /\ Step
    /\ s # t /\ hashers[s].hash # 0
    /\ LET copy == CopyOf(hashers[s])
       IN  hashers' = [hashers EXCEPT ![t] = copy.h] /\ heap' = copy.heap
    /\ fed' = [fed EXCEPT ![t] = fed[s]]
    /\ finals' = [finals EXCEPT ![t] = finals[s]]
    /\ tainted' = [tainted EXCEPT ![t] = tainted[s]]
    /\ UNCHANGED given

Init ==
    /\ algo \in Algorithms
    /\ hashers = [s \in Hashers |-> Unused]
    /\ heap = <<>> /\ given = {} /\ calls = 0
    /\ fed = [s \in Hashers |-> <<>>]
    /\ finals = [s \in Hashers |-> 0]
    /\ tainted = [s \in Hashers |-> FALSE]

Next ==
    \E s \in Hashers :
        \/ Reset(s)
        \/ Finalize(s)
        \/ \E chunk \in Chunks : Update(s, chunk) \/ FinalizeWith(s, chunk)
        \/ \E t \in Hashers : Clone(s, t)

Spec == Init /\ [][Next]_vars

-----------------------------------------------------------------------------
(* Properties.                                                             *)

Flat(blocks) == FoldLeft(LAMBDA all, b : all \o b, <<>>, blocks)

\* The padding of the standard: a one, zeros, and the length in the last words.
Standard(message) ==
    LET bits   == Len(message) * ByteBits
        base   == 2 ^ (ByteBits * WordBytes)
        length == [i \in 1 .. (Shape[algo].length - 2) * WordBytes |-> 0]
                  \o Bytes(bits \div base) \o Bytes(bits)
        used   == Len(message) + 1 + Len(length)
        zeros  == [i \in 1 .. Ceil(used, BlockBytes) * BlockBytes - used |-> 0]
    IN  message \o <<2 ^ (ByteBits - 1)>> \o zeros \o length

\* However a message is cut into chunks, also where they end inside a word, the
\* digest is the one of the whole message: unless the hasher had been finalized
\* before, or the last chunk had other bytes behind its significant ones.
DigestRight ==
    \A g \in given : g.clean => Flat(g.value) = Standard(g.message)

\* A hasher that was not finalized has taken in or still buffers exactly what it
\* was given, whatever its copies and other hashers did.
HashersApart ==
    \A s \in Hashers : finals[s] = 0 /\ hashers[s].hash # 0 =>
        /\ Flat(heap[hashers[s].hash]) \o SubSeq(hashers[s].data.b, 1, hashers[s].data.sig) = fed[s]
        /\ hashers[s].data.sig < BlockBytes
        /\ hashers[s].bytes = Len(fed[s])

\* A digest that was handed out changes only in a call of the hasher that gave it,
\* used on without a reset, and a copied one never.
DigestsKept ==
    [][\A g \in given : heap'[g.place] # heap[g.place] =>
           /\ ~Shape[algo].copied
           /\ hashers[g.by].hash = g.place
           /\ <<fed'[g.by], finals'[g.by]>> # <<fed[g.by], finals[g.by]>>]_vars

\* What a hasher buffers is the same again after a way through hexadecimal digits
\* or characters: the bytes of a word beyond the significant ones become zeros.
TextsKeepBytes ==
    \A s \in Hashers :
        LET data == hashers[s].data
        IN  /\ HexParse(HexStringify(data)) = Clamp(data)
            /\ Latin1Parse(Latin1Stringify(data)) = Clamp(data)

\* Digests of messages given in chunks to hashers that are copied and reset, and
\* the digests handed out, in one.
HashersRight == [](DigestRight /\ HashersApart /\ TextsKeepBytes) /\ DigestsKept
=============================================================================
