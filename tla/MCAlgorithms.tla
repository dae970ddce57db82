---------------------------- MODULE MCAlgorithms ----------------------------
(* Numbers, Ciphers and Hasher for TLC: a behaviour keeps to the part it     *)
(* starts with.                                                              *)
EXTENDS Naturals, Sequences, FiniteSets

CONSTANTS
    Topics, DB, FP, H, K, SmallExponent, ClassicBits, Windows, LastWindow, LowPrimes, LpLim,
    IntBits, Digits, Ends, Exponents, Radices, MaxPrime, MaxBits,
    CipherTopics, W, Quarter, Rounds, Turns1, Turns, TurnsLong, Seeds, HexDigits, MaxHex,
    LineLength, Sizes,
    Hashers, Chunks, Algorithms, Shape, WordBytes, ByteBits, BigWords, MaxCalls

VARIABLES part, topic, args, algo, hashers, heap, given, calls, fed, finals, tainted

numberVars == <<topic, args>>
hasherVars == <<algo, hashers, heap, given, calls, fed, finals, tainted>>
mcvars     == <<numberVars, hasherVars, part>>

N == INSTANCE Numbers
C == INSTANCE Ciphers
D == INSTANCE Hasher

MCInit ==
    /\ D!Init
    /\ part \in {"numbers", "ciphers", "hashers"}
    /\ IF part = "ciphers" THEN C!Init ELSE N!Init
    /\ part # "hashers" => algo = CHOOSE a \in Algorithms : TRUE
    /\ part = "hashers" => topic = CHOOSE t \in Topics : TRUE

MCNext ==
    /\ UNCHANGED part
    /\ \/ part = "numbers" /\ N!Next /\ UNCHANGED hasherVars
       \/ part = "ciphers" /\ C!Next /\ UNCHANGED hasherVars
       \/ part = "hashers" /\ D!Next /\ UNCHANGED numberVars

MCSpec == MCInit /\ [][MCNext]_mcvars

NumbersRight == N!NumbersRight
CiphersRight == C!CiphersRight
HashersRight == D!HashersRight

MCWindows   == <<[below |-> 3, size |-> 1], [below |-> 6, size |-> 3]>>
MCLowPrimes == <<2, 3, 5, 7>>
MCTurns1    == <<1, 2, 3>>
MCTurns     == [gamma0 |-> <<1, 3, 2>>, gamma1 |-> <<2, 4, 1>>,
                sigma0 |-> <<1, 2, 4>>, sigma1 |-> <<1, 3, 4>>]
MCTurnsLong == [gamma0 |-> <<1, 3, 2>>, gamma1 |-> <<4, 7, 2>>,
                sigma0 |-> <<3, 6, 8>>, sigma1 |-> <<2, 4, 7>>]
MCShape     == [sha256 |-> [words |-> 3, length |-> 2, copied |-> FALSE],
                sha512 |-> [words |-> 5, length |-> 4, copied |-> TRUE]]
MCChunks    == {[b |-> <<1, 0>>, sig |-> 1], [b |-> <<1, 2, 3, 0>>, sig |-> 3],
                [b |-> <<3, 0, 1, 2, 3, 1, 2, 3>>, sig |-> 8], [b |-> <<2, 3, 3, 1>>, sig |-> 1],
                [b |-> <<1, 2, 3, 1, 1, 2>>, sig |-> 6]}
=============================================================================
