\* Numbers: digits of four bits.  Ciphers: words of five bits.  Hashers: words of two bytes of two bits.
SPECIFICATION MCSpec
CONSTANTS
    Topics = {"sums", "bits", "bytes", "division", "rows", "powers", "reducers", "divisors", "texts", "primes", "keys", "rsa"}
    DB = 4
    FP = 7
    H = 2
    K = 3
    SmallExponent = 4
    ClassicBits = 2
    Windows <- MCWindows
    LastWindow = 4
    LowPrimes <- MCLowPrimes
    LpLim = 9
    IntBits = 6
    Digits = {0, 1, 7, 8, 15}
    Ends = {0, 1, 8, 15}
    Exponents = {1, 2, 3, 5, 8, 14, 21, 27}
    Radices = {2, 3, 4, 8, 10, 16}
    MaxPrime = 200
    MaxBits = 5
    CipherTopics = {"sha1", "sha256", "sha512", "base64", "certificate"}
    W = 5
    Quarter = 5
    Rounds = 20
    Turns1 <- MCTurns1
    Turns <- MCTurns
    TurnsLong <- MCTurnsLong
    Seeds = {0, 7, 21, 1023}
    HexDigits = {0, 1, 7, 14}
    MaxHex = 5
    LineLength = 3
    Sizes = {1, 127, 128, 255, 256}
    Hashers = {h1, h2}
    Chunks <- MCChunks
    Algorithms = {"sha256", "sha512"}
    Shape <- MCShape
    WordBytes = 2
    ByteBits = 2
    BigWords = 2
    MaxCalls = 5
PROPERTIES
    NumbersRight
    CiphersRight
    HashersRight
CHECK_DEADLOCK FALSE
