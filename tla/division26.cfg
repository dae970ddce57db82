\* Digits as far apart from the precision of a floating-point number as digits
\* of 26 bits are: F2 = 0.
SPECIFICATION Spec
CONSTANTS
    Topics = {"division"}
    DB = 4
    FP = 8
    H = 2
    K = 3
    SmallExponent = 4
    ClassicBits = 2
    Windows = {}
    LastWindow = 4
    LowPrimes = {}
    LpLim = 9
    IntBits = 6
    Digits = {0, 1, 4, 12, 14, 15}
    Ends = {0, 1}
    Exponents = {1}
    Radices = {2}
    MaxPrime = 1
    MaxBits = 1
PROPERTY
    DividesRight
CHECK_DEADLOCK FALSE
