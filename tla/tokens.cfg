SPECIFICATION MCSpec
CONSTANTS
    w1 = w1
    r3 = r3
    c1 = c1
    Calls = {c1, c2, c3}
    Page = Page
    Age = 1
    MaxKey = 2
    Windows = {w1, w2}
    Requests = {r1, r2, r3}
    Lives = {0, 2}
    Lead = 1
    Patience = 1
    MaxNow = 3
    None = None
INVARIANTS
    TokensShared
    RequestsApart
    ClientExplained
PROPERTIES
    FreshTokenKept
    PopupSettles
CHECK_DEADLOCK FALSE
