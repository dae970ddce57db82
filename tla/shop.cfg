SPECIFICATION MCSpec
CONSTANTS
    Requests = {r1, r2, r3}
    Adds = {a1, a2}
    Customers = {ann}
    Seeded = {mug}
    Prices = {1, 2}
    Stocks = {0, 1}
    Brands = {1, 2}
    Known = {1}
    MaxSaves = 1
    None = None
    Posts = {p1, p2}
    Deletes = {d1, d2}
    Hooks = {h1, h2, h3}
    Tokens = {t, u}
    Blank = Blank
    OneToken = t
    Width = 3
    Products = {cup, pin}
    Discounts = {0, 1}
    Quantities = {1, 3}
    MaxLines = 4
SYMMETRY Sym
INVARIANTS
    EditsExplained
    HooksExplained
    StockExplained
    LinesMerged
PROPERTIES
    DeletedStaysGone
CHECK_DEADLOCK FALSE
