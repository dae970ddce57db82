\* Three requests of one buyer with all inputs.
SPECIFICATION Spec
CONSTANTS
    b1 = b1
    Buyers = {b1}
    r1 = r1
    r2 = r2
    r3 = r3
    Requests = {r1, r2, r3}
    p1 = p1
    p2 = p2
    pUnknown = pUnknown
    c1 = c1
    None = None
    Products = {p1, p2, pUnknown}
    Catalog = {p1, p2}
    ClientIds = {c1}
    Quantities = {0, 1}
    Bodies <- MCBodies
    Updates <- MCUpdates
    Posted <- MCPosted
    Ops = {"add", "updateAll", "setQuantities", "post", "checkout", "delete"}
SYMMETRY RequestSymmetry
INVARIANTS
    BasketsSound
    SomeOrderExplains
    UndisturbedIsSequential
