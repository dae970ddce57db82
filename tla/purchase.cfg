\* One customer, two units, two pages, three posts; every call may fail.
SPECIFICATION Spec
CONSTANTS
    Adds = {a1, a2}
    Pages = {f1, f2}
    Posts = {q1, q2, q3}
    Customers = {ann}
    Cards = {visa}
    None = None
SYMMETRY PurchaseSymmetry
INVARIANTS
    OrderedOnce
    BoughtLeavesBasket
CHECK_DEADLOCK FALSE
