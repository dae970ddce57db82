\* One page, one post.
SPECIFICATION Spec
CONSTANTS
    Adds = {a1}
    Pages = {f1}
    Posts = {q1}
    Customers = {ann}
    Cards = {visa}
    None = None
INVARIANTS
    ErrorMeansNoOrder
CHECK_DEADLOCK FALSE
