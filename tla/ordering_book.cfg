\* Two requests of a customer and a status change implement the abstract book
\* of orders, and end.
SPECIFICATION FairSpec
CONSTANTS
    NewOrders = {n1, n2}
    StatusChanges = {c1}
    Users = {ann}
    SentTypes = {0, 9}
    CardNumbers = {visa}
    StoredNumbers = {visa}
    SentFlaws = {"none", "items"}
    CardTypes = {1}
    MaxRetries = 1
    None = None
INVARIANTS
    IInv
PROPERTIES
    BookSpec
    EveryRequestEnds
CHECK_DEADLOCK FALSE
