\* Three scenarios of requests that race: orders over buyers and cards, orders
\* over one card stored twice, status changes over one order.
SPECIFICATION MCSpec
CONSTANTS
    n1 = n1
    n2 = n2
    n3 = n3
    n4 = n4
    ann = ann
    visa = visa
    amex = amex
    noNumber = noNumber
    NewOrders = {n1, n2, n3, n4}
    StatusChanges = {c1, c2, c3}
    Users = {ann, bob}
    SentTypes = {0, 2, 9}
    CardNumbers = {visa, amex, noNumber}
    StoredNumbers = {visa, amex}
    SentFlaws = {"none", "items", "line", "holder"}
    CardTypes = {1, 2}
    MaxRetries = 1
    None = None
SYMMETRY Symmetry
INVARIANTS
    TypeOK
    LinkSound
    CreatedIsListed
    FailureExplained
    CardsStoredOnce
    StatusDescribed
PROPERTIES
    DoubledCardIsDead
    ListedStatusSticks
CHECK_DEADLOCK FALSE
