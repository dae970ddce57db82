------------------------------ MODULE Ordering ------------------------------
(***************************************************************************)
(* The write side of Ordering.API: OrdersController.NewOrderAsync,         *)
(* CancelOrderAsync and ShipOrderAsync over the tables of OrderingContext. *)
(*                                                                         *)
(* NewOrderAsync saves three times and reads in between, without a         *)
(* transaction around them, so other requests interleave at every await.   *)
(* Each save is one database transaction run by EF Core's retrying         *)
(* execution strategy: when the connection is lost the save is repeated,   *)
(* and it may be repeated after it was in fact committed.                  *)
(*                                                                         *)
(* Ids come from HiLo sequences, so the order, the buyer and the payment   *)
(* method that a request may insert have ids of its own before any save:   *)
(* a row is named by the request that inserted it.                         *)
(***************************************************************************)
EXTENDS Naturals

CONSTANTS
    NewOrders,      \* PUT api/v1/orders/new requests, and the ids they draw
    StatusChanges,  \* PUT api/v1/orders/cancel and .../ship requests
    Users,          \* the "sub" claim of the caller
    SentTypes,      \* values of CardTypeId found in requests
    CardNumbers,    \* card number together with expiration date
    CardTypes,      \* ids of the rows of table cardtypes
    StoredNumbers,  \* the card numbers that fit their column: there, and short
    SentFlaws,      \* what may be wrong with the rest of a request
    MaxRetries,     \* maxRetryCount of the execution strategy (15 in the code)
    None            \* NULL: no row, no reference

ASSUME TypesAssumption   == SentTypes \subseteq Nat /\ CardTypes \subseteq Nat
ASSUME RetriesAssumption == MaxRetries \in Nat

\* Nobody validates the model of the request.  The first thing in it that will
\* be refused: no list of lines (or a null in it), a line the table refuses, a
\* card holder's name that is missing or too long.
Flaws == {"none", "items", "line", "holder"}
ASSUME FlawsAssumption == SentFlaws \subseteq Flaws

VARIABLES
    ready,       \* the tables are there, with the rows they start with
    orders,      \* table orders: request id -> row
    buyers,      \* table buyers: request id -> IdentityGuid
    payments,    \* table paymentmethods: request id -> row
    pc,          \* where each new-order request is
    user, card, flaw,  \* the inputs of each new-order request
    buyerId,     \* id of the buyer entity the request works with
    paymentId,   \* id of the payment method entity it works with
    retries,     \* retries spent on its current database operation
    spc,         \* where each status change is
    target,      \* the order number it names
    goal,        \* the status it sets
    seen,        \* the row it found: the snapshot of the change tracker
    sretries,    \* retries spent on its current database operation
    hit,         \* (history) new-order requests that met a failure: a lost
                 \* connection, a stop of the process, a database not ready
    overlapped   \* (history) users that had two new-order requests at once

tables     == <<ready, orders, buyers, payments>>
newVars    == <<pc, user, card, flaw, buyerId, paymentId, retries>>
changeVars == <<spc, target, goal, seen, sretries>>
vars       == <<tables, newVars, changeVars, hit, overlapped>>

-----------------------------------------------------------------------------
\* Card type 0 stands for "not given" and becomes the first card type.
Cards == [type : SentTypes \cup {1}, number : CardNumbers]

NormalCard(c) == [c EXCEPT !.type = IF c.type # 0 THEN c.type ELSE 1]

\* The status an order starts with, and the two a request can set.
Statuses == {"Submitted", "Shipped", "Cancelled"}

\* Description as written together with each status; NULL for a new order.
Texts == {"The order was shipped.", "The order was cancelled."}
DescriptionOf(s) ==
    CASE s = "Submitted" -> None
      [] s = "Shipped"   -> "The order was shipped."
      [] s = "Cancelled" -> "The order was cancelled."

OrderRows == [status : Statuses, description : Texts \cup {None},
              buyer : NewOrders \cup {None}, payment : NewOrders \cup {None}]

PaymentRows == [buyer : NewOrders, card : Cards]

\* The entity NewOrderAsync builds; it never changes it but for the two links.
OrderEntity(b, p) ==
    [status |-> "Submitted", description |-> None, buyer |-> b, payment |-> p]

InFlight == {"saveOrder", "readBuyer", "saveBuyer", "saveLink"}

\* NULL is no id, no identity, no text, no row and no request.
ASSUME NoneAssumption == None \notin NewOrders \cup Users \cup Statuses \cup Texts
                                        \cup Cards \cup OrderRows \cup PaymentRows
                                        \cup [customer : Users, card : Cards]

AtMostOne(S) == \A x, y \in S : x = y

Init ==
    /\ ready \in BOOLEAN
    /\ orders = [r \in NewOrders |-> None]
    /\ buyers = [r \in NewOrders |-> None]
    /\ payments = [r \in NewOrders |-> None]
    /\ pc = [r \in NewOrders |-> "idle"]
    /\ user = [r \in NewOrders |-> None]
    /\ card = [r \in NewOrders |-> None]
    /\ flaw = [r \in NewOrders |-> "none"]
    /\ buyerId = [r \in NewOrders |-> None]
    /\ paymentId = [r \in NewOrders |-> None]
    /\ retries = [r \in NewOrders |-> 0]
    /\ spc = [c \in StatusChanges |-> "idle"]
    /\ target = [c \in StatusChanges |-> None]
    /\ goal = [c \in StatusChanges |-> None]
    /\ seen = [c \in StatusChanges |-> None]
    /\ sretries = [c \in StatusChanges |-> 0]
    /\ hit = {}
    /\ overlapped = {}

-----------------------------------------------------------------------------
(* How a database operation of a new-order request ends.                   *)

Acknowledged(r, next) ==
    /\ pc' = [pc EXCEPT ![r] = next]
    /\ retries' = [retries EXCEPT ![r] = 0]
    /\ UNCHANGED hit

\* Mutant: one retry more than the limit.
UnacknowledgedOnceMore(r) ==
    /\ hit' = hit \cup {r}
    /\ \/ /\ retries[r] <= MaxRetries
          /\ retries' = [retries EXCEPT ![r] = @ + 1]
          /\ UNCHANGED pc
       \/ /\ retries[r] > MaxRetries
          /\ pc' = [pc EXCEPT ![r] = "failed"]
          /\ UNCHANGED retries

\* The connection was lost: the execution strategy runs the operation again,
\* or gives up and the exception filter answers 500.
Unacknowledged(r) ==
    /\ hit' = hit \cup {r}
    /\ \/ /\ retries[r] < MaxRetries
          /\ retries' = [retries EXCEPT ![r] = @ + 1]
          /\ UNCHANGED pc
       \/ /\ retries[r] = MaxRetries
          /\ pc' = [pc EXCEPT ![r] = "failed"]
          /\ UNCHANGED retries

\* A constraint was violated, or a table is not there: not transient, the save
\* is rolled back.
Refused(r) ==
    /\ pc' = [pc EXCEPT ![r] = "failed"]
    /\ hit' = IF ready THEN hit ELSE hit \cup {r}
    /\ UNCHANGED <<tables, user, card, flaw, buyerId, paymentId, retries,
                   changeVars, overlapped>>

-----------------------------------------------------------------------------
(* PUT api/v1/orders/new.                                                  *)

\* Without its lines the order is not even begun: the loop over them throws.
Receive(r, u, c, f) ==
    /\ pc[r] = "idle"
    /\ pc' = [pc EXCEPT ![r] = IF f = "items" THEN "failed" ELSE "saveOrder"]
    /\ user' = [user EXCEPT ![r] = u]
    /\ card' = [card EXCEPT ![r] = c]
    /\ flaw' = [flaw EXCEPT ![r] = f]
    /\ overlapped' = IF /\ f # "items"
                        /\ \E q \in NewOrders : user[q] = u /\ pc[q] \in InFlight
                     THEN overlapped \cup {u} ELSE overlapped
    /\ UNCHANGED <<tables, buyerId, paymentId, retries, changeVars, hit>>

\* The first save needs the tables, the row of its status, a fresh primary key
\* and lines the table accepts.
OrderAccepted(r) == ready /\ orders[r] = None /\ flaw[r] # "line"

\* First save: insert the order, which has no buyer and no payment yet.
SaveOrder(r) ==
    /\ pc[r] = "saveOrder"
    /\ OrderAccepted(r)
    /\ orders' = [orders EXCEPT ![r] = OrderEntity(None, None)]
    /\ Acknowledged(r, "readBuyer") \/ Unacknowledged(r)
    /\ UNCHANGED <<ready, buyers, payments, user, card, flaw, buyerId, paymentId,
                   changeVars, overlapped>>

\* Mutant: what the database refuses is retried like a lost connection.
OrderRefusedForever(r) ==
    /\ pc[r] = "saveOrder"
    /\ ~OrderAccepted(r)
    /\ UNCHANGED vars

\* Among them: the insert is repeated after it was committed.
OrderRefused(r) ==
    /\ pc[r] = "saveOrder"
    /\ ~OrderAccepted(r)
    /\ Refused(r)

\* Mutant: the payment methods are looked up by card alone.
MatchingAnyBuyer(b, c) ==
    {p \in NewOrders : payments[p] # None /\ payments[p].card = c}

\* Mutant: Include(b => b.PaymentMethods) is missing, the collection is empty.
MatchingNotLoaded(b, c) == {}

\* Payment methods of buyer b that match the (normalised) card c.
Matching(b, c) == {p \in NewOrders : payments[p] = [buyer |-> b, card |-> c]}

\* Mutant: FirstOrDefault instead of SingleOrDefault.
ReadBuyerFirst(r) ==
    /\ pc[r] = "readBuyer"
    /\ LET found   == {b \in NewOrders : buyers[b] = user[r]}
           matches == {p \in NewOrders : \E b \in found :
                           p \in Matching(b, NormalCard(card[r]))}
       IN  \E b \in (IF found = {} THEN {r} ELSE found) :
           \E p \in (IF matches = {} THEN {r} ELSE matches) :
              /\ buyerId' = [buyerId EXCEPT ![r] = b]
              /\ paymentId' = [paymentId EXCEPT ![r] = p]
    /\ Acknowledged(r, "saveBuyer")
    /\ UNCHANGED <<tables, user, card, flaw, changeVars, overlapped>>

\* Mutant: the buyer is not looked up, every request makes a new one.
ReadBuyerNever(r) ==
    /\ pc[r] = "readBuyer"
    /\ buyerId' = [buyerId EXCEPT ![r] = r]
    /\ paymentId' = [paymentId EXCEPT ![r] = r]
    /\ Acknowledged(r, "saveBuyer")
    /\ UNCHANGED <<tables, user, card, flaw, changeVars, overlapped>>

\* Load the caller's buyer with its payment methods and pick the entities to
\* work with: those found, or new ones. SingleOrDefault throws on two matches.
ReadBuyer(r) ==
    /\ pc[r] = "readBuyer"
    /\ LET found   == {b \in NewOrders : buyers[b] = user[r]}
           matches == {p \in NewOrders : \E b \in found :
                           p \in Matching(b, NormalCard(card[r]))}
       IN  \/ /\ AtMostOne(found) /\ AtMostOne(matches)
              /\ \E b \in (IF found = {} THEN {r} ELSE found) :
                 \E p \in (IF matches = {} THEN {r} ELSE matches) :
                    /\ buyerId' = [buyerId EXCEPT ![r] = b]
                    /\ paymentId' = [paymentId EXCEPT ![r] = p]
              /\ Acknowledged(r, "saveBuyer")
              /\ UNCHANGED <<tables, user, card, flaw, changeVars, overlapped>>
           \/ /\ ~(AtMostOne(found) /\ AtMostOne(matches))
              /\ Refused(r)

\* The row of a new payment method is complete, its columns long enough, and
\* its card type exists.
Storable(r) ==
    /\ NormalCard(card[r]).type \in CardTypes
    /\ card[r].number \in StoredNumbers
    /\ flaw[r] # "holder"

\* What the second save must find for the database to accept it: fresh primary
\* keys, no other buyer with this identity, a payment method that is found (and
\* then nothing of the request is written into it) or can be stored.
BuyerAccepted(r) ==
    /\ buyerId[r] = r => \A b \in NewOrders : buyers[b] # user[r]
    /\ paymentId[r] = r => payments[r] = None /\ Storable(r)

\* Mutant: no third save, the request is answered after the second one.
SaveBuyerIsLast(r) ==
    /\ pc[r] = "saveBuyer"
    /\ BuyerAccepted(r)
    /\ buyers' = [buyers EXCEPT ![buyerId[r]] = user[r]]
    /\ payments' = [payments EXCEPT ![paymentId[r]] =
                       [buyer |-> buyerId[r], card |-> NormalCard(card[r])]]
    /\ Acknowledged(r, "created") \/ Unacknowledged(r)
    /\ UNCHANGED <<ready, orders, user, card, flaw, buyerId, paymentId, changeVars,
                   overlapped>>

\* Mutant: the order is linked before the second save, which stores the links
\* too; the third save then rewrites the row.
SaveBuyerLinks(r) ==
    /\ pc[r] = "saveBuyer"
    /\ BuyerAccepted(r)
    /\ orders' = [orders EXCEPT ![r].buyer = buyerId[r],
                                ![r].payment = paymentId[r]]
    /\ buyers' = [buyers EXCEPT ![buyerId[r]] = user[r]]
    /\ payments' = [payments EXCEPT ![paymentId[r]] =
                       [buyer |-> buyerId[r], card |-> NormalCard(card[r])]]
    /\ Acknowledged(r, "saveLink") \/ Unacknowledged(r)
    /\ UNCHANGED <<ready, user, card, flaw, buyerId, paymentId, changeVars, overlapped>>

\* Second save: insert what is new; what was found is rewritten as it was read.
SaveBuyer(r) ==
    /\ pc[r] = "saveBuyer"
    /\ BuyerAccepted(r)
    /\ buyers' = [buyers EXCEPT ![buyerId[r]] = user[r]]
    /\ payments' = [payments EXCEPT ![paymentId[r]] =
                       [buyer |-> buyerId[r], card |-> NormalCard(card[r])]]
    /\ Acknowledged(r, "saveLink") \/ Unacknowledged(r)
    /\ UNCHANGED <<ready, orders, user, card, flaw, buyerId, paymentId, changeVars,
                   overlapped>>

BuyerRefused(r) ==
    /\ pc[r] = "saveBuyer"
    /\ ~BuyerAccepted(r)
    /\ Refused(r)

\* Third save: Orders.Update marks every column modified, so the whole row is
\* written from the entity as it was built, whatever the row holds by now.
SaveLink(r) ==
    /\ pc[r] = "saveLink"
    /\ orders' = [orders EXCEPT ![r] = OrderEntity(buyerId[r], paymentId[r])]
    /\ Acknowledged(r, "created") \/ Unacknowledged(r)
    /\ UNCHANGED <<ready, buyers, payments, user, card, flaw, buyerId, paymentId,
                   changeVars, overlapped>>

\* A transient error before anything was committed or read.
ConnectionLost(r) ==
    /\ pc[r] \in InFlight
    /\ Unacknowledged(r)
    /\ UNCHANGED <<tables, user, card, flaw, buyerId, paymentId, changeVars,
                   overlapped>>

\* The process that serves the request stops; nobody resumes the request.
Crash(r) ==
    /\ pc[r] \in InFlight
    /\ pc' = [pc EXCEPT ![r] = "lost"]
    /\ hit' = hit \cup {r}
    /\ UNCHANGED <<tables, user, card, flaw, buyerId, paymentId, retries, changeVars,
                   overlapped>>

NewOrderAsync(r) ==
    \/ SaveOrder(r) \/ OrderRefused(r)
    \/ ReadBuyer(r)
    \/ SaveBuyer(r) \/ BuyerRefused(r)
    \/ SaveLink(r)

-----------------------------------------------------------------------------
(* PUT api/v1/orders/cancel and PUT api/v1/orders/ship.                    *)

StatusAcknowledged(c, next) ==
    /\ spc' = [spc EXCEPT ![c] = next]
    /\ sretries' = [sretries EXCEPT ![c] = 0]

StatusUnacknowledged(c) ==
    \/ /\ sretries[c] < MaxRetries
       /\ sretries' = [sretries EXCEPT ![c] = @ + 1]
       /\ UNCHANGED spc
    \/ /\ sretries[c] = MaxRetries
       /\ spc' = [spc EXCEPT ![c] = "failed"]
       /\ UNCHANGED sretries

\* Any authenticated caller may name any order number.
ReceiveStatus(c, o, g) ==
    /\ spc[c] = "idle"
    /\ spc' = [spc EXCEPT ![c] = "find"]
    /\ target' = [target EXCEPT ![c] = o]
    /\ goal' = [goal EXCEPT ![c] = g]
    /\ UNCHANGED <<tables, newVars, seen, sretries, hit, overlapped>>

\* FindAsync: no order of that number is a bad request; the status found is
\* not looked at.
Find(c) ==
    /\ spc[c] = "find"
    /\ seen' = [seen EXCEPT ![c] = orders[target[c]]]
    /\ StatusAcknowledged(c, IF orders[target[c]] = None THEN "badRequest"
                             ELSE "save")
    /\ UNCHANGED <<tables, newVars, target, goal, hit, overlapped>>

\* Without its table the read throws.
FindRefused(c) ==
    /\ spc[c] = "find"
    /\ ~ready
    /\ spc' = [spc EXCEPT ![c] = "failed"]
    /\ UNCHANGED <<tables, newVars, target, goal, seen, sretries, hit,
                   overlapped>>

\* Mutant: the description is written only into an empty one.
UpdatedDescriptionOnce(row, snapshot, g) ==
    [row EXCEPT
        !.status = IF snapshot.status # g THEN g ELSE @,
        !.description = IF snapshot.description = None
                        THEN DescriptionOf(g) ELSE @]

\* Mutant: Orders.Update writes the whole row from the snapshot.
UpdatedWholeRow(row, snapshot, g) ==
    [snapshot EXCEPT !.status = g, !.description = DescriptionOf(g)]

\* The row after an UPDATE of the columns that differ from the snapshot.
Updated(row, snapshot, g) ==
    [row EXCEPT
        !.status = IF snapshot.status # g THEN g ELSE @,
        !.description = IF snapshot.description # DescriptionOf(g)
                        THEN DescriptionOf(g) ELSE @]

\* Without a changed column SaveChanges does not go to the database.
Dirty(c) == Updated(seen[c], seen[c], goal[c]) # seen[c]

SaveStatus(c) ==
    /\ spc[c] = "save"
    /\ orders' = [orders EXCEPT ![target[c]] = Updated(@, seen[c], goal[c])]
    /\ StatusAcknowledged(c, "ok") \/ (Dirty(c) /\ StatusUnacknowledged(c))
    /\ UNCHANGED <<ready, buyers, payments, newVars, target, goal, seen, hit,
                   overlapped>>

StatusConnectionLost(c) ==
    /\ spc[c] = "find" \/ (spc[c] = "save" /\ Dirty(c))
    /\ StatusUnacknowledged(c)
    /\ UNCHANGED <<tables, newVars, target, goal, seen, hit, overlapped>>

StatusCrash(c) ==
    /\ spc[c] \in {"find", "save"}
    /\ spc' = [spc EXCEPT ![c] = "lost"]
    /\ UNCHANGED <<tables, newVars, target, goal, seen, sretries, hit,
                   overlapped>>

ChangeStatusAsync(c) == Find(c) \/ FindRefused(c) \/ SaveStatus(c)

-----------------------------------------------------------------------------
\* Outside Kubernetes a service whose migration or seeding failed serves all
\* the same; a later start, or another instance, makes up for it.
Prepare ==
    /\ ~ready
    /\ ready' = TRUE
    /\ UNCHANGED <<orders, buyers, payments, newVars, changeVars, hit, overlapped>>

Next ==
    \/ Prepare
    \/ \E r \in NewOrders :
         \/ \E u \in Users, t \in SentTypes, n \in CardNumbers, f \in SentFlaws :
              Receive(r, u, [type |-> t, number |-> n], f)
         \/ NewOrderAsync(r)
         \/ ConnectionLost(r)
         \/ Crash(r)
    \/ \E c \in StatusChanges :
         \/ \E o \in NewOrders, g \in {"Shipped", "Cancelled"} :
              ReceiveStatus(c, o, g)
         \/ ChangeStatusAsync(c)
         \/ StatusConnectionLost(c)
         \/ StatusCrash(c)

Spec == Init /\ [][Next]_vars

\* The runtime keeps running the continuations of a request it accepted.
Fairness ==
    /\ \A r \in NewOrders : WF_vars(NewOrderAsync(r))
    /\ \A c \in StatusChanges : WF_vars(ChangeStatusAsync(c))

FairSpec == Spec /\ Fairness

-----------------------------------------------------------------------------
(* Properties.                                                             *)

\* Every variable has its type.
TypeOK ==
    /\ ready \in BOOLEAN
    /\ orders \in [NewOrders -> OrderRows \cup {None}]
    /\ buyers \in [NewOrders -> Users \cup {None}]
    /\ payments \in [NewOrders -> PaymentRows \cup {None}]
    /\ pc \in [NewOrders -> InFlight \cup {"idle", "created", "failed", "lost"}]
    /\ user \in [NewOrders -> Users \cup {None}]
    /\ card \in [NewOrders -> Cards \cup {None}]
    /\ flaw \in [NewOrders -> Flaws]
    /\ buyerId \in [NewOrders -> NewOrders \cup {None}]
    /\ paymentId \in [NewOrders -> NewOrders \cup {None}]
    /\ retries \in [NewOrders -> 0 .. MaxRetries]
    /\ spc \in [StatusChanges -> {"idle", "find", "save", "ok", "badRequest",
                                  "failed", "lost"}]
    /\ target \in [StatusChanges -> NewOrders \cup {None}]
    /\ goal \in [StatusChanges -> {"Shipped", "Cancelled", None}]
    /\ seen \in [StatusChanges -> OrderRows \cup {None}]
    /\ sretries \in [StatusChanges -> 0 .. MaxRetries]
    /\ hit \subseteq NewOrders
    /\ overlapped \subseteq Users

Linked(o) == orders[o] # None /\ orders[o].buyer # None

\* GetOrdersAsync: the orders whose buyer has the caller's identity.
ListedFor(u) == {o \in NewOrders : Linked(o) /\ buyers[orders[o].buyer] = u}

\* Three saves of two requests of one customer interleave, and the payment
\* reference of an order is not tied to its buyer by the schema.  Still, an
\* order that has a buyer belongs to the customer who placed it and is paid
\* with a payment method of that same buyer that holds the card of the request.
LinkSound ==
    \A o \in NewOrders : Linked(o) =>
        /\ buyers[orders[o].buyer] = user[o]
        /\ orders[o].payment # None
        /\ payments[orders[o].payment] =
               [buyer |-> orders[o].buyer, card |-> NormalCard(card[o])]

\* A request answered "201 Created" has its order in the caller's list, for
\* ever, whatever the other requests do to buyers and order rows.
CreatedIsListed ==
    \A o \in NewOrders : pc[o] = "created" => o \in ListedFor(user[o])

\* Status and description are two columns, each written only if it differs from
\* a snapshot that may be stale; they always tell the same story.
StatusDescribed ==
    \A o \in NewOrders : orders[o] # None =>
        orders[o].description = DescriptionOf(orders[o].status)

\* A request that met no failure fails only when requests of the same customer
\* overlapped, when its lines are missing or refused, or when it brings a card
\* that no payment method of its customer holds and that cannot be stored.  So
\* a stored card is accepted again without its holder's name.
FailureExplained ==
    \A r \in NewOrders : pc[r] = "failed" =>
        \/ r \in hit
        \/ user[r] \in overlapped
        \/ flaw[r] \in {"items", "line"}
        \/ paymentId[r] = r /\ ~Storable(r)

\* Two payment methods of one customer with the same card.
StoredTwice(p, q) ==
    /\ p # q /\ payments[p] # None /\ payments[q] # None
    /\ payments[p].card = payments[q].card
    /\ buyers[payments[p].buyer] = buyers[payments[q].buyer]

\* A customer whose requests never overlap has every card stored once.
CardsStoredOnce ==
    \A p, q \in NewOrders :
        StoredTwice(p, q) => buyers[payments[p].buyer] \in overlapped

\* A card that two overlapping requests stored twice can never be used again:
\* it stays stored twice, and a request that has yet to read its buyer then
\* never gets past that read, so it is never answered "created".
DoubledCardIsDead ==
    [][\A p, q \in NewOrders : StoredTwice(p, q) =>
         /\ StoredTwice(p, q)'
         /\ \A r \in NewOrders :
               /\ user[r] = buyers[payments[p].buyer]
               /\ NormalCard(card[r]) = payments[p].card
               /\ pc[r] \in {"saveOrder", "readBuyer"}
               => pc'[r] \in {"saveOrder", "readBuyer", "failed", "lost"}]_vars

\* A shipped or cancelled order that its customer can see goes back to
\* "Submitted" only when the last save of its own request is repeated after
\* a commit whose acknowledgement was lost.
ListedStatusSticks ==
    [][\A o \in NewOrders :
         Linked(o) /\ orders[o].status # "Submitted"
         /\ orders'[o].status = "Submitted"
         => o \in hit /\ pc[o] = "saveLink" /\ retries[o] > 0]_vars

\* The book of orders as read from the tables and the answers.
BookRequest == [o \in NewOrders |->
    IF user[o] = None THEN None
    ELSE [customer |-> user[o], card |-> NormalCard(card[o])]]
BookStatus == [o \in NewOrders |->
    IF orders[o] = None THEN None ELSE orders[o].status]
BookOwner == [o \in NewOrders |->
    IF Linked(o) THEN buyers[orders[o].buyer] ELSE None]
BookCharged == [o \in NewOrders |->
    IF Linked(o) THEN payments[orders[o].payment].card ELSE None]
BookAnswer == [o \in NewOrders |->
    IF pc[o] = "created" THEN "created"
    ELSE IF pc[o] \in {"failed", "lost"} THEN "error" ELSE "none"]

Book == INSTANCE OrderBook WITH
    Orders <- NewOrders, Customers <- Users,
    request <- BookRequest, status <- BookStatus, owner <- BookOwner,
    charged <- BookCharged, answer <- BookAnswer

\* NewOrderAsync, CancelOrderAsync and ShipOrderAsync, run concurrently over the
\* tables, implement the book of orders.
BookSpec == Book!Spec

\* Every request that was received is answered, or its process stopped.
EveryRequestEnds ==
    /\ \A r \in NewOrders : pc[r] \in InFlight ~> pc[r] \notin InFlight
    /\ \A c \in StatusChanges :
          spc[c] \in {"find", "save"} ~> spc[c] \notin {"find", "save"}
=============================================================================
