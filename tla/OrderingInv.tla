---------------------------- MODULE OrderingInv -----------------------------
(* The inductive invariant of Ordering, as TLC checks it and the proofs use it. *)
EXTENDS Ordering

Row(b, c) == [buyer |-> b, card |-> NormalCard(c)]

\* A request has its inputs from the moment it is received.
Received == \A r \in NewOrders :
    pc[r] # "idle" => user[r] \in Users /\ card[r] \in Cards

\* Nothing carries the id of a request that was not received yet.
Fresh == \A r \in NewOrders : pc[r] = "idle" =>
    user[r] = None /\ orders[r] = None /\ buyers[r] = None /\ payments[r] = None

\* The first save precedes everything that follows it.
Recorded == \A r \in NewOrders :
    pc[r] \in {"readBuyer", "saveBuyer", "saveLink", "created"} =>
        orders[r] # None

\* A buyer row has the identity of the request that inserted it.
BuyerOwned == \A b \in NewOrders : buyers[b] # None => buyers[b] = user[b]

\* Between the read and the second save, what was found is still there as it
\* was found; what was not found has no row of this request's id.
Working == \A r \in NewOrders : pc[r] = "saveBuyer" =>
    /\ buyerId[r] \in NewOrders /\ paymentId[r] \in NewOrders
    /\ buyerId[r] # r => buyers[buyerId[r]] = user[r]
    /\ paymentId[r] # r => payments[paymentId[r]] = Row(buyerId[r], card[r])

\* After the second save both rows are there.
Saved == \A r \in NewOrders : pc[r] \in {"saveLink", "created"} =>
    /\ buyerId[r] \in NewOrders /\ paymentId[r] \in NewOrders
    /\ buyers[buyerId[r]] = user[r]
    /\ payments[paymentId[r]] = Row(buyerId[r], card[r])

\* Only the last save links an order; while its request is still at that save,
\* the acknowledgement of an earlier attempt was lost.
LinkedLate == \A o \in NewOrders : Linked(o) =>
    /\ pc[o] \in {"saveLink", "created", "failed", "lost"}
    /\ pc[o] = "saveLink" => o \in hit /\ retries[o] > 0

CreatedLinked == \A o \in NewOrders : pc[o] = "created" => Linked(o)

\* A status change works on an existing order from a consistent snapshot.
Found == \A c \in StatusChanges :
    /\ spc[c] # "idle" => target[c] \in NewOrders /\ goal[c] \in {"Shipped", "Cancelled"}
    /\ spc[c] = "save" =>
        /\ orders[target[c]] # None
        /\ seen[c] # None
        /\ seen[c].description = DescriptionOf(seen[c].status)

IInv ==
    /\ TypeOK /\ Received /\ Fresh /\ Recorded /\ BuyerOwned /\ Working /\ Saved
    /\ LinkedLate /\ CreatedLinked /\ Found /\ LinkSound /\ StatusDescribed
=============================================================================
