-------------------------------- MODULE Stock --------------------------------
(***************************************************************************)
(* The stock of a CatalogItem: RemoveStock and AddStock over 32-bit ints,  *)
(* here of Width bits, and the handlers that set stock and threshold to    *)
(* whatever a client sends.  (No handler of the repository calls the two.) *)
(***************************************************************************)
EXTENDS Integers

CONSTANT Width

Ints    == -(2 ^ (Width - 1)) .. 2 ^ (Width - 1) - 1
Wrap(n) == ((n + 2 ^ (Width - 1)) % 2 ^ Width) - 2 ^ (Width - 1)

VARIABLES
    stock, limit,  \* AvailableStock and MaxStockThreshold
    ledger,        \* (history) the stock as callers add it up from what they are told
    last,          \* (history) the last call: operation, quantity, stock and limit before, result
    spoilt         \* (history) set below zero, a negative quantity added, or an overflow

vars == <<stock, limit, ledger, last, spoilt>>

Call(op, quantity, result) ==
    [op |-> op, quantity |-> quantity, stock |-> stock, limit |-> limit, result |-> result]

\* The item a POST creates: stock and threshold are not copied.
Init ==
    /\ stock = 0 /\ limit = 0 /\ ledger = 0
    /\ last = [op |-> "create", quantity |-> 0, stock |-> 0, limit |-> 0, result |-> 0]
    /\ spoilt = FALSE

\* A PUT, or the seed (whose items have stock and no threshold).
Update(s, l) ==
    /\ stock' = s /\ limit' = l /\ ledger' = s
    /\ spoilt' = (s < 0 \/ l < 0)
    /\ last' = Call("update", s, 0)

\* Mutant: the quantity asked for is not looked at.
RefusesEmptyOnly(quantity) == stock = 0

\* RemoveStock throws.
Refuses(quantity) == stock = 0 \/ quantity <= 0

RemoveStock(quantity) ==
    /\ ~Refuses(quantity)
    /\ LET removed == IF quantity < stock THEN quantity ELSE stock
       IN  /\ stock' = Wrap(stock - removed)
           /\ ledger' = Wrap(ledger - removed)
           /\ last' = Call("remove", quantity, removed)
    /\ UNCHANGED <<limit, spoilt>>

\* Mutant: subtracted the wrong way round.
RoomSwapped == Wrap(stock - limit)

\* What fits beside the stock; negative when it is above the limit.
Room == Wrap(limit - stock)

\* Mutant: the quantity is returned, not what was added of it.
AddedAll(quantity) == quantity

\* What AddStock adds to the stock, and returns.
Added(quantity) == IF Wrap(stock + quantity) > limit THEN Room ELSE quantity

AddStock(quantity) ==
    LET new == IF Wrap(stock + quantity) > limit THEN Wrap(stock + Room) ELSE Wrap(stock + quantity)
    IN  /\ stock' = new
        /\ ledger' = Wrap(ledger + Added(quantity))
        /\ last' = Call("add", quantity, Added(quantity))
        /\ spoilt' = (spoilt \/ quantity < 0 \/ stock + quantity \notin Ints)
        /\ UNCHANGED limit

Next ==
    \/ \E s, l \in Ints : Update(s, l)
    \/ \E q \in Ints : RemoveStock(q) \/ AddStock(q)

Spec == Init /\ [][Next]_vars

-----------------------------------------------------------------------------
(* Properties.                                                             *)

\* Callers who add up what RemoveStock and AddStock tell them know the stock,
\* clamped, overflowed or negative as it may be.
LedgerBalances == ledger = stock

\* The stock is below zero only if it or its threshold was set so, a negative quantity was added,
\* or a sum overflowed; otherwise a removal takes between one unit and what was
\* asked for.
OversoldExplained ==
    ~spoilt =>
        /\ stock >= 0
        /\ last.op = "remove" => last.result \in 1 .. last.quantity

\* AddStock leaves at most the threshold, and takes stock away (though asked to
\* add) only from an item that was above its threshold: like every item of the
\* default catalog, which has none.
AddTakesExplained ==
    last.op = "add" =>
        /\ stock <= last.limit
        /\ last.quantity >= 0 /\ last.result < 0 => last.stock > last.limit

\* The stock and what its two operations say of it, in one.
StockExplained == LedgerBalances /\ OversoldExplained /\ AddTakesExplained
=============================================================================
