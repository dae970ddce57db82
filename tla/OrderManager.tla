---------------------------- MODULE OrderManager ----------------------------
(***************************************************************************)
(* How lines become an order: OrderManager.AddOrderItem and GetTotal, as   *)
(* NewOrderAsync runs them over the lines of a request and the draft       *)
(* endpoints (HTTP and gRPC) over the lines of a basket.                   *)
(*                                                                         *)
(* Prices and discounts are decimals: small integers here.  Units are C#   *)
(* ints added without overflow check: integers of WordSize bits.           *)
(***************************************************************************)
EXTENDS Integers, Sequences, FiniteSets

CONSTANTS Products, Prices, Discounts,
          Quantities,  \* units of one line of the input
          WordSize,    \* bits of an int (32 in the code)
          MaxLines     \* bound: lines of one request

VARIABLES kind,   \* "new": lines of a new order; "draft": lines of a basket
          lines,  \* the input handled so far
          order   \* the OrderItems collection, in insertion order
vars == <<kind, lines, order>>

Lines == [product : Products, price : Prices, discount : Discounts,
          units : Quantities]

\* Two's complement.
Wrap(n) == ((n + 2^(WordSize - 1)) % 2^WordSize) - 2^(WordSize - 1)

\* What holds of the constants: units are ints.
LinesAssumption ==
    /\ WordSize \in Nat \ {0} /\ MaxLines \in Nat
    /\ Prices \subseteq Int /\ Discounts \subseteq Int
    /\ Quantities \subseteq {q \in Int : Wrap(q) = q}

\* f[1] + ... + f[n].
Sum(n, f) ==
    LET sum[k \in 0 .. n] == IF k = 0 THEN 0 ELSE sum[k - 1] + f[k]
    IN  sum[n]

\* A basket line has no discount.
ToOrderItemDTO(line) == [line EXCEPT !.discount = 0]

\* Positions of the lines of the same product.
Matches(items, line) == {k \in DOMAIN items : items[k].product = line.product}

\* Mutant: the units replace those of the existing line.
AddOrderItemReplaces(items, line) ==
    IF Matches(items, line) = {} THEN Append(items, line)
    ELSE LET k == CHOOSE k \in Matches(items, line) : TRUE
         IN  [items EXCEPT ![k].units = line.units]

\* Mutant: a new line keeps the default of parameter units.
AddOrderItemDefaultUnits(items, line) ==
    IF Matches(items, line) = {} THEN Append(items, [line EXCEPT !.units = 1])
    ELSE LET k == CHOOSE k \in Matches(items, line) : TRUE
         IN  [items EXCEPT ![k].units = Wrap(items[k].units + line.units)]

AddOrderItem(items, line) ==
    IF Matches(items, line) = {} THEN Append(items, line)
    ELSE LET k   == CHOOSE k \in Matches(items, line) : TRUE
             old == items[k]
         IN  [items EXCEPT ![k] =
                [old EXCEPT !.discount = IF line.discount > old.discount THEN line.discount
                                         ELSE old.discount,
                            !.units = Wrap(old.units + line.units)]]

\* Mutant: the discount is subtracted once per line.
GetTotalDiscounted(items) ==
    Sum(Len(items), [k \in DOMAIN items |-> items[k].units * items[k].price - items[k].discount])

GetTotal(items) == Sum(Len(items), [k \in DOMAIN items |-> items[k].units * items[k].price])

Init ==
    /\ kind \in {"new", "draft"}
    /\ lines = <<>>
    /\ order = <<>>

\* One iteration of the foreach over the lines of the input.
AddLine(line) ==
    /\ Len(lines) < MaxLines
    /\ lines' = Append(lines, line)
    /\ order' = AddOrderItem(order, IF kind = "draft" THEN ToOrderItemDTO(line)
                                    ELSE line)
    /\ UNCHANGED kind

Next == \E line \in Lines : AddLine(line)

Spec == Init /\ [][Next]_vars

-----------------------------------------------------------------------------
(* Properties.                                                             *)

\* The lines of a product in the input, as positions.
LinesOf(p) == {k \in DOMAIN lines : lines[k].product = p}

\* The units of a product, not cut to an int.
UnitsOf(p) ==
    Sum(Len(lines), [k \in DOMAIN lines |-> IF lines[k].product = p THEN lines[k].units ELSE 0])

\* What an order should hold of a product, said without a loop: all its units,
\* its largest discount, and the price of its first line.
Merged(p) ==
    LET mine == LinesOf(p)
    IN  [product |-> p,
         price |-> lines[CHOOSE k \in mine : \A j \in mine : k <= j].price,
         discount |->
            IF kind = "draft" THEN 0
            ELSE CHOOSE d \in {lines[k].discount : k \in mine} :
                    \A k \in mine : d >= lines[k].discount,
         units |-> Wrap(UnitsOf(p))]

\* Adding the lines one by one gives exactly one line per product, and that line
\* is the merge of the product's lines, however the lines are mixed.
OrderIsMerge ==
    /\ Len(order) = Cardinality({lines[k].product : k \in DOMAIN lines})
    /\ {order[k] : k \in DOMAIN order} =
          {Merged(p) : p \in {lines[k].product : k \in DOMAIN lines}}

\* The total is what the lines cost, as long as a product has one price in the
\* request and no product's units overflow.
OnePrice == \A j, k \in DOMAIN lines :
    lines[j].product = lines[k].product => lines[j].price = lines[k].price

TotalIsSumOfLines ==
    OnePrice /\ (\A p \in Products : UnitsOf(p) = Wrap(UnitsOf(p))) =>
        GetTotal(order) = Sum(Len(lines), [k \in DOMAIN lines |-> lines[k].units * lines[k].price])

\* The draft shown to the customer, sent back as a new order, is the same order:
\* running the merge over merged lines changes nothing.
Rebuilt(items) ==
    LET built[k \in 0 .. Len(items)] ==
          IF k = 0 THEN <<>> ELSE AddOrderItem(built[k - 1], items[k])
    IN  built[Len(items)]

RebuildIsStable == Rebuilt(order) = order

\* The lines, the total and the second merge, in one.
LinesMerged == OrderIsMerge /\ TotalIsSumOfLines /\ RebuildIsStable
=============================================================================
