------------------------------- MODULE Basket -------------------------------
(***************************************************************************)
(* Customer baskets: the Redis store of Basket.API (one value per buyer,   *)
(* read, written and deleted whole) and the shopping aggregator, which     *)
(* changes a basket by reading it over gRPC, changing the copy and writing *)
(* the copy back.  Nothing guards against other requests in between, and   *)
(* GrpcExceptionInterceptor turns every failed call into a null answer.    *)
(***************************************************************************)
EXTENDS Integers, SequencesExt

CONSTANTS
    Buyers,
    Requests,    \* requests to the aggregator or to Basket.API; the new GUID
                 \* of an added line is named by its request
    Products,    \* products a request may name
    Catalog,     \* those that Catalog.API knows
    Quantities,  \* quantities of AddBasketItemAsync
    ClientIds,   \* line ids that clients choose themselves
    Bodies,      \* bodies of UpdateAllBasketAsync: sequences of lines
    Updates,     \* bodies of UpdateQuantitiesAsync: sequences of [id, quantity]
    Posted,      \* baskets posted to Basket.API itself: sets of lines
    Ops,         \* the operations that are called
    None         \* null: no id, no line

Ids     == Requests \cup ClientIds
Lines   == [id : Ids \cup {None}, product : Products, quantity : Int]

\* A buyer without a value in Redis: no set of lines.
NoBasket == {None}

ASSUME CatalogAssumption == Catalog \subseteq Products /\ Quantities \subseteq Int
ASSUME BodiesAssumption  ==
    /\ Bodies \subseteq Seq(Lines) /\ Updates \subseteq Seq([id : Ids, quantity : Int])
    /\ \A items \in Posted : items \subseteq Lines /\ IsFiniteSet(items)
ASSUME OpsAssumption ==
    Ops \subseteq {"add", "updateAll", "setQuantities", "post", "checkout", "delete"}
ASSUME NullAssumption ==
    /\ None \notin Ids \cup Buyers /\ None \notin Lines
    /\ None \notin [id : Ids \cup {None}, units : Int]

VARIABLES
    baskets,   \* Redis: buyer -> basket or NoBasket
    pc,        \* where each request is, and its answer
    buyer,     \* whose basket it names
    input,     \* operation and arguments
    cart,      \* the copy of the basket the aggregator is changing
    hit,       \* (history) requests that met a failed call or a crash
    overlapped,\* (history) buyers with two requests in flight at once
    answered   \* (history) each buyer's requests in the order of their answers
vars == <<baskets, pc, buyer, input, cart, hit, overlapped, answered>>

InFlight == {"read", "write", "command"}
Answers  == {"ok", "accepted", "badRequest", "error", "lost"}

Inputs ==
    {i \in [op : {"add"}, product : Products, quantity : Quantities]
       \cup [op : {"updateAll"}, lines : Bodies]
       \cup [op : {"setQuantities"}, updates : Updates]
       \cup [op : {"post"}, lines : Posted]
       \cup [op : {"checkout", "delete"}] : i.op \in Ops}

Init ==
    /\ baskets = [b \in Buyers |-> NoBasket]
    /\ pc = [r \in Requests |-> "idle"]
    /\ buyer = [r \in Requests |-> None]
    /\ input = [r \in Requests |-> None]
    /\ cart = [r \in Requests |-> {}]
    /\ hit = {}
    /\ overlapped = {}
    /\ answered = [b \in Buyers |-> << >>]

-----------------------------------------------------------------------------
(* What the aggregator does to its copy of the basket.  `items' is a set   *)
(* of lines; each operator gives the copy to write or the answer it sends. *)

OfProduct(items, p) == {line \in items : line.product = p}
WithId(items, i)    == {line \in items : line.id = i}
ToWrite(items)      == [write |-> TRUE, items |-> items]
Reply(answer)       == [write |-> FALSE, answer |-> answer]

\* Mutant: the basket is not searched for the product.
AddBasketItemAppends(items, r, p, q) ==
    IF p \notin Catalog THEN Reply("error")
    ELSE ToWrite(items \cup {[id |-> r, product |-> p, quantity |-> q]})

\* AddBasketItemAsync: an unknown product is a null answer of the catalog and a
\* NullReferenceException; two lines of the product make SingleOrDefault throw.
AddBasketItem(items, r, p, q) ==
    LET old == OfProduct(items, p)
    IN  IF p \notin Catalog \/ Cardinality(old) > 1 THEN Reply("error")
        ELSE IF old = {}
        THEN ToWrite(items \cup {[id |-> r, product |-> p, quantity |-> q]})
        ELSE ToWrite((items \ old) \cup {[line EXCEPT !.quantity = @ + q] : line \in old})

\* The lines of a body for product p: where they are, and the first one.
Of(body, p)    == {k \in DOMAIN body : body[k].product = p}
First(body, p) == body[Min(Of(body, p))]

\* Mutant: the first line of a product stands for all of them.
GroupedQuantityFirst(body, p) == First(body, p).quantity

\* The units of a product in the body of UpdateAllBasketAsync, grouped.
GroupedQuantity(body, p) ==
    LET upTo[k \in 0 .. Len(body)] ==
          IF k = 0 THEN 0
          ELSE upTo[k - 1] + (IF body[k].product = p THEN body[k].quantity ELSE 0)
    IN  upTo[Len(body)]

\* UpdateAllBasketAsync: one line per product, with the id of its first line. When
\* the catalog knows none of the products its answer is null and read without a
\* check.
UpdateAllBasket(items, body) ==
    LET named == {body[k].product : k \in DOMAIN body}
        new   == {p \in named : OfProduct(items, p) = {}}
    IN  IF named \cap Catalog = {} THEN Reply("error")
        ELSE IF ~(named \subseteq Catalog) THEN Reply("badRequest")
        ELSE ToWrite({IF line.product \in named
                      THEN [line EXCEPT !.quantity = GroupedQuantity(body, line.product)]
                      ELSE line : line \in items}
                     \cup {[First(body, p) EXCEPT !.quantity = GroupedQuantity(body, p)] :
                              p \in new})

\* UpdateQuantitiesAsync: a later update of a line replaces an earlier one; the
\* first update that does not name exactly one line ends the request.
UpdateQuantities(items, updates) ==
    LET wrong == {k \in DOMAIN updates : Cardinality(WithId(items, updates[k].id)) # 1}
        For(line) == {k \in DOMAIN updates : updates[k].id = line.id}
    IN  IF wrong # {}
        THEN Reply(IF WithId(items, updates[Min(wrong)].id) = {}
                   THEN "badRequest" ELSE "error")
        ELSE ToWrite({IF For(line) = {} THEN line
                      ELSE [line EXCEPT !.quantity = updates[Max(For(line))].quantity] :
                         line \in items})

\* A line without an id cannot be put into a gRPC message: the answer of
\* GetBasketById fails, so the whole basket looks absent.
Seen(basket) ==
    IF basket = NoBasket \/ (\E line \in basket : line.id = None) THEN NoBasket ELSE basket

\* The handler from the answer of GetByIdAsync on.
Handle(seen, r) ==
    LET i     == input[r]
        items == IF seen = NoBasket THEN {} ELSE seen
    IN  CASE i.op = "add"           -> AddBasketItem(items, r, i.product, i.quantity)
          [] i.op = "updateAll"     -> UpdateAllBasket(items, i.lines)
          [] i.op = "setQuantities" -> IF seen = NoBasket THEN Reply("badRequest")
                                       ELSE UpdateQuantities(items, i.updates)

-----------------------------------------------------------------------------
(* Steps.                                                                  *)

Answer(r, answer) ==
    /\ pc' = [pc EXCEPT ![r] = answer]
    /\ answered' = [answered EXCEPT ![buyer[r]] = Append(@, r)]

\* The payload checks come first: AddBasketItemAsync, UpdateAllBasketAsync and
\* UpdateQuantitiesAsync check theirs, ValidateModelStateFilter checks a posted
\* basket with BasketItem.Validate.
Rejected(i) ==
    \/ i.op = "add" /\ i.quantity = 0
    \/ i.op = "updateAll" /\ i.lines = << >>
    \/ i.op = "setQuantities" /\ i.updates = << >>
    \/ i.op = "post" /\ \E line \in i.lines : line.quantity < 1

Receive(r, b, i) ==
    /\ pc[r] = "idle"
    /\ buyer' = [buyer EXCEPT ![r] = b]
    /\ input' = [input EXCEPT ![r] = i]
    /\ IF Rejected(i)
       THEN pc' = [pc EXCEPT ![r] = "badRequest"] /\ UNCHANGED overlapped
       ELSE /\ pc' = [pc EXCEPT ![r] =
                        IF i.op \in {"post", "checkout", "delete"} THEN "command" ELSE "read"]
            /\ overlapped' = IF \E o \in Requests : buyer[o] = b /\ pc[o] \in InFlight
                             THEN overlapped \cup {b} ELSE overlapped
    /\ UNCHANGED <<baskets, cart, hit, answered>>

\* Go on with what GetByIdAsync answered.
GoOn(r, seen) ==
    LET result == Handle(seen, r)
    IN  IF result.write
        THEN /\ cart' = [cart EXCEPT ![r] = result.items]
             /\ pc' = [pc EXCEPT ![r] = "write"]
             /\ UNCHANGED answered
        ELSE Answer(r, result.answer) /\ UNCHANGED cart

Read(r) ==
    /\ pc[r] = "read"
    /\ GoOn(r, Seen(baskets[buyer[r]]))
    /\ UNCHANGED <<baskets, buyer, input, hit, overlapped>>

\* The interceptor turns the failed call into null: the basket looks absent.
ReadFails(r) ==
    /\ pc[r] = "read"
    /\ GoOn(r, NoBasket)
    /\ hit' = hit \cup {r}
    /\ UNCHANGED <<baskets, buyer, input, overlapped>>

\* A failed call to the catalog is null too, and read without a check.
CatalogFails(r) ==
    /\ pc[r] = "read"
    /\ input[r].op \in {"add", "updateAll"}
    /\ Answer(r, "error")
    /\ hit' = hit \cup {r}
    /\ UNCHANGED <<baskets, buyer, input, cart, overlapped>>

\* Mutant: what is stored meanwhile is kept.
StoredMerged(r) ==
    (IF baskets[buyer[r]] = NoBasket THEN {} ELSE baskets[buyer[r]]) \cup cart[r]

\* Mutant: lines without an id are sent too.
StoredWhole(r) == cart[r]

\* MapToCustomerBasketRequest leaves lines without an id out; UpdateBasket
\* overwrites the stored value.
Stored(r) == {line \in cart[r] : line.id # None}

Write(r) ==
    /\ pc[r] = "write"
    /\ baskets' = [baskets EXCEPT ![buyer[r]] = Stored(r)]
    /\ Answer(r, "ok")
    /\ UNCHANGED <<buyer, input, cart, hit, overlapped>>

\* The interceptor hides the failure: the caller is told Ok all the same.
WriteFails(r) ==
    /\ pc[r] = "write"
    /\ Answer(r, "ok")
    /\ hit' = hit \cup {r}
    /\ UNCHANGED <<baskets, buyer, input, cart, overlapped>>

\* One Redis command for a posted basket, CheckoutAsync and DeleteBasketByIdAsync.
Effect(i) == IF i.op = "post" THEN i.lines ELSE NoBasket

Command(r) ==
    /\ pc[r] = "command"
    /\ baskets' = [baskets EXCEPT ![buyer[r]] = Effect(input[r])]
    /\ Answer(r, IF input[r].op = "checkout" THEN "accepted" ELSE "ok")
    /\ UNCHANGED <<buyer, input, cart, hit, overlapped>>

\* Redis throws; the command may have been carried out.
CommandFails(r) ==
    /\ pc[r] = "command"
    /\ \/ UNCHANGED baskets
       \/ baskets' = [baskets EXCEPT ![buyer[r]] = Effect(input[r])]
    /\ Answer(r, "error")
    /\ hit' = hit \cup {r}
    /\ UNCHANGED <<buyer, input, cart, overlapped>>

\* The aggregator or Basket.API stops, before or after the store has changed.
Crash(r) ==
    /\ pc[r] \in InFlight
    /\ \/ UNCHANGED baskets
       \/ pc[r] = "write" /\ baskets' = [baskets EXCEPT ![buyer[r]] = Stored(r)]
       \/ pc[r] = "command" /\ baskets' = [baskets EXCEPT ![buyer[r]] = Effect(input[r])]
    /\ pc' = [pc EXCEPT ![r] = "lost"]
    /\ hit' = hit \cup {r}
    /\ UNCHANGED <<buyer, input, cart, overlapped, answered>>

Done == \A r \in Requests : pc[r] \in Answers
Next ==
    \/ \E r \in Requests :
          \/ \E b \in Buyers, i \in Inputs : Receive(r, b, i)
          \/ Read(r) \/ ReadFails(r) \/ CatalogFails(r)
          \/ Write(r) \/ WriteFails(r)
          \/ Command(r) \/ CommandFails(r)
          \/ Crash(r)
    \/ Done /\ UNCHANGED vars

Spec == Init /\ [][Next]_vars

-----------------------------------------------------------------------------
(* What a request means by itself.  A basket is seen here as a function    *)
(* from products to their line, the first that was made.                   *)

Distinct(items) == \A p \in Products : Cardinality(OfProduct(items, p)) <= 1

Keyed(basket) ==
    [p \in Products |->
        IF basket = NoBasket \/ OfProduct(basket, p) = {} THEN None
        ELSE LET line == CHOOSE l \in basket : l.product = p
             IN  [id |-> line.id, units |-> line.quantity]]
Empty == [p \in Products |-> None]

\* The lines a client can change: see Seen.
Visible(f) == IF \E p \in Products : f[p] # None /\ f[p].id = None THEN Empty ELSE f

\* The units a body names of a product.
Units(body, p) ==
    LET upTo[k \in 0 .. Len(body)] ==
          IF k = 0 THEN 0
          ELSE upTo[k - 1] + (IF body[k].product = p THEN body[k].quantity ELSE 0)
    IN  upTo[Len(body)]

\* The change of the basket f0 that request r asks for with input i.
Meaning(f0, i, r) ==
    LET f == Visible(f0)
        Names(u) == {p \in Products : f[p] # None /\ f[p].id = u.id}
    IN  IF Rejected(i) THEN f0 ELSE
        CASE i.op = "add" ->
               IF i.product \notin Catalog THEN f0
               ELSE LET old == f[i.product]
                    IN  [f EXCEPT ![i.product] =
                           IF old = None THEN [id |-> r, units |-> i.quantity]
                           ELSE [id |-> old.id, units |-> old.units + i.quantity]]
          [] i.op = "updateAll" ->
               IF \E k \in DOMAIN i.lines : i.lines[k].product \notin Catalog THEN f0
               ELSE LET At(p)   == {k \in DOMAIN i.lines : i.lines[k].product = p}
                        Id(p)   == i.lines[Min(At(p))].id
                    IN  [p \in Products |->
                           IF At(p) = {} THEN f[p]
                           ELSE IF f[p] # None THEN [f[p] EXCEPT !.units = Units(i.lines, p)]
                           ELSE IF Id(p) = None THEN None
                           ELSE [id |-> Id(p), units |-> Units(i.lines, p)]]
          [] i.op = "setQuantities" ->
               IF \E k \in DOMAIN i.updates : Cardinality(Names(i.updates[k])) # 1 THEN f0
               ELSE [p \in Products |->
                       LET mine == {k \in DOMAIN i.updates : p \in Names(i.updates[k])}
                       IN  IF mine = {} THEN f[p]
                           ELSE [f[p] EXCEPT !.units = i.updates[Max(mine)].quantity]]
          [] i.op = "post" -> Keyed(i.lines)
          [] OTHER -> Empty

\* The basket after the requests of s, one after the other.
After(s) ==
    LET basket[n \in 0 .. Len(s)] ==
          IF n = 0 THEN Empty ELSE Meaning(basket[n - 1], input[s[n]], s[n])
    IN  basket[Len(s)]

\* A basket posted with two lines for a product is stored as it is.
PostedTwice(b) ==
    \E r \in Requests :
        buyer[r] = b /\ input[r].op = "post" /\ ~Distinct(input[r].lines)

-----------------------------------------------------------------------------
(* Properties.                                                             *)

\* Variables stay within their types; the aggregator never stores a line without
\* an id, only a client who posts a whole basket can (BasketService of the
\* aggregator, MapToCustomerBasketRequest).
TypeOK ==
    /\ \A b \in Buyers :
          /\ baskets[b] = NoBasket \/ baskets[b] \subseteq Lines
          /\ baskets[b] # NoBasket => \A line \in WithId(baskets[b], None) :
                \E r \in Requests : /\ buyer[r] = b /\ input[r].op = "post"
                                     /\ line \in input[r].lines
          /\ Range(answered[b]) \subseteq {r \in Requests : buyer[r] = b}
    /\ pc \in [Requests -> {"idle"} \cup InFlight \cup Answers]
    /\ buyer \in [Requests -> Buyers \cup {None}]
    /\ \A r \in Requests :
          /\ input[r] \in Inputs \cup {None}
          /\ cart[r] \subseteq Lines
    /\ hit \subseteq Requests /\ overlapped \subseteq Buyers

\* "group by product id to avoid duplicates" (BasketController.UpdateAllBasketAsync):
\* whatever requests, failures and stale copies do, neither a stored basket nor
\* a copy has two lines for a product, unless a client posts such a basket.
OneLinePerProduct ==
    \A b \in Buyers : ~PostedTwice(b) =>
        /\ baskets[b] # NoBasket => Distinct(baskets[b])
        /\ \A r \in Requests : buyer[r] = b => Distinct(cart[r])

\* A buyer whose requests came one at a time and met no failure has the basket
\* that the requests mean, in their order: no unit is lost or made up by the
\* round trip over gRPC.
UndisturbedIsSequential ==
    \A b \in Buyers :
        (b \notin overlapped /\ ~PostedTwice(b) /\ \A r \in hit : buyer[r] # b) =>
            Keyed(baskets[b]) = After(answered[b])

\* Reading, changing and overwriting a basket without a version loses requests
\* but never mixes them: whatever overlapped or failed, every stored basket is
\* what some of the buyer's requests mean one after the other, each at most once.
SomeOrderExplains ==
    \A b \in Buyers : ~PostedTwice(b) =>
        LET finished == {r \in Requests : buyer[r] = b /\ pc[r] \in Answers}
        IN  \E s \in SetToAllKPermutations(finished) : Keyed(baskets[b]) = After(s)

\* A basket is well formed: its types, and a line for each product.
BasketsSound == TypeOK /\ OneLinePerProduct
=============================================================================
