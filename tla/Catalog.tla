------------------------------- MODULE Catalog -------------------------------
(***************************************************************************)
(* The items of Catalog.API (CatalogController) and the prices copied from *)
(* them.  A client shows an item, changes a field and puts the whole item  *)
(* back; the service looks whether the item is there and then writes every *)
(* column, in a save that EF Core repeats when it got no acknowledgement.  *)
(* Meanwhile the shopping aggregator copies prices into baskets, which are *)
(* charged later.                                                          *)
(*                                                                         *)
(* An item that is created is named by its request: its id is drawn from a *)
(* sequence.  Baskets are those of module Basket, seen as the price of     *)
(* each line.  Catalog items are seen as price, stock and brand; type,     *)
(* texts and thresholds travel like them.  What a payload nests for brand  *)
(* and type is left out.                                                   *)
(***************************************************************************)
EXTENDS Naturals, Sequences

CONSTANTS
    Requests,   \* PUT, POST and DELETE requests
    Adds,       \* requests to the aggregator that add a product to a basket
    Customers,
    Seeded,     \* items that are there at the start
    Prices,     \* the values of each field
    Stocks,
    Brands,     \* brand ids that clients may send
    Known,      \* those that CatalogBrand has
    MaxSaves,   \* bound of the repetitions of one save
    None

ASSUME CatalogAssumption ==
    /\ Known \subseteq Brands /\ Known # {} /\ Prices # {} /\ Stocks # {}
    /\ Seeded \cap Requests = {}
    /\ MaxSaves \in Nat

ASSUME NoneAssumption ==
    /\ None \notin Requests \cup Seeded \cup Customers \cup Prices
    /\ None \notin {"edit", "create", "delete"}
    /\ None \notin [price : Prices, stock : Stocks, brand : Brands]
    /\ None \notin [Seeded \cup Requests -> Prices \cup {None}]

Items  == Seeded \cup Requests
Rows   == [price : Prices, stock : Stocks, brand : Brands]
Fields == {"price", "stock", "brand"}
Edits  == UNION {[field : {"price"}, value : Prices], [field : {"stock"}, value : Stocks],
                 [field : {"brand"}, value : Brands]}

VARIABLES
    rows,      \* table Catalog: item -> row or None
    pc,        \* where each request is, and its answer
    item,      \* the item it names
    kind,      \* "edit", "create" or "delete"
    edit,      \* the field an edit changes, and the value
    payload,   \* the item as the client sends it
    repeats,   \* repetitions of its save
    saves,     \* (history) the updates of each item, in the order of the table
    base,      \* (history) updates that the client of an edit had seen
    effect,    \* (history) requests whose save was committed
    gone,      \* (history) items deleted
    apc, shopper, product,  \* requests to the aggregator
    price, copy,            \* what each has read: the price, and the basket
    baskets,   \* customer -> product -> price of the line, or None
    charged,   \* lines of orders: customer, product and price
    offered    \* (history) prices that products had since customers asked for them

rowVars  == <<rows, saves, gone>>
reqVars  == <<pc, item, kind, edit, payload, repeats, base, effect>>
shopVars == <<apc, shopper, product, price, copy, baskets, charged, offered>>
vars     == <<rowVars, reqVars, shopVars>>

There(i) == rows[i] # None

Init ==
    /\ \E row \in [Seeded -> {r \in Rows : r.brand \in Known}] :
          /\ rows = [i \in Items |-> IF i \in Seeded THEN row[i] ELSE None]
          /\ \A i, j \in Seeded : row[i] = row[j]
    /\ pc = [r \in Requests |-> "idle"]
    /\ item = [r \in Requests |-> None]
    /\ kind = [r \in Requests |-> None]
    /\ edit = [r \in Requests |-> None]
    /\ payload = [r \in Requests |-> None]
    /\ repeats = [r \in Requests |-> 0]
    /\ saves = [i \in Items |-> <<>>]
    /\ base = [r \in Requests |-> 0]
    /\ effect = {}
    /\ gone = {}
    /\ apc = [a \in Adds |-> "idle"]
    /\ shopper = [a \in Adds |-> None]
    /\ product = [a \in Adds |-> None]
    /\ price = [a \in Adds |-> None]
    /\ copy = [a \in Adds |-> None]
    /\ baskets = [c \in Customers |-> [i \in Items |-> None]]
    /\ charged = {}
    /\ offered = [c \in Customers |-> [i \in Items |-> {}]]

-----------------------------------------------------------------------------
(* Requests.                                                               *)

\* ItemByIdAsync for the client that will send r; an item that is not there is
\* a NullReferenceException.
ItemById(r, i, e) ==
    /\ pc[r] = "idle"
    /\ kind' = [kind EXCEPT ![r] = "edit"]
    /\ item' = [item EXCEPT ![r] = i]
    /\ \/ /\ ~There(i)
          /\ pc' = [pc EXCEPT ![r] = "error"]
          /\ UNCHANGED <<edit, payload, base>>
       \/ /\ There(i)
          /\ pc' = [pc EXCEPT ![r] = "find"]
          /\ edit' = [edit EXCEPT ![r] = e]
          /\ payload' = [payload EXCEPT ![r] = [rows[i] EXCEPT ![e.field] = e.value]]
          /\ base' = [base EXCEPT ![r] = Len(saves[i])]
    /\ UNCHANGED <<rowVars, repeats, effect, shopVars>>

\* CreateProductAsync: stock and thresholds are not copied from the body.
CreateProduct(r, p, b) ==
    /\ pc[r] = "idle"
    /\ kind' = [kind EXCEPT ![r] = "create"]
    /\ item' = [item EXCEPT ![r] = r]
    /\ \E none \in Stocks :
          /\ \A s \in Stocks : none <= s
          /\ payload' = [payload EXCEPT ![r] = [price |-> p, stock |-> none, brand |-> b]]
    /\ pc' = [pc EXCEPT ![r] = "save"]
    /\ UNCHANGED <<rowVars, edit, repeats, base, effect, shopVars>>

DeleteProduct(r, i) ==
    /\ pc[r] = "idle"
    /\ kind' = [kind EXCEPT ![r] = "delete"]
    /\ item' = [item EXCEPT ![r] = i]
    /\ pc' = [pc EXCEPT ![r] = "find"]
    /\ UNCHANGED <<rowVars, edit, payload, repeats, base, effect, shopVars>>

\* SingleOrDefaultAsync in UpdateProductAsync and DeleteProductAsync.
Find(r) ==
    /\ pc[r] = "find"
    /\ pc' = [pc EXCEPT ![r] = IF There(item[r]) THEN "save" ELSE "notFound"]
    /\ UNCHANGED <<rowVars, item, kind, edit, payload, repeats, base, effect, shopVars>>

\* Mutant: an update of a row that is not there inserts it.
AcceptedUpsert(r) ==
    /\ kind[r] # "edit" => (kind[r] = "create") = ~There(item[r])
    /\ kind[r] # "delete" => payload[r].brand \in Known

\* Mutant: the table has no foreign key for the brand.
AcceptedAnyBrand(r) ==
    (kind[r] = "create") = ~There(item[r])

\* Mutant: the number of rows affected is not looked at.
AcceptedBlindly(r) ==
    /\ kind[r] # "delete" => (kind[r] = "create") = ~There(item[r])
    /\ kind[r] # "delete" => payload[r].brand \in Known

\* What the database accepts: an update or a deletion must affect one row, an id
\* is inserted once, and the brand exists.
Accepted(r) ==
    /\ (kind[r] = "create") = ~There(item[r])
    /\ kind[r] # "delete" => payload[r].brand \in Known

\* Mutant: the item that was read is saved, not the one that was sent.
WrittenOld(r) == rows[item[r]]

\* Every column is written, whatever the client changed.
Written(r) == payload[r]

\* Customers who have the product of r in their basket or in a request.
Asking(c, i) ==
    \/ baskets[c][i] # None
    \/ \E a \in Adds : shopper[a] = c /\ product[a] = i /\ apc[a] = "busy"

\* The save of r is committed.
Commit(r) ==
    LET i   == item[r]
        new == IF kind[r] = "delete" THEN None ELSE Written(r)
    IN  /\ Accepted(r)
        /\ rows' = [rows EXCEPT ![i] = new]
        /\ saves' = IF kind[r] = "edit" THEN [saves EXCEPT ![i] = Append(@, r)] ELSE saves
        /\ gone' = IF kind[r] = "delete" THEN gone \cup {i} ELSE gone
        /\ effect' = effect \cup {r}
        /\ offered' = [c \in Customers |->
                [offered[c] EXCEPT ![i] =
                    IF new # None /\ Asking(c, i) THEN @ \cup {new.price} ELSE @]]
        /\ UNCHANGED <<item, kind, edit, payload, base,
                       apc, shopper, product, price, copy, baskets, charged>>

\* SaveChangesAsync returns: 201 or 204.
Save(r) ==
    /\ pc[r] = "save"
    /\ Commit(r)
    /\ pc' = [pc EXCEPT ![r] = "ok"]
    /\ UNCHANGED repeats

\* Mutant: a save that is refused is answered like one that succeeds.
RefusedSilently(r) ==
    /\ pc[r] = "save"
    /\ ~Accepted(r)
    /\ pc' = [pc EXCEPT ![r] = "ok"]
    /\ UNCHANGED <<rowVars, item, kind, edit, payload, repeats, base, effect, shopVars>>

\* SaveChangesAsync throws: 500.
Refused(r) ==
    /\ pc[r] = "save"
    /\ ~Accepted(r)
    /\ pc' = [pc EXCEPT ![r] = "error"]
    /\ UNCHANGED <<rowVars, item, kind, edit, payload, repeats, base, effect, shopVars>>

\* The connection is lost after the commit: the strategy repeats the save.
Unacknowledged(r) ==
    /\ pc[r] = "save" /\ repeats[r] < MaxSaves
    /\ Commit(r)
    /\ repeats' = [repeats EXCEPT ![r] = @ + 1]
    /\ UNCHANGED pc

\* Repetitions are used up, or the process stops: no answer, or 500.
Fails(r) ==
    /\ pc[r] \in {"find", "save"}
    /\ pc' = [pc EXCEPT ![r] = "error"]
    /\ UNCHANGED <<rowVars, item, kind, edit, payload, repeats, base, effect, shopVars>>

-----------------------------------------------------------------------------
(* The aggregator.                                                         *)

\* AddBasketItemAsync, UpdateAllBasketAsync.
AddStarts(a, c, i) ==
    /\ apc[a] = "idle"
    /\ apc' = [apc EXCEPT ![a] = "busy"]
    /\ shopper' = [shopper EXCEPT ![a] = c]
    /\ product' = [product EXCEPT ![a] = i]
    /\ UNCHANGED <<rowVars, reqVars, price, copy, baskets, charged, offered>>

\* The item is read over gRPC; one that is not there ends the request.
PriceRead(a) ==
    LET i == product[a]
    IN  /\ apc[a] = "busy" /\ price[a] = None
        /\ \/ /\ ~There(i)
              /\ apc' = [apc EXCEPT ![a] = "error"]
              /\ UNCHANGED <<price, offered>>
           \/ /\ There(i)
              /\ price' = [price EXCEPT ![a] = rows[i].price]
              /\ LET o == offered[shopper[a]]
                 IN  offered' = [offered EXCEPT ![shopper[a]] =
                                     [o EXCEPT ![i] = o[i] \cup {rows[i].price}]]
              /\ UNCHANGED apc
        /\ UNCHANGED <<rowVars, reqVars, shopper, product, copy, baskets, charged>>

\* The basket is read: by one handler after the item, by the other before it.
BasketRead(a) ==
    /\ apc[a] = "busy" /\ copy[a] = None
    /\ copy' = [copy EXCEPT ![a] = baskets[shopper[a]]]
    /\ UNCHANGED <<rowVars, reqVars, apc, shopper, product, price, baskets, charged, offered>>

\* Mutant: the line has the price that the client sent.
LinePriceSent(a) == CHOOSE p \in Prices : TRUE

\* A line that is there keeps its price, only its quantity changes.
LinePrice(a) == IF copy[a][product[a]] # None THEN copy[a][product[a]] ELSE price[a]

\* The whole basket is written back, over what others have written.
AddWrites(a) ==
    /\ apc[a] = "busy" /\ price[a] # None /\ copy[a] # None
    /\ apc' = [apc EXCEPT ![a] = "ok"]
    /\ baskets' = [baskets EXCEPT ![shopper[a]] = [copy[a] EXCEPT ![product[a]] = LinePrice(a)]]
    /\ UNCHANGED <<rowVars, reqVars, shopper, product, price, copy, charged, offered>>

\* The basket becomes an order, at its own prices and whatever the catalog has
\* become (see Purchase for the steps of it).
Checkout(c) ==
    /\ \E i \in Items : baskets[c][i] # None
    /\ charged' = charged \cup
          {[customer |-> c, product |-> i, price |-> baskets[c][i]] :
              i \in {j \in Items : baskets[c][j] # None}}
    /\ baskets' = [baskets EXCEPT ![c] = [i \in Items |-> None]]
    /\ UNCHANGED <<rowVars, reqVars, apc, shopper, product, price, copy, offered>>

-----------------------------------------------------------------------------
Next ==
    \/ \E r \in Requests :
         \/ \E i \in Items :
              \/ \E e \in Edits : ItemById(r, i, e)
              \/ DeleteProduct(r, i)
         \/ \E p \in Prices, b \in Brands : CreateProduct(r, p, b)
         \/ Find(r) \/ Save(r) \/ Refused(r) \/ Unacknowledged(r) \/ Fails(r)
    \/ \E a \in Adds :
         \/ \E c \in Customers, i \in Items : AddStarts(a, c, i)
         \/ PriceRead(a) \/ BasketRead(a) \/ AddWrites(a)
    \/ \E c \in Customers : Checkout(c)

Spec == Init /\ [][Next]_vars

-----------------------------------------------------------------------------
(* Properties.                                                             *)

\* Types; no row names a brand that is not there, whichever requests raced.
TypeOK ==
    /\ rows \in [Items -> Rows \cup {None}]
    /\ \A i \in Items : There(i) => rows[i].brand \in Known
    /\ pc \in [Requests -> {"idle", "find", "save", "ok", "notFound", "error"}]
    /\ item \in [Requests -> Items \cup {None}]
    /\ kind \in [Requests -> {"edit", "create", "delete", None}]
    /\ edit \in [Requests -> Edits \cup {None}]
    /\ payload \in [Requests -> Rows \cup {None}]
    /\ repeats \in [Requests -> 0 .. MaxSaves]
    /\ saves \in [Items -> Seq(Requests)]
    /\ base \in [Requests -> Nat]
    /\ effect \subseteq Requests /\ gone \subseteq Items
    /\ apc \in [Adds -> {"idle", "busy", "ok", "error"}]
    /\ shopper \in [Adds -> Customers \cup {None}]
    /\ product \in [Adds -> Items \cup {None}]
    /\ price \in [Adds -> Prices \cup {None}]
    /\ copy \in [Adds -> [Items -> Prices \cup {None}] \cup {None}]
    /\ baskets \in [Customers -> [Items -> Prices \cup {None}]]
    /\ charged \subseteq [customer : Customers, product : Items, price : Prices]
    /\ offered \in [Customers -> [Items -> SUBSET Prices]]

\* The updates of f of item i, as places in the order of its updates.
UpdatesOf(f, i) == {k \in DOMAIN saves[i] : edit[saves[i][k]].field = f}

\* The create of item i is repeated after a lost acknowledgement.
CreateRepeated(i) == i \in Requests /\ repeats[i] > 0

\* Every PUT writes all columns.  A change of one field is in the table until
\* the field is changed again, unless a client that had not seen it puts back
\* another field, or EF Core repeats a save that was made before it.  (An item
\* whose create is repeated may have been deleted in between and start again.)
LostEditExplained ==
    \A i \in Items, f \in Fields : \A k \in UpdatesOf(f, i) :
        LET r == saves[i][k]
        IN  (/\ There(i) /\ ~CreateRepeated(i)
             /\ \A n \in UpdatesOf(f, i) : n <= k
             /\ \A n \in DOMAIN saves[i] : n > k => base[saves[i][n]] >= k)
            => rows[i][f] = edit[r].value

\* An item that was deleted is never there again, though updates that have found
\* it are still under way, unless the save that created it is repeated: then it
\* is inserted once more under its id.
DeletedStaysGone ==
    [][\A i \in gone : ~There(i) /\ ~CreateRepeated(i) => rows'[i] = None]_vars

\* Of all the deletions of an item at most one is told that it deleted it, with
\* the same exception.
DeletedOnce ==
    \A r, q \in Requests :
        /\ r # q /\ kind[r] = "delete" /\ kind[q] = "delete"
        /\ item[r] = item[q] /\ ~CreateRepeated(item[r]) /\ pc[r] = "ok"
        => pc[q] # "ok"

\* A client that is told 201 or 204 has had its effect; one that is told of an
\* error, or that the item is not there, has had one only if an acknowledgement
\* was lost.
AnswerTellsEffect ==
    \A r \in Requests :
        /\ pc[r] = "ok" => r \in effect
        /\ pc[r] \in {"error", "notFound"} /\ r \in effect => repeats[r] > 0

\* Nobody is charged a price that the product did not have at some moment since
\* that customer first asked for it.
ChargedAsOffered ==
    /\ \A o \in charged : o.price \in offered[o.customer][o.product]
    /\ \A c \in Customers, i \in Items : baskets[c][i] # None => baskets[c][i] \in offered[c][i]

\* What clients were told of their requests is true of the items, and a change
\* or a price is lost only in these ways.
EditsExplained ==
    TypeOK /\ LostEditExplained /\ DeletedOnce /\ AnswerTellsEffect /\ ChargedAsOffered
=============================================================================
