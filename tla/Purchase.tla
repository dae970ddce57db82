------------------------------ MODULE Purchase ------------------------------
(***************************************************************************)
(* Buying: the pages of WebMVC over the basket and the order service.  A   *)
(* customer adds products, opens the page that shows the draft of an order *)
(* (OrderController.Create) and submits it (OrderController.Checkout),     *)
(* which first deletes the basket and then asks for a new order.  Two      *)
(* services change one after the other, with nothing to undo the first     *)
(* when the second fails; the failed page is shown again to be retried.    *)
(*                                                                         *)
(* The basket is the one of module Basket, seen as the set of the units    *)
(* added; the order service is the abstract OrderBook, which Ordering      *)
(* implements.  A unit is named by the request that adds it.               *)
(***************************************************************************)
EXTENDS FiniteSets

CONSTANTS
    Adds,       \* CartController.AddToCart requests, and the units they add
    Pages,      \* pages shown by OrderController.Create
    Posts,      \* OrderController.Checkout requests; the orders they ask for
    Customers,
    Cards,
    None

ASSUME NullAssumption ==
    /\ None \notin Customers \cup Pages
    /\ \A S \in SUBSET Adds : None # S
    /\ \A c \in Customers, S \in SUBSET Adds : None # [customer |-> c, units |-> S]
    /\ None # "Submitted"

VARIABLES
    baskets,    \* customer -> set of units, or None
    apc, adder, \* where each AddToCart request is, and whose it is
    copy,       \* its copy of the basket
    page,       \* page -> the customer and the units it shows, or None
    ppc,        \* where each Checkout request is
    sheet,      \* the page it submits
    request, status, owner, charged, answer, \* the order service: see OrderBook
    disturbed   \* (history) customers who did two things at once, or whose
                \* additions met a failed call

basketVars == <<baskets, apc, adder, copy>>
bookVars   == <<request, status, owner, charged, answer>>
vars       == <<basketVars, page, ppc, sheet, bookVars, disturbed>>

Book == INSTANCE OrderBook WITH Orders <- Posts

Units(c)    == IF baskets[c] = None THEN {} ELSE baskets[c]
Adding(c)   == \E a \in Adds : adder[a] = c /\ apc[a] \in {"read", "write"}
Buyer(q)    == page[sheet[q]].customer
Ordered(q)  == page[sheet[q]].units
Posting(c)  == \E q \in Posts : ppc[q] \in {"delete", "create", "wait"} /\ Buyer(q) = c

\* A page that is still to be submitted, or to be retried.
Open(f) == /\ page[f] # None
           /\ \A q \in Posts : ppc[q] = "done" => sheet[q] # f
OpenPageOf(c) == \E f \in Pages : Open(f) /\ page[f].customer = c

Init ==
    /\ baskets = [c \in Customers |-> None]
    /\ apc = [a \in Adds |-> "idle"]
    /\ adder = [a \in Adds |-> None]
    /\ copy = [a \in Adds |-> {}]
    /\ page = [f \in Pages |-> None]
    /\ ppc = [q \in Posts |-> "idle"]
    /\ sheet = [q \in Posts |-> None]
    /\ disturbed = {}
    /\ Book!Init

\* The customer starts something while something else is going on.
Begin(c, busy) == disturbed' = IF busy THEN disturbed \cup {c} ELSE disturbed

-----------------------------------------------------------------------------
(* AddToCart: the aggregator reads, changes and overwrites the basket.     *)

AddToCart(a, c) ==
    /\ apc[a] = "idle"
    /\ apc' = [apc EXCEPT ![a] = "read"]
    /\ adder' = [adder EXCEPT ![a] = c]
    /\ Begin(c, Adding(c) \/ Posting(c) \/ OpenPageOf(c))
    /\ UNCHANGED <<baskets, copy, page, ppc, sheet, bookVars>>

\* GetByIdAsync; a failed call is an absent basket.
AddRead(a) ==
    /\ apc[a] = "read"
    /\ apc' = [apc EXCEPT ![a] = "write"]
    /\ \/ copy' = [copy EXCEPT ![a] = Units(adder[a]) \cup {a}] /\ UNCHANGED disturbed
       \/ copy' = [copy EXCEPT ![a] = {a}] /\ Begin(adder[a], TRUE)
    /\ UNCHANGED <<baskets, adder, page, ppc, sheet, bookVars>>

\* UpdateAsync; a failed call is not noticed.
AddWrite(a) ==
    /\ apc[a] = "write"
    /\ apc' = [apc EXCEPT ![a] = "ok"]
    /\ \/ baskets' = [baskets EXCEPT ![adder[a]] = copy[a]] /\ UNCHANGED disturbed
       \/ UNCHANGED baskets /\ Begin(adder[a], TRUE)
    /\ UNCHANGED <<adder, copy, page, ppc, sheet, bookVars>>

\* A failed call that is noticed (the catalog's), or a crash of the aggregator.
AddFails(a) ==
    /\ apc[a] \in {"read", "write"}
    /\ apc' = [apc EXCEPT ![a] = "error"]
    /\ \/ UNCHANGED baskets
       \/ apc[a] = "write" /\ baskets' = [baskets EXCEPT ![adder[a]] = copy[a]]
    /\ UNCHANGED <<adder, copy, page, ppc, sheet, bookVars, disturbed>>

-----------------------------------------------------------------------------
(* The order page.                                                         *)

\* Mutant: an absent basket is not an error.
CreateAlways(f, c) ==
    /\ page[f] = None
    /\ page' = [page EXCEPT ![f] = [customer |-> c, units |-> baskets[c]]]
    /\ Begin(c, Adding(c) \/ Posting(c) \/ OpenPageOf(c))
    /\ UNCHANGED <<basketVars, ppc, sheet, bookVars>>

\* GetOrderDraft: "No basket found" is an error page; a draft is only shown.
Create(f, c) ==
    /\ page[f] = None
    /\ baskets[c] # None
    /\ page' = [page EXCEPT ![f] = [customer |-> c, units |-> baskets[c]]]
    /\ Begin(c, Adding(c) \/ Posting(c) \/ OpenPageOf(c))
    /\ UNCHANGED <<basketVars, ppc, sheet, bookVars>>

\* The page as it was shown is posted; the page may be posted again, whatever
\* became of earlier posts: nobody looks at its RequestId.
Checkout(q, f) ==
    /\ ppc[q] = "idle"
    /\ page[f] # None
    /\ ppc' = [ppc EXCEPT ![q] = "delete"]
    /\ sheet' = [sheet EXCEPT ![q] = f]
    /\ LET c == page[f].customer
       IN  Begin(c, Adding(c) \/ Posting(c) \/ ~Open(f))
    /\ UNCHANGED <<basketVars, page, bookVars>>

\* Mutant: checking out leaves the basket alone.
CheckoutBasketKeeps(q) ==
    /\ ppc[q] = "delete"
    /\ ppc' = [ppc EXCEPT ![q] = "create"]
    /\ UNCHANGED <<basketVars, page, sheet, bookVars, disturbed>>

\* Mutant: a failed call to Basket.API is not noticed.
CheckoutBasketUnchecked(q) ==
    /\ ppc[q] = "delete"
    /\ ppc' = [ppc EXCEPT ![q] = "create"]
    /\ \/ UNCHANGED baskets
       \/ baskets' = [baskets EXCEPT ![Buyer(q)] = None]
    /\ UNCHANGED <<apc, adder, copy, page, sheet, bookVars, disturbed>>

\* basketSvc.Checkout: Basket.API deletes what is stored by now, which need not
\* be what the page shows; or the call fails, before or after that.
CheckoutBasket(q) ==
    /\ ppc[q] = "delete"
    /\ \/ /\ baskets' = [baskets EXCEPT ![Buyer(q)] = None]
          /\ ppc' = [ppc EXCEPT ![q] = "create"]
       \/ /\ \/ UNCHANGED baskets
             \/ baskets' = [baskets EXCEPT ![Buyer(q)] = None]
          /\ ppc' = [ppc EXCEPT ![q] = "error"]
    /\ UNCHANGED <<apc, adder, copy, page, sheet, bookVars, disturbed>>

\* orderSvc.CreateOrder reaches the order service.
CreateOrder(q) ==
    /\ ppc[q] = "create"
    /\ ppc' = [ppc EXCEPT ![q] = "wait"]
    /\ Book!Ask(q)
    /\ request'[q].customer = Buyer(q)
    /\ UNCHANGED <<basketVars, page, sheet, disturbed>>

\* Mutant: only a server error is an error.
AnsweredIgnored(q) ==
    /\ ppc[q] = "wait"
    /\ answer[q] # "none"
    /\ ppc' = [ppc EXCEPT ![q] = "done"]
    /\ UNCHANGED <<basketVars, page, sheet, bookVars, disturbed>>

\* Redirect to the list of orders, or the page again with an error message.
Answered(q) ==
    /\ ppc[q] = "wait"
    /\ answer[q] # "none"
    /\ ppc' = [ppc EXCEPT ![q] = IF answer[q] = "created" THEN "done" ELSE "error"]
    /\ UNCHANGED <<basketVars, page, sheet, bookVars, disturbed>>

\* The call to the order service breaks or times out; that service may go on.
CallFails(q) ==
    /\ ppc[q] \in {"create", "wait"}
    /\ ppc' = [ppc EXCEPT ![q] = "error"]
    /\ UNCHANGED <<basketVars, page, sheet, bookVars, disturbed>>

\* WebMVC stops, maybe with the deletion under way; the browser has the page.
Crash(q) ==
    /\ ppc[q] \in {"delete", "create", "wait"}
    /\ \/ UNCHANGED baskets
       \/ ppc[q] = "delete" /\ baskets' = [baskets EXCEPT ![Buyer(q)] = None]
    /\ ppc' = [ppc EXCEPT ![q] = "lost"]
    /\ UNCHANGED <<apc, adder, copy, page, sheet, bookVars, disturbed>>

\* The order service works on its own.
OrderService(q) ==
    /\ Book!Record(q) \/ Book!Place(q) \/ Book!GiveUp(q)
    /\ UNCHANGED <<basketVars, page, ppc, sheet, disturbed>>

Next ==
    \/ \E a \in Adds :
          \/ \E c \in Customers : AddToCart(a, c)
          \/ AddRead(a) \/ AddWrite(a) \/ AddFails(a)
    \/ \E f \in Pages, c \in Customers : Create(f, c)
    \/ \E q \in Posts :
          \/ \E f \in Pages : Checkout(q, f)
          \/ CheckoutBasket(q) \/ CreateOrder(q)
          \/ Answered(q) \/ CallFails(q) \/ Crash(q)
          \/ OrderService(q)

Spec == Init /\ [][Next]_vars

-----------------------------------------------------------------------------
(* Properties.                                                             *)

\* Types, and: a page shows a basket that was there (GetOrderDraftAsync answers
\* an absent one with an error), an order is asked for only by a submitted page.
TypeOK ==
    /\ \A f \in Pages : page[f] # None => page[f].units # None
    /\ baskets \in [Customers -> {None} \cup SUBSET Adds]
    /\ apc \in [Adds -> {"idle", "read", "write", "ok", "error"}]
    /\ adder \in [Adds -> Customers \cup {None}]
    /\ copy \in [Adds -> SUBSET Adds]
    /\ page \in [Pages -> {None} \cup [customer : Customers, units : SUBSET Adds]]
    /\ ppc \in [Posts -> {"idle", "delete", "create", "wait", "done", "error", "lost"}]
    /\ sheet \in [Posts -> Pages \cup {None}]
    /\ disturbed \subseteq Customers
    /\ \A q \in Posts :
          /\ ppc[q] # "idle" => sheet[q] # None /\ page[sheet[q]] # None
          /\ request[q] # None => /\ ppc[q] \in {"wait", "done", "error", "lost"}
                                  /\ request[q].customer = Buyer(q)

Recorded(q) == status[q] # None
Listed(q)   == owner[q] # None

\* Checkout may fail at every point, and between the deletion of the basket and
\* the order nothing is stored anywhere.  A customer who does one thing at a time
\* still never loses a unit: it is in the basket, on a page that can be posted
\* again, or in an order of the customer's list.
NothingLost ==
    \A a \in Adds : (apc[a] = "ok" /\ adder[a] \notin disturbed) =>
        \/ a \in Units(adder[a])
        \/ \E f \in Pages : Open(f) /\ page[f].customer = adder[a] /\ a \in page[f].units
        \/ \E q \in Posts : Listed(q) /\ owner[q] = adder[a] /\ a \in Ordered(q)

\* A unit is in two orders of such a customer only when one page was posted
\* again after its first post ended in an error, or without an answer.
OrderedTwiceExplained ==
    \A q, p \in Posts :
        (/\ q # p /\ Recorded(q) /\ Recorded(p) /\ Buyer(q) \notin disturbed
         /\ Buyer(q) = Buyer(p) /\ Ordered(q) \cap Ordered(p) # {}) =>
            sheet[q] = sheet[p] /\ {ppc[q], ppc[p]} \cap {"error", "lost"} # {}

\* What a customer buys is never in the basket any more, unless the checkout of
\* the basket is what failed; a second page then never shows it again.
BoughtLeavesBasket ==
    \A q \in Posts : (Listed(q) /\ Buyer(q) \notin disturbed) =>
        Ordered(q) \cap Units(Buyer(q)) = {}

\* OrderController.Checkout: "It was not possible to create a new order".
ErrorMeansNoOrder == \A q \in Posts : ppc[q] = "error" => ~Recorded(q)

\* What a careful customer put into the basket is there, or was ordered, once.
OrderedOnce == TypeOK /\ NothingLost /\ OrderedTwiceExplained
=============================================================================
